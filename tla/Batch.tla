-------------------------------- MODULE Batch --------------------------------
(***************************************************************************)
(* The batch processor (batchprocessor/batchprocessor.py): jobs one after  *)
(* the other, the iterations of a job in turn or in parallel, each posted  *)
(* as a task whose one run is waited for.  Of the server there is what the *)
(* requests for runs and results answer (runs.py), and a schedule that     *)
(* gives a task its run some time, or never.                               *)
(***************************************************************************)
EXTENDS Integers, Sequences, FiniteSets

CONSTANTS
    Jobs,       \* the jobs: enabled, iterations, parallel, sync_start, backoff
    Setup,      \* setup-time
    Tries,      \* how often the server looks for a first run
    Duration,   \* of a run
    Slack,      \* bound on how long after it may a run is started
    Failures,   \* bound on the requests that fail or are never answered
    None

ASSUME BatchAssumption ==
    /\ Jobs \in Seq([enabled : BOOLEAN, iterations : Nat, parallel : BOOLEAN,
                     sync_start : BOOLEAN, backoff : Nat])
    /\ Setup \in Nat \ {0} /\ Tries \in Nat \ {0} /\ Duration \in Nat \ {0}
    /\ Slack \in Nat /\ Failures \in Nat

Task == UNION {{j} \X (0 .. Jobs[j].iterations - 1) : j \in DOMAIN Jobs}

VARIABLES
    now,
    job,        \* the job that is being run, 0 before they are prepared
    main,       \* where the processor is: prep, job, serial, pool, done, raised
    start,      \* the start injected into the tasks of a job, None if there is none
    thread,     \* task -> what __run_task is doing for it
    results,    \* job -> the results of its tasks
    failures,
    posted,     \* task -> when the server took it, for which start, None before
    run         \* task -> when its run starts, None if there is none

bvars == <<now, job, main, start, thread, results, failures, posted, run>>
server == <<posted, run>>

Ends(t) == run[t] + Duration
Asleep == {"idle", "delay", "first", "end", "hung", "ok", "failed", "raised"}
Over == {"ok", "failed", "raised"}
Waiting == [at |-> "idle", wake |-> 0, tries |-> 0]

Init ==
    /\ now = 0 /\ job = 0 /\ main = "prep" /\ start = None
    /\ thread = [t \in Task |-> Waiting]
    /\ results = [j \in DOMAIN Jobs |-> <<>>]
    /\ failures = 0
    /\ posted = [t \in Task |-> None] /\ run = [t \in Task |-> None]

----------------------------------------------------------------------------
(* The server.                                                             *)

Earliest(t) == IF posted[t].start = None \/ posted[t].start < now THEN now ELSE posted[t].start

\* A task is given its run, not before its start time.
Schedule(t) ==
    /\ posted[t] # None /\ run[t] = None
    /\ \E s \in Earliest(t) .. Earliest(t) + Slack : run' = [run EXCEPT ![t] = s]
    /\ UNCHANGED <<now, job, main, start, thread, results, failures, posted>>

\* Requests take no time next to the time that is waited for.
Tick ==
    /\ main \notin {"prep", "job", "done", "raised"}
    /\ \A t \in Task : thread[t].at \in Asleep
    /\ \E t \in Task : thread[t].at \in {"delay", "first", "end"} /\ now < thread[t].wake
    /\ ~\E t \in Task : thread[t].at \in {"delay", "first", "end"} /\ now >= thread[t].wake
    /\ now' = now + 1
    /\ UNCHANGED <<job, main, start, thread, results, failures, server>>

----------------------------------------------------------------------------
(* __run_task                                                              *)

At(t, from, to) == thread[t].at = from /\ thread' = [thread EXCEPT ![t].at = to]
Sleep(t, from, to, wake) ==
    /\ thread[t].at = from
    /\ thread' = [thread EXCEPT ![t].at = to, ![t].wake = wake]
Client == <<now, job, main, start, results>>

\* A request is refused, or fails; nothing of it is tried again.
Fail(t) ==
    /\ failures < Failures /\ failures' = failures + 1
    /\ \/ /\ \E from \in {"participants", "post", "detail", "runs"} : At(t, from, "failed")
          /\ UNCHANGED server
       \/ /\ \E from \in {"first", "result"} : At(t, from, "failed") /\ now >= thread[t].wake
          /\ UNCHANGED server
       \/ /\ At(t, "post", "failed")            \* the answer is lost
          /\ posted' = [posted EXCEPT ![t] = [time |-> now, start |-> start]] /\ UNCHANGED run
       \/ /\ At(t, "run", "raised")             \* url_get throws
          /\ UNCHANGED server
    /\ UNCHANGED Client

\* A request is never answered: no timeout is given for it.
Hang(t) ==
    /\ failures < Failures /\ failures' = failures + 1
    /\ \E from \in {"participants", "post", "detail", "first", "result", "runs", "run"} :
          At(t, from, "hung")
    /\ posted' \in IF thread[t].at = "post"
                   THEN {posted, [posted EXCEPT ![t] = [time |-> now, start |-> start]]}
                   ELSE {posted}
    /\ UNCHANGED <<Client, run>>

Participants(t) ==
    /\ Sleep(t, "participants", "delay", now + Jobs[t[1]].backoff * t[2])
    /\ UNCHANGED <<Client, failures, server>>

Post(t) ==
    /\ \/ thread[t].at = "delay" /\ now >= thread[t].wake
          /\ At(t, "delay", "post") /\ UNCHANGED posted
       \/ At(t, "post", "detail") /\ posted' = [posted EXCEPT ![t] = [time |-> now, start |-> start]]
    /\ UNCHANGED <<Client, failures, run>>

Detail(t) ==
    /\ thread[t].at = "detail"
    /\ thread' = [thread EXCEPT ![t] = [at |-> "first", wake |-> now, tries |-> Tries]]
    /\ UNCHANGED <<Client, failures, server>>

\* The server looks for the first run once a second, and finds none in the end.
First(t) ==
    /\ thread[t].at = "first" /\ now >= thread[t].wake
    /\ thread' = [thread EXCEPT ![t] =
                     IF thread[t].tries = 0 THEN [Waiting EXCEPT !.at = "failed"]
                     ELSE IF run[t] # None THEN [Waiting EXCEPT !.at = "end", !.wake = Ends(t)]
                     ELSE [at |-> "first", wake |-> now + 1, tries |-> thread[t].tries - 1]]
    /\ UNCHANGED <<Client, failures, server>>

\* Mutant: the run is not waited for once it is known.
EndAtOnce(t) ==
    /\ At(t, "end", "result")
    /\ UNCHANGED <<Client, failures, server>>

\* The run is slept through.
End(t) ==
    /\ now >= thread[t].wake
    /\ At(t, "end", "result")
    /\ UNCHANGED <<Client, failures, server>>

\* Asked for a result, the server answers at once, waits a little in vain or does
\* not find it: wait-merged is not what it looks at.  404 is taken for an answer,
\* so whether there was a result makes no difference.
FetchResult(t) ==
    /\ At(t, "result", "runs")
    /\ UNCHANGED <<Client, failures, server>>

FetchRuns(t) ==
    /\ At(t, "runs", "run") \/ At(t, "run", "ok")
    /\ UNCHANGED <<Client, failures, server>>

----------------------------------------------------------------------------
(* __call__                                                                *)

TasksOf(j) == {t \in Task : t[1] = j}
n(j) == Jobs[j].iterations
Reported(t) == [task |-> t, outcome |-> thread[t].at]
Go(ts) == thread' = [t \in Task |-> IF t \in ts THEN [Waiting EXCEPT !.at = "participants"] ELSE thread[t]]

\* All jobs are prepared first; a transform that fails raises before anything
\* is run.
Prep ==
    /\ main = "prep"
    /\ \/ main' = "job" /\ job' = 1
       \/ main' = "raised" /\ UNCHANGED job
    /\ UNCHANGED <<now, start, thread, results, failures, server>>

\* The start that is injected is past all backoffs.
StartOf(j) ==
    IF Jobs[j].parallel /\ Jobs[j].sync_start
    THEN now + Jobs[j].backoff * n(j) + Setup ELSE None

\* The next job: one that is disabled has no results.
Begin ==
    /\ main = "job"
    /\ IF job > Len(Jobs) THEN main' = "done" /\ UNCHANGED <<job, start, thread>>
       ELSE IF ~Jobs[job].enabled
       THEN job' = job + 1 /\ UNCHANGED <<main, start, thread>>
       ELSE /\ start' = StartOf(job)
            /\ IF Jobs[job].parallel /\ n(job) > 1
               THEN main' = "pool" /\ Go(TasksOf(job))
               ELSE main' = "serial" /\ UNCHANGED thread
            /\ UNCHANGED job
    /\ UNCHANGED <<now, results, failures, server>>

Finished == Len(results[job]) = n(job)

NextJob ==
    /\ main \in {"serial", "pool"} /\ Finished
    /\ main' = "job" /\ job' = job + 1 /\ start' = None
    /\ UNCHANGED <<now, thread, results, failures, server>>

\* One task after the other.
Serial ==
    /\ main = "serial" /\ ~Finished
    /\ LET t == <<job, Len(results[job])>> IN
       /\ thread[t].at = "idle"
       /\ Go({t})
    /\ UNCHANGED <<now, job, main, start, results, failures, server>>

\* Mutant: a task that failed gives no result.
CollectGood ==
    /\ main \in {"serial", "pool"} /\ ~Finished
    /\ LET t == <<job, Len(results[job])>> IN
       /\ thread[t].at \in {"ok", "raised"}
       /\ IF thread[t].at = "raised" THEN main' = "raised" /\ UNCHANGED results
          ELSE results' = [results EXCEPT ![job] = Append(@, Reported(t))] /\ UNCHANGED main
    /\ UNCHANGED <<now, job, start, thread, failures, server>>

\* The next result is taken, in the order of the tasks; what a task raised ends
\* the batch.
Collect ==
    /\ main \in {"serial", "pool"} /\ ~Finished
    /\ LET t == <<job, Len(results[job])>> IN
       /\ thread[t].at \in Over
       /\ IF thread[t].at = "raised" THEN main' = "raised" /\ UNCHANGED results
          ELSE results' = [results EXCEPT ![job] = Append(@, Reported(t))] /\ UNCHANGED main
    /\ UNCHANGED <<now, job, start, thread, failures, server>>

RunTask(t) ==
    /\ main \in {"serial", "pool"}
    /\ \/ Participants(t) \/ Post(t) \/ Detail(t) \/ First(t) \/ End(t)
       \/ FetchResult(t) \/ FetchRuns(t) \/ Fail(t) \/ Hang(t)

Main == Prep \/ Begin \/ NextJob \/ Serial \/ Collect

Next ==
    \/ Main \/ Tick
    \/ \E t \in Task : RunTask(t) \/ Schedule(t)

Spec == Init /\ [][Next]_bvars

----------------------------------------------------------------------------

\* Whatever fails, runs of tasks that are to follow each other never overlap: those
\* of two jobs, and those of a job that is not parallel; a task that is reported as
\* failed is excepted, which may get its run after the batch has gone on.  And a
\* batch that comes to its end reports each task of each job that is enabled, in
\* its place (batchprocessor.py 398-471).
InTurn(t, u) == t[1] < u[1] \/ (t[1] = u[1] /\ ~Jobs[t[1]].parallel /\ t[2] < u[2])

BatchInOrder ==
    /\ \A t, u \in Task :
          InTurn(t, u) /\ thread[t].at # "failed" /\ run[u] # None /\ run[t] # None
              => run[u] >= Ends(t)
    /\ \A j \in DOMAIN Jobs :
          /\ \A i \in DOMAIN results[j] : results[j][i].task = <<j, i - 1>>
          /\ main = "done" => Len(results[j]) = IF Jobs[j].enabled THEN n(j) ELSE 0

\* Time passes and the threads run; a request need not be answered.
BatchSpec == Spec /\ WF_bvars(Tick) /\ WF_bvars(Main) /\ \A t \in Task : WF_bvars(RunTask(t))

\* A batch ends, with all its results or with what was raised, though no run is
\* ever scheduled, no result comes and requests fail.  Nothing holds it up but a
\* request of the job at hand that is never answered (batchprocessor.py 398-471,
\* psurl.py 49-50).
Stuck == \E t \in Task : t[1] = job /\ thread[t].at = "hung"
EveryBatchEnds == <>(Stuck \/ main \in {"done", "raised"})

=============================================================================
