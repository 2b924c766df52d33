----------------------------- MODULE BatchProofs -----------------------------
(***************************************************************************)
(* The batch processor: runs that are to follow each other do, whatever    *)
(* fails, and the results of a batch that ends are complete and in their   *)
(* places, for any jobs, schedules and failures.                           *)
(***************************************************************************)
EXTENDS Batch, SequenceTheorems, TLAPS

----------------------------------------------------------------------------
(* The invariant.                                                          *)

Places == Asleep \cup {"participants", "post", "detail", "result", "runs", "run"}
Mains == {"prep", "job", "serial", "pool", "done", "raised"}
Time == Nat \cup {None}

Types ==
    /\ now \in Nat /\ job \in Nat /\ main \in Mains /\ start \in Time
    /\ thread \in [Task -> [at : Places, wake : Nat, tries : Nat]]
    /\ results \in [DOMAIN Jobs -> Seq([task : Task, outcome : Places])]
    /\ posted \in [Task -> [time : Nat, start : Time] \cup {None}]
    /\ run \in [Task -> Time]

Started(t) == thread[t].at # "idle"

\* Which job the processor is at.
JobOK ==
    /\ main = "prep" => job = 0
    /\ main = "job" => job \in 1 .. Len(Jobs) + 1
    /\ main \in {"serial", "pool"} =>
          /\ job \in DOMAIN Jobs /\ Jobs[job].enabled
          /\ main = "pool" => Jobs[job].parallel
    /\ main = "done" => job > Len(Jobs)

\* The results of a job, those of jobs the processor is through with being complete.
ResultsOK(j) ==
    /\ Len(results[j]) <= n(j)
    /\ \A i \in DOMAIN results[j] : results[j][i].task = <<j, i - 1>>
    /\ ~Jobs[j].enabled => results[j] = <<>>
    /\ main # "prep" /\ j < job /\ Jobs[j].enabled => Len(results[j]) = n(j)

\* What was posted or has a run has a thread; a thread that is past the wait for the end
\* of the run has its end behind it.
TaskOK(t) ==
    /\ posted[t] # None => Started(t)
    /\ run[t] # None => Started(t)
    /\ thread[t].at = "end" => run[t] # None /\ thread[t].wake = Ends(t)
    /\ thread[t].at \in {"result", "runs", "run", "ok", "raised"} =>
          run[t] # None /\ now >= Ends(t)

\* How far the tasks are that are not those in turn.
TurnOK(t) ==
    /\ t[2] < Len(results[t[1]]) => thread[t].at \in Over
    /\ Started(t) => /\ Jobs[t[1]].enabled /\ t[1] <= job
                     /\ main \in {"prep", "job"} => t[1] < job
    /\ main = "serial" /\ t[1] = job /\ t[2] > Len(results[job]) => ~Started(t)

\* Of two tasks that are to follow each other the second starts when the first is over,
\* or is none that is run at all.
Followed ==
    \A t, u \in Task :
        InTurn(t, u) /\ Started(u) => thread[t].at \in Over \/ ~Jobs[t[1]].enabled

\* And its run starts later, if the first has not failed.
Apart ==
    \A t, u \in Task :
        InTurn(t, u) /\ thread[t].at # "failed" /\ run[u] # None /\ run[t] # None
            => run[u] >= Ends(t)

BatchInv ==
    /\ Types /\ JobOK
    /\ \A j \in DOMAIN Jobs : ResultsOK(j)
    /\ \A t \in Task : TaskOK(t) /\ TurnOK(t)
    /\ Followed /\ Apart

----------------------------------------------------------------------------
(* Tasks and numbers.                                                      *)

LEMMA Times ==
    /\ Duration \in Nat /\ Slack \in Nat /\ Setup \in Nat /\ Tries \in Nat
    /\ Len(Jobs) \in Nat /\ DOMAIN Jobs = 1 .. Len(Jobs)
    /\ \A j \in DOMAIN Jobs : /\ j \in Nat /\ n(j) \in Nat
                              /\ Jobs[j].backoff \in Nat /\ Jobs[j].enabled \in BOOLEAN
                              /\ \A i \in Nat : Jobs[j].backoff * i \in Nat
  <1> DEFINE J == [enabled : BOOLEAN, iterations : Nat, parallel : BOOLEAN,
                   sync_start : BOOLEAN, backoff : Nat]
  <1>1. /\ Duration \in Nat /\ Slack \in Nat /\ Setup \in Nat /\ Tries \in Nat
        /\ Jobs \in Seq(J)
    BY BatchAssumption DEF BatchAssumption
  <1>2. ASSUME NEW j \in J
        PROVE  j.backoff \in Nat /\ j.iterations \in Nat /\ j.enabled \in BOOLEAN
    OBVIOUS
  <1> HIDE DEF J
  <1>3. /\ Len(Jobs) \in Nat /\ DOMAIN Jobs = 1 .. Len(Jobs)
        /\ \A j \in DOMAIN Jobs : Jobs[j] \in J
    BY <1>1, LenProperties
  <1>4. \A a, b \in Nat : a * b \in Nat
    OBVIOUS
  <1>5. QED
    BY <1>1, <1>2, <1>3, <1>4 DEF n

LEMMA TaskIs ==
    /\ \A t \in Task : /\ t = <<t[1], t[2]>> /\ t[1] \in DOMAIN Jobs
                       /\ t[1] \in Nat /\ t[2] \in Nat /\ t[2] < n(t[1])
    /\ \A j \in DOMAIN Jobs : /\ n(j) \in Nat
                              /\ \A i \in Nat : i < n(j) => <<j, i>> \in Task
  <1>1. \A j \in DOMAIN Jobs : j \in Nat /\ n(j) \in Nat
    BY Times
  <1>2. ASSUME NEW t \in Task
        PROVE  /\ t = <<t[1], t[2]>> /\ t[1] \in DOMAIN Jobs
               /\ t[1] \in Nat /\ t[2] \in Nat /\ t[2] < n(t[1])
    <2>1. PICK j \in DOMAIN Jobs : t \in {j} \X (0 .. n(j) - 1)
      BY DEF Task, n
    <2>2. QED
      BY <1>1, <2>1
  <1>3. ASSUME NEW j \in DOMAIN Jobs, NEW i \in Nat, i < n(j)
        PROVE  <<j, i>> \in Task
    <2>1. i \in 0 .. n(j) - 1
      BY <1>1, <1>3
    <2>2. QED
      BY <2>1 DEF Task, n
  <1>4. QED
    BY <1>1, <1>2, <1>3

----------------------------------------------------------------------------
(* The threads of the tasks.                                               *)

\* A thread goes on, and posts its task at most.
LEMMA ThreadStep ==
    ASSUME BatchInv, NEW t \in Task, Started(t), thread[t].at \notin Over,
           UNCHANGED <<Client, run>>,
           Types', Started(t)', TaskOK(t)',
           \A u \in Task \ {t} : thread'[u] = thread[u] /\ posted'[u] = posted[u]
    PROVE  BatchInv'
  <1>1. JobOK' /\ \A j \in DOMAIN Jobs : ResultsOK(j)'
    BY DEF BatchInv, JobOK, ResultsOK, Client
  <1>2. ASSUME NEW u \in Task \ {t} PROVE TaskOK(u)' /\ TurnOK(u)'
    BY <1>2 DEF BatchInv, TaskOK, TurnOK, Client, Ends, Started
  <1>3. TurnOK(t)'
    BY DEF BatchInv, TurnOK, Client, Started
  <1>4. Followed'
    BY DEF BatchInv, Followed, Started
  <1>5. Apart'
    <2>1. \A u \in Task : thread'[u].at # "failed" => thread[u].at # "failed"
      BY DEF Over
    <2>2. QED
      BY <2>1 DEF BatchInv, Apart, Ends
  <1>6. QED
    BY <1>1, <1>2, <1>3, <1>4, <1>5 DEF BatchInv

\* What a thread does next, by the place it is at.
Forward(t) ==
    \/ /\ thread[t].at \in {"participants", "delay", "post", "detail", "first"}
       /\ thread'[t].at \in {"delay", "post", "detail", "first", "hung", "failed"}
    \/ /\ thread[t].at = "first" /\ run[t] # None
       /\ thread'[t].at = "end" /\ thread'[t].wake = Ends(t)
    \/ /\ thread[t].at = "end" /\ now >= thread[t].wake
       /\ thread'[t].at = "result"
    \/ /\ thread[t].at \in {"result", "runs", "run"}
       /\ thread'[t].at \in {"runs", "run", "hung", "ok", "failed", "raised"}

\* A step of one thread, to a place it may go to.
LEMMA Moved ==
    ASSUME BatchInv, NEW t \in Task, NEW th \in [at : Places, wake : Nat, tries : Nat],
           thread' = [thread EXCEPT ![t] = th], Forward(t),
           UNCHANGED Client, UNCHANGED run,
           posted' = posted \/ posted' = [posted EXCEPT ![t] = [time |-> now, start |-> start]]
    PROVE  BatchInv'
  <1>1. /\ thread \in [Task -> [at : Places, wake : Nat, tries : Nat]] /\ thread'[t] = th
        /\ \A u \in Task \ {t} : thread'[u] = thread[u] /\ posted'[u] = posted[u]
        /\ now \in Nat /\ run \in [Task -> Time] /\ Duration \in Nat
    BY Times DEF BatchInv, Types
  <1>2. Types'
    <2> DEFINE Posting == [time : Nat, start : Time]
    <2>0. posted \in [Task -> Posting \cup {None}] /\ now \in Nat /\ start \in Time
      BY DEF BatchInv, Types
    <2>a. [time |-> now, start |-> start] \in Posting
      BY <2>0
    <2> HIDE DEF Posting
    <2>b. \A p \in Posting : [posted EXCEPT ![t] = p] \in [Task -> Posting \cup {None}]
      BY <2>0
    <2>1. posted' \in [Task -> Posting \cup {None}]
      BY <2>0, <2>a, <2>b
    <2> USE DEF Posting
    <2>2. QED
      BY <1>1, <2>1 DEF BatchInv, Types, Client
  <1>3. Started(t) /\ Started(t)' /\ thread[t].at \notin Over
    BY DEF Forward, Started, Over
  <1>4. TaskOK(t)'
    BY <1>1, <1>3 DEF BatchInv, TaskOK, Forward, Ends, Client, Started
  <1>5. QED
    BY <1>1, <1>2, <1>3, <1>4, ThreadStep

LEMMA RunTaskKeeps ==
    ASSUME BatchInv, NEW t \in Task, RunTask(t)
    PROVE  BatchInv'
  <1> DEFINE Thread == [at : Places, wake : Nat, tries : Nat]
  <1>1. /\ thread \in [Task -> Thread] /\ now \in Nat /\ Duration \in Nat /\ Tries \in Nat
        /\ run \in [Task -> Time] /\ thread[t] \in Thread
        /\ Jobs[t[1]].backoff * t[2] \in Nat
    BY Times, TaskIs DEF BatchInv, Types
  <1>2. ASSUME NEW to \in Places, NEW wake \in Nat, NEW tries \in Nat
        PROVE  /\ [at |-> to, wake |-> wake, tries |-> tries] \in Thread
               /\ [thread[t] EXCEPT !.at = to] \in Thread
               /\ [thread[t] EXCEPT !.at = to, !.wake = wake] \in Thread
               /\ [thread[t] EXCEPT !.wake = wake, !.tries = tries] \in Thread
    BY <1>1
  <1>3. \A p \in {"participants", "delay", "post", "detail", "first", "end", "result", "runs",
                  "run", "hung", "ok", "failed", "raised"} : p \in Places
    BY DEF Places, Asleep
  <1>4. ASSUME NEW from, NEW to \in Places, At(t, from, to), UNCHANGED Client, UNCHANGED run,
               posted' = posted \/ posted' = [posted EXCEPT ![t] = [time |-> now, start |-> start]],
               thread'[t].at = to => Forward(t)
        PROVE  BatchInv'
    <2>1. thread' = [thread EXCEPT ![t] = [thread[t] EXCEPT !.at = to]]
      BY <1>1, <1>4 DEF At
    <2>2. [thread[t] EXCEPT !.at = to] \in Thread /\ thread'[t].at = to
      BY <1>1, <2>1
    <2>3. QED
      BY <1>4, <2>1, <2>2, Moved
  <1>5. CASE Participants(t)
    <2> DEFINE w == now + Jobs[t[1]].backoff * t[2]
    <2>1. /\ thread' = [thread EXCEPT ![t] = [thread[t] EXCEPT !.at = "delay", !.wake = w]]
          /\ thread[t].at = "participants" /\ UNCHANGED Client /\ UNCHANGED server
      BY <1>1, <1>5 DEF Participants, Sleep
    <2>2. w \in Nat
      BY <1>1
    <2> HIDE DEF w
    <2> DEFINE th == [thread[t] EXCEPT !.at = "delay", !.wake = w]
    <2>3. th \in Thread
      BY <1>2, <1>3, <2>2
    <2>4. th.at = "delay"
      BY <1>1
    <2> HIDE DEF th
    <2>5. thread' = [thread EXCEPT ![t] = th] /\ thread'[t] = th
      BY <1>1, <2>1 DEF th
    <2>6. QED
      BY <2>1, <2>3, <2>4, <2>5, Moved DEF server, Forward
  <1>6. CASE Post(t)
    BY <1>3, <1>4, <1>6 DEF Post, At, Forward
  <1>7. CASE Detail(t)
    <2> DEFINE th == [at |-> "first", wake |-> now, tries |-> Tries]
    <2>1. /\ thread' = [thread EXCEPT ![t] = th] /\ thread'[t] = th
          /\ thread[t].at = "detail" /\ UNCHANGED Client /\ UNCHANGED server
      BY <1>1, <1>7 DEF Detail
    <2>2. th \in Thread /\ th.at = "first"
      BY <1>1, <1>3
    <2>3. QED
      BY <2>1, <2>2, Moved DEF server, Forward
  <1>8. CASE First(t)
    <2>1. thread[t].at = "first" /\ UNCHANGED Client /\ UNCHANGED server
      BY <1>8 DEF First
    <2>2. CASE thread[t].tries = 0
      <3> DEFINE th == [Waiting EXCEPT !.at = "failed"]
      <3>1. thread' = [thread EXCEPT ![t] = th] /\ thread'[t] = th
        BY <1>1, <1>8, <2>2 DEF First
      <3>2. th \in Thread /\ th.at = "failed"
        BY <1>3 DEF Waiting
      <3>3. QED
        BY <2>1, <3>1, <3>2, Moved DEF server, Forward
    <2>3. CASE thread[t].tries # 0 /\ run[t] # None
      <3> DEFINE th == [Waiting EXCEPT !.at = "end", !.wake = Ends(t)]
      <3>1. thread' = [thread EXCEPT ![t] = th] /\ thread'[t] = th
        BY <1>1, <1>8, <2>3 DEF First
      <3>e. Ends(t) \in Nat
        BY <1>1, <2>3 DEF Ends, Time
      <3>2. th \in Thread /\ th.at = "end" /\ th.wake = Ends(t)
        BY <1>3, <3>e DEF Waiting
      <3> HIDE DEF th
      <3>3. QED
        BY <2>1, <2>3, <3>1, <3>2, Moved DEF server, Forward
    <2>4. CASE thread[t].tries # 0 /\ run[t] = None
      <3> DEFINE th == [at |-> "first", wake |-> now + 1, tries |-> thread[t].tries - 1]
      <3>0. now + 1 \in Nat /\ thread[t].tries - 1 \in Nat
        BY <1>1, <2>4
      <3>1. thread' = [thread EXCEPT ![t] = th] /\ thread'[t] = th
        BY <1>1, <1>8, <2>4 DEF First
      <3>2. th \in Thread /\ th.at = "first"
        BY <1>3, <3>0
      <3>3. QED
        BY <2>1, <3>1, <3>2, Moved DEF server, Forward
    <2>5. QED
      BY <2>2, <2>3, <2>4
  <1>9. CASE End(t)
    BY <1>3, <1>4, <1>9 DEF End, At, Forward, server
  <1>10. CASE FetchResult(t)
    BY <1>3, <1>4, <1>10 DEF FetchResult, At, Forward, server
  <1>11. CASE FetchRuns(t)
    BY <1>3, <1>4, <1>11 DEF FetchRuns, At, Forward, server
  <1>12. CASE Fail(t)
    BY <1>3, <1>4, <1>12 DEF Fail, At, Forward, server
  <1>13. CASE Hang(t)
    BY <1>3, <1>4, <1>13 DEF Hang, At, Forward, server
  <1>14. QED
    BY <1>5, <1>6, <1>7, <1>8, <1>9, <1>10, <1>11, <1>12, <1>13 DEF RunTask

----------------------------------------------------------------------------
(* The server and time.                                                    *)

LEMMA ScheduleKeeps ==
    ASSUME BatchInv, NEW t \in Task, Schedule(t)
    PROVE  BatchInv'
  <1>1. /\ now \in Nat /\ run \in [Task -> Time] /\ Duration \in Nat /\ Slack \in Nat
        /\ posted \in [Task -> [time : Nat, start : Time] \cup {None}]
    BY Times DEF BatchInv, Types
  <1>2. PICK s \in Earliest(t) .. Earliest(t) + Slack : run' = [run EXCEPT ![t] = s]
    BY DEF Schedule
  <1>3. posted[t] # None /\ run[t] = None /\ Started(t)
        /\ UNCHANGED <<now, job, main, start, thread, results, failures, posted>>
    BY DEF Schedule, BatchInv, TaskOK
  <1>4. posted[t].start \in Nat \cup {None}
    BY <1>1, <1>3 DEF Time
  <1>5. Earliest(t) \in Nat /\ Earliest(t) >= now
    BY <1>1, <1>4 DEF Earliest
  <1>6. s \in Nat /\ s >= now
    BY <1>1, <1>2, <1>5
  <1>7. /\ run'[t] = s /\ \A u \in Task \ {t} : run'[u] = run[u]
        /\ run' \in [Task -> Time]
    BY <1>1, <1>2, <1>6 DEF Time
  <1>8. Types'
    BY <1>3, <1>7 DEF BatchInv, Types
  <1>9. JobOK' /\ \A j \in DOMAIN Jobs : ResultsOK(j)'
    BY <1>3 DEF BatchInv, JobOK, ResultsOK
  <1>10. ASSUME NEW u \in Task PROVE TaskOK(u)' /\ TurnOK(u)'
    <2>1. TurnOK(u)'
      BY <1>3 DEF BatchInv, TurnOK, Started
    <2>2. u = t => TaskOK(u)'
      BY <1>3 DEF BatchInv, TaskOK, Started
    <2>3. u # t => TaskOK(u)'
      BY <1>3, <1>7 DEF BatchInv, TaskOK, Started, Ends
    <2>4. QED
      BY <2>1, <2>2, <2>3
  <1>11. Followed'
    BY <1>3 DEF BatchInv, Followed, Started
  <1>12. ASSUME NEW x \in Task, NEW u \in Task, InTurn(x, u), thread[x].at # "failed",
                run'[u] # None, run'[x] # None
         PROVE  run'[u] >= run'[x] + Duration
    <2>1. x # u
      BY <1>12, TaskIs DEF InTurn
    <2>2. Started(u) /\ (x # t => Started(x))
      BY <1>3, <1>7, <1>12 DEF BatchInv, TaskOK
    <2>3. Started(x) /\ Jobs[x[1]].enabled
      BY <1>3, <2>2 DEF BatchInv, TurnOK
    <2>4. thread[x].at \in {"ok", "raised"}
      BY <1>12, <2>2, <2>3 DEF BatchInv, Followed, Over
    <2>5. run[x] # None /\ now >= Ends(x)
      BY <2>4 DEF BatchInv, TaskOK
    <2>6. x # t /\ run'[x] = run[x] /\ run[x] \in Nat
      BY <1>1, <1>3, <1>7, <2>5 DEF Time
    <2>7. CASE u = t
      BY <1>1, <1>6, <1>7, <2>5, <2>6, <2>7 DEF Ends
    <2>8. CASE u # t
      BY <1>7, <1>12, <2>6, <2>8 DEF BatchInv, Apart, Ends
    <2>9. QED
      BY <2>7, <2>8
  <1>13. Apart'
    BY <1>3, <1>12 DEF Apart, Ends
  <1>14. QED
    BY <1>8, <1>9, <1>10, <1>11, <1>13 DEF BatchInv

LEMMA TickKeeps ==
    ASSUME BatchInv, Tick
    PROVE  BatchInv'
  <1>1. /\ now \in Nat /\ now' = now + 1 /\ run \in [Task -> Time] /\ Duration \in Nat
        /\ UNCHANGED <<job, main, start, thread, results, failures, posted, run>>
    BY Times DEF BatchInv, Types, Tick, server
  <1>2. Types' /\ JobOK' /\ \A j \in DOMAIN Jobs : ResultsOK(j)'
    <2>1. Types'
      <3>1. now' \in Nat
        BY <1>1
      <3>2. QED
        BY <1>1, <3>1 DEF BatchInv, Types
    <2>2. JobOK' /\ \A j \in DOMAIN Jobs : ResultsOK(j)'
      BY <1>1 DEF BatchInv, JobOK, ResultsOK
    <2>3. QED
      BY <2>1, <2>2
  <1>3. ASSUME NEW t \in Task PROVE TaskOK(t)' /\ TurnOK(t)'
    <2>1. TurnOK(t)'
      BY <1>1 DEF BatchInv, TurnOK, Started
    <2>2. run[t] # None => Ends(t) \in Nat
      BY <1>1 DEF Time, Ends
    <2>3. run[t] # None /\ now >= Ends(t) => now' >= Ends(t)
      BY <1>1, <2>2
    <2>4. TaskOK(t)'
      BY <1>1, <2>3 DEF BatchInv, TaskOK, Started, Ends
    <2>5. QED
      BY <2>1, <2>4
  <1>4. Followed' /\ Apart'
    BY <1>1 DEF BatchInv, Followed, Apart, Started, Ends
  <1>5. QED
    BY <1>2, <1>3, <1>4 DEF BatchInv

----------------------------------------------------------------------------
(* The processor.                                                          *)

\* The results of the jobs before the one that is run are complete, their tasks over.
LEMMA Before ==
    ASSUME BatchInv, main # "prep", NEW t \in Task, t[1] < job
    PROVE  thread[t].at \in Over \/ ~Jobs[t[1]].enabled
  BY TaskIs DEF BatchInv, ResultsOK, TurnOK

\* A step of the processor that leaves the threads alone.
LEMMA MainOnly ==
    ASSUME BatchInv, UNCHANGED <<now, thread, failures, posted, run>>,
           Types', JobOK', \A j \in DOMAIN Jobs : ResultsOK(j)', \A t \in Task : TurnOK(t)'
    PROVE  BatchInv'
  <1>1. \A t \in Task : TaskOK(t)'
    BY DEF BatchInv, TaskOK, Started, Ends
  <1>2. Followed' /\ Apart'
    BY DEF BatchInv, Followed, Apart, Started, Ends
  <1>3. QED
    BY <1>1, <1>2 DEF BatchInv

\* Tasks are started whose predecessors are over.
LEMMA GoKeeps ==
    ASSUME BatchInv, NEW ts \in SUBSET Task, Go(ts),
           UNCHANGED <<now, job, results, posted, run>>, start' \in Time,
           main \in {"job", "serial"}, main' \in {"pool", "serial"}, JobOK',
           Jobs[job].enabled,
           \A x \in ts : /\ x[1] = job /\ ~Started(x) /\ x[2] >= Len(results[job])
                         /\ \A y \in Task : InTurn(y, x) =>
                               thread[y].at \in Over \/ ~Jobs[y[1]].enabled,
           main' = "serial" => \A x \in Task : x[1] = job /\ x[2] > Len(results[job]) =>
                                   ~Started(x) /\ x \notin ts
    PROVE  BatchInv'
  <1>1. /\ \A x \in ts : thread'[x] = [Waiting EXCEPT !.at = "participants"]
        /\ \A x \in Task \ ts : thread'[x] = thread[x]
        /\ thread' = [x \in Task |-> thread'[x]]
    BY DEF Go
  <1>2. \A x \in ts : thread'[x].at = "participants" /\ thread[x].at = "idle"
    BY <1>1 DEF Waiting, Started
  <1>3. Types'
    <2>1. [Waiting EXCEPT !.at = "participants"] \in [at : Places, wake : Nat, tries : Nat]
      BY DEF Waiting, Places
    <2>2. thread \in [Task -> [at : Places, wake : Nat, tries : Nat]]
      BY DEF BatchInv, Types
    <2>3. \A x \in Task : thread'[x] \in [at : Places, wake : Nat, tries : Nat]
      BY <1>1, <2>1, <2>2
    <2>4. thread' \in [Task -> [at : Places, wake : Nat, tries : Nat]]
      BY <1>1, <2>3
    <2>5. main' \in Mains
      BY DEF Mains
    <2>6. QED
      BY <2>4, <2>5 DEF BatchInv, Types
  <1>4. ASSUME NEW j \in DOMAIN Jobs PROVE ResultsOK(j)'
    BY DEF BatchInv, ResultsOK
  <1>5. ASSUME NEW t \in Task PROVE TaskOK(t)'
    BY <1>1, <1>2 DEF BatchInv, TaskOK, Started, Ends
  <1>6. ASSUME NEW t \in Task PROVE TurnOK(t)'
    <2>0. job \in Nat /\ Len(results[job]) \in Nat /\ t[1] \in Nat /\ t[2] \in Nat
          /\ Len(results[t[1]]) \in Nat
      <3>1. job \in DOMAIN Jobs
        BY DEF JobOK
      <3>2. QED
        BY <3>1, TaskIs, LenProperties DEF BatchInv, Types
    <2>1. CASE t \in ts
      BY <1>1, <1>2, <2>0, <2>1 DEF TurnOK, Started
    <2>2. CASE t \notin ts
      BY <1>1, <2>0, <2>2 DEF BatchInv, TurnOK, Started
    <2>3. QED
      BY <2>1, <2>2
  <1>7. Followed'
    <2> SUFFICES ASSUME NEW t \in Task, NEW u \in Task, InTurn(t, u), Started(u)'
                 PROVE  thread'[t].at \in Over \/ ~Jobs[t[1]].enabled
      BY DEF Followed
    <2>1. thread[t].at \in Over \/ ~Jobs[t[1]].enabled
      BY <1>1 DEF BatchInv, Followed, Started
    <2>2. t \in ts => Jobs[t[1]].enabled /\ thread[t].at \notin Over
      BY <1>2 DEF Over
    <2>3. QED
      BY <1>1, <2>1, <2>2
  <1>8. Apart'
    BY <1>1, <1>2 DEF BatchInv, Apart, Ends
  <1>9. QED
    BY <1>3, <1>4, <1>5, <1>6, <1>7, <1>8 DEF BatchInv

LEMMA MainTypes ==
    ASSUME BatchInv
    PROVE  /\ job \in Nat /\ now \in Nat /\ main \in Mains /\ start \in Time
           /\ \A j \in DOMAIN Jobs : Len(results[j]) \in Nat
           /\ \A p \in {"prep", "job", "serial", "pool", "done", "raised"} : p \in Mains
           /\ None \in Time
  BY LenProperties DEF BatchInv, Types, Mains, Time

LEMMA NewTypes ==
    ASSUME BatchInv, UNCHANGED <<now, thread, results, posted, run>>,
           job' \in Nat, main' \in Mains, start' \in Time
    PROVE  Types'
  BY DEF BatchInv, Types

LEMMA PrepKeeps ==
    ASSUME BatchInv, Prep
    PROVE  BatchInv'
  <1>1. /\ UNCHANGED <<now, start, thread, results, failures, posted, run>> /\ job = 0
        /\ \/ main' = "job" /\ job' = 1
           \/ main' = "raised" /\ job' = job
    BY DEF Prep, server, BatchInv, JobOK
  <1>2. Types'
    <2>1. job' \in Nat /\ main' \in Mains /\ start' \in Time
      BY <1>1, MainTypes
    <2>2. QED
      BY <1>1, <2>1, NewTypes
  <1>3. JobOK'
    BY <1>1, Times DEF JobOK
  <1>4. ASSUME NEW j \in DOMAIN Jobs PROVE ResultsOK(j)'
    BY <1>1, Times DEF BatchInv, ResultsOK
  <1>5. ASSUME NEW t \in Task PROVE TurnOK(t)'
    BY <1>1, TaskIs DEF BatchInv, TurnOK, Started
  <1>6. QED
    BY <1>1, <1>2, <1>3, <1>4, <1>5, MainOnly

LEMMA BeginKeeps ==
    ASSUME BatchInv, Begin
    PROVE  BatchInv'
  <1>1. /\ UNCHANGED <<now, results, failures, posted, run>>
        /\ main = "job" /\ job \in 1 .. Len(Jobs) + 1
    BY DEF Begin, server, BatchInv, JobOK
  <1>2. CASE job > Len(Jobs)
    <2>1. main' = "done" /\ UNCHANGED <<job, start, thread>>
      BY <1>2 DEF Begin
    <2>2. Types'
      BY <1>1, <2>1, MainTypes DEF BatchInv, Types
    <2>3. JobOK'
      BY <1>2, <2>1 DEF JobOK
    <2>4. ASSUME NEW j \in DOMAIN Jobs PROVE ResultsOK(j)'
      BY <1>1, <2>1 DEF BatchInv, ResultsOK
    <2>5. ASSUME NEW t \in Task PROVE TurnOK(t)'
      BY <1>1, <2>1 DEF BatchInv, TurnOK, Started
    <2>6. QED
      BY <1>1, <2>1, <2>2, <2>3, <2>4, <2>5, MainOnly
  <1>3. CASE job <= Len(Jobs) /\ ~Jobs[job].enabled
    <2>1. job' = job + 1 /\ UNCHANGED <<main, start, thread>>
      BY <1>1, <1>3, Times DEF Begin
    <2>2. Types'
      <3>1. job' \in Nat /\ main' \in Mains /\ start' \in Time
        BY <1>1, <2>1, MainTypes
      <3>2. QED
        BY <1>1, <2>1, <3>1, NewTypes
    <2>3. JobOK'
      BY <1>1, <1>3, <2>1, Times DEF JobOK
    <2>4. ASSUME NEW j \in DOMAIN Jobs PROVE ResultsOK(j)'
      BY <1>1, <1>3, <2>1, Times DEF BatchInv, ResultsOK
    <2>5. ASSUME NEW t \in Task PROVE TurnOK(t)'
      BY <1>1, <2>1, TaskIs DEF BatchInv, TurnOK, Started
    <2>6. QED
      BY <1>1, <2>1, <2>2, <2>3, <2>4, <2>5, MainOnly
  <1>4. CASE job <= Len(Jobs) /\ Jobs[job].enabled
    <2>0. job \in DOMAIN Jobs /\ ~(job > Len(Jobs))
      BY <1>1, <1>4, Times
    <2>1. /\ start' = StartOf(job) /\ job' = job
          /\ \/ main' = "pool" /\ Go(TasksOf(job)) /\ Jobs[job].parallel
             \/ main' = "serial" /\ UNCHANGED thread
      BY <1>4, <2>0 DEF Begin
    <2>2. start' \in Time
      <3>1. Jobs[job].backoff * n(job) \in Nat /\ now \in Nat /\ Setup \in Nat
        BY <2>0, Times, MainTypes
      <3>2. now + Jobs[job].backoff * n(job) + Setup \in Nat
        BY <3>1
      <3>3. QED
        BY <2>1, <3>2 DEF StartOf, Time
    <2>3. JobOK'
      BY <1>4, <2>0, <2>1 DEF JobOK
    <2>4. \A x \in Task : Started(x) => x[1] < job
      BY <1>1 DEF BatchInv, TurnOK
    <2>5. CASE main' = "serial" /\ UNCHANGED thread
      <3>1. Types'
        BY <1>1, <2>1, <2>2, <2>5, MainTypes DEF BatchInv, Types
      <3>2. ASSUME NEW j \in DOMAIN Jobs PROVE ResultsOK(j)'
        BY <1>1, <2>1, <2>5 DEF BatchInv, ResultsOK
      <3>3. ASSUME NEW t \in Task PROVE TurnOK(t)'
        BY <1>1, <2>1, <2>4, <2>5 DEF BatchInv, TurnOK, Started
      <3>4. QED
        BY <1>1, <2>3, <2>5, <3>1, <3>2, <3>3, MainOnly
    <2>6. CASE main' = "pool" /\ Go(TasksOf(job)) /\ Jobs[job].parallel
      <3>1. ASSUME NEW x \in TasksOf(job)
            PROVE  /\ x[1] = job /\ ~Started(x) /\ x[2] >= Len(results[job])
                   /\ \A y \in Task : InTurn(y, x) =>
                         thread[y].at \in Over \/ ~Jobs[y[1]].enabled
        <4>1. x \in Task /\ x[1] = job /\ job \in Nat
          BY <1>1 DEF TasksOf
        <4>2. ~Started(x)
          BY <2>4, <4>1
        <4>3. x[2] >= Len(results[job])
          <5>1. ~(x[2] < Len(results[job]))
            BY <4>1, <4>2 DEF BatchInv, TurnOK, Started, Over
          <5>2. x[2] \in Nat /\ Len(results[job]) \in Nat
            BY <2>0, <4>1, TaskIs, MainTypes
          <5>3. QED
            BY <5>1, <5>2
        <4>4. ASSUME NEW y \in Task, InTurn(y, x)
              PROVE  thread[y].at \in Over \/ ~Jobs[y[1]].enabled
          <5>1. y[1] < job
            BY <2>6, <4>1, <4>4 DEF InTurn
          <5>2. QED
            BY <1>1, <5>1, Before
        <4>5. QED
          BY <4>1, <4>2, <4>3, <4>4
      <3>2. TasksOf(job) \in SUBSET Task
        BY DEF TasksOf
      <3>3. main' # "serial" /\ main' \in {"pool", "serial"} /\ main \in {"job", "serial"}
        BY <1>1, <2>6
      <3>4. QED
        BY <1>1, <1>4, <2>1, <2>2, <2>3, <2>6, <3>1, <3>2, <3>3, GoKeeps
    <2>7. QED
      BY <2>1, <2>5, <2>6
  <1>5. QED
    BY <1>1, <1>2, <1>3, <1>4, Times

LEMMA NextJobKeeps ==
    ASSUME BatchInv, NextJob
    PROVE  BatchInv'
  <1>1. /\ UNCHANGED <<now, thread, results, failures, posted, run>>
        /\ main' = "job" /\ job' = job + 1 /\ start' = None /\ Len(results[job]) = n(job)
        /\ job \in DOMAIN Jobs /\ main \in {"serial", "pool"}
    BY DEF NextJob, Finished, server, BatchInv, JobOK
  <1>2. Types'
    <2>1. job' \in Nat /\ main' \in Mains /\ start' \in Time
      BY <1>1, MainTypes
    <2>2. QED
      BY <1>1, <2>1, NewTypes
  <1>3. JobOK'
    BY <1>1, Times DEF JobOK
  <1>4. ASSUME NEW j \in DOMAIN Jobs PROVE ResultsOK(j)'
    BY <1>1, Times DEF BatchInv, ResultsOK
  <1>5. ASSUME NEW t \in Task PROVE TurnOK(t)'
    BY <1>1, TaskIs, Times DEF BatchInv, TurnOK, Started
  <1>6. QED
    BY <1>1, <1>2, <1>3, <1>4, <1>5, MainOnly

\* The task whose turn it is.
LEMMA Turn ==
    ASSUME BatchInv, main \in {"serial", "pool"}, ~Finished
    PROVE  LET t == <<job, Len(results[job])>>
           IN  /\ job \in DOMAIN Jobs /\ Jobs[job].enabled
               /\ t \in Task /\ t[1] = job /\ t[2] = Len(results[job])
               /\ Len(results[job]) \in Nat /\ Len(results[job]) < n(job)
  <1>1. job \in DOMAIN Jobs /\ Jobs[job].enabled
    BY DEF BatchInv, JobOK
  <1>2. /\ Len(results[job]) \in Nat /\ n(job) \in Nat
        /\ Len(results[job]) <= n(job) /\ Len(results[job]) # n(job)
    BY <1>1, MainTypes, Times DEF BatchInv, ResultsOK, Finished
  <1>3. QED
    BY <1>1, <1>2, TaskIs

LEMMA SerialKeeps ==
    ASSUME BatchInv, Serial
    PROVE  BatchInv'
  <1> DEFINE t == <<job, Len(results[job])>>
  <1>1. /\ UNCHANGED <<now, job, main, start, results, failures, posted, run>>
        /\ main = "serial" /\ ~Finished /\ thread[t].at = "idle" /\ Go({t})
    BY DEF Serial, server
  <1>2. /\ job \in DOMAIN Jobs /\ Jobs[job].enabled
        /\ t \in Task /\ t[1] = job /\ t[2] = Len(results[job]) /\ Len(results[job]) \in Nat
    BY <1>1, Turn
  <1> HIDE DEF t
  <1>3. JobOK' /\ start' \in Time
    BY <1>1 DEF BatchInv, JobOK, Types
  <1>4. ASSUME NEW y \in Task, InTurn(y, t)
        PROVE  thread[y].at \in Over \/ ~Jobs[y[1]].enabled
    <2>1. CASE y[1] < job
      BY <1>1, <2>1, Before
    <2>2. CASE y[1] = job /\ y[2] < Len(results[job])
      BY <2>2 DEF BatchInv, TurnOK
    <2>3. QED
      BY <1>2, <1>4, <2>1, <2>2 DEF InTurn
  <1>5. ~Started(t) /\ t[2] >= Len(results[job])
    BY <1>1, <1>2 DEF Started
  <1>6. ASSUME NEW x \in Task, x[1] = job, x[2] > Len(results[job])
        PROVE  ~Started(x) /\ x # t
    BY <1>1, <1>2, <1>6 DEF BatchInv, TurnOK
  <1>7. QED
    <2>1. {t} \in SUBSET Task
      BY <1>2
    <2>2. QED
      BY <1>1, <1>2, <1>3, <1>4, <1>5, <1>6, <2>1, GoKeeps

LEMMA CollectKeeps ==
    ASSUME BatchInv, Collect
    PROVE  BatchInv'
  <1> DEFINE t == <<job, Len(results[job])>>
             r == [task |-> t, outcome |-> thread[t].at]
  <1>1. /\ UNCHANGED <<now, job, start, thread, failures, posted, run>>
        /\ main \in {"serial", "pool"} /\ ~Finished /\ thread[t].at \in Over
        /\ \/ main' = "raised" /\ UNCHANGED results
           \/ results' = [results EXCEPT ![job] = Append(results[job], r)] /\ UNCHANGED main
    BY DEF Collect, server, Reported
  <1>2. /\ job \in DOMAIN Jobs /\ Jobs[job].enabled
        /\ t \in Task /\ t[1] = job /\ t[2] = Len(results[job])
        /\ Len(results[job]) \in Nat /\ Len(results[job]) < n(job)
    BY <1>1, Turn
  <1>3. CASE main' = "raised" /\ UNCHANGED results
    <2>1. Types'
      BY <1>1, <1>3, MainTypes, NewTypes
    <2>2. JobOK'
      BY <1>1, <1>3 DEF JobOK
    <2>3. ASSUME NEW j \in DOMAIN Jobs PROVE ResultsOK(j)'
      BY <1>1, <1>3 DEF BatchInv, ResultsOK
    <2>4. ASSUME NEW u \in Task PROVE TurnOK(u)'
      BY <1>1, <1>3 DEF BatchInv, TurnOK, Started
    <2>5. QED
      BY <1>1, <2>1, <2>2, <2>3, <2>4, MainOnly
  <1>4. CASE /\ results' = [results EXCEPT ![job] = Append(results[job], r)]
             /\ UNCHANGED main
    <2> DEFINE Result == [task : Task, outcome : Places]
    <2>1. results \in [DOMAIN Jobs -> Seq(Result)] /\ r.task = t
      BY DEF BatchInv, Types
    <2>2. r \in Result
      BY <1>2 DEF BatchInv, Types
    <2> HIDE DEF t, r, Result
    <2>3. results[job] \in Seq(Result)
      BY <1>2, <2>1
    <2>4. /\ Append(results[job], r) \in Seq(Result)
          /\ Len(Append(results[job], r)) = Len(results[job]) + 1
          /\ \A i \in 1 .. Len(results[job]) : Append(results[job], r)[i] = results[job][i]
          /\ Append(results[job], r)[Len(results[job]) + 1] = r
      BY <2>2, <2>3, AppendProperties
    <2>5. /\ results' \in [DOMAIN Jobs -> Seq(Result)]
          /\ results'[job] = Append(results[job], r)
          /\ \A j \in DOMAIN Jobs \ {job} : results'[j] = results[j]
      BY <1>2, <1>4, <2>1, <2>4
    <2>6. Types'
      BY <1>1, <1>4, <2>5 DEF BatchInv, Types, Result
    <2>7. JobOK'
      BY <1>1, <1>4 DEF BatchInv, JobOK
    <2>8. ASSUME NEW j \in DOMAIN Jobs PROVE ResultsOK(j)'
      <3>1. CASE j # job
        BY <1>1, <1>4, <2>5, <3>1 DEF BatchInv, ResultsOK
      <3>2. CASE j = job
        <4>1. Len(results'[job]) = Len(results[job]) + 1 /\ Len(results'[job]) <= n(job)
          BY <1>2, <2>4, <2>5, Times
        <4>2. ASSUME NEW i \in DOMAIN results'[job]
              PROVE  results'[job][i].task = <<job, i - 1>>
          <5>1. DOMAIN results'[job] = 1 .. Len(results[job]) + 1
                /\ DOMAIN results[job] = 1 .. Len(results[job])
            BY <2>3, <2>4, <2>5, LenProperties
          <5>2. CASE i = Len(results[job]) + 1
            BY <1>2, <2>1, <2>4, <2>5, <5>2 DEF t
          <5>3. CASE i \in 1 .. Len(results[job])
            BY <1>2, <2>4, <2>5, <5>1, <5>3 DEF BatchInv, ResultsOK
          <5>4. QED
            BY <1>2, <5>1, <5>2, <5>3
        <4>3. QED
          BY <1>1, <1>2, <3>2, <4>1, <4>2, Times DEF ResultsOK
      <3>3. QED
        BY <3>1, <3>2
    <2>9. ASSUME NEW u \in Task PROVE TurnOK(u)'
      <3>1. u[1] \in DOMAIN Jobs /\ u[2] \in Nat
        BY TaskIs
      <3>2. CASE u[1] # job
        BY <1>1, <1>4, <2>5, <3>1, <3>2 DEF BatchInv, TurnOK, Started
      <3>3. CASE u[1] = job
        <4>1. Len(results'[job]) = Len(results[job]) + 1
          BY <2>4, <2>5
        <4>2. u[2] = Len(results[job]) => u = t
          BY <3>3, TaskIs DEF t
        <4>3. u[2] < Len(results'[job]) => thread[u].at \in Over
          BY <1>1, <1>2, <3>1, <3>3, <4>1, <4>2 DEF BatchInv, TurnOK
        <4>4. u[2] > Len(results'[job]) => u[2] > Len(results[job])
          BY <1>2, <3>1, <4>1
        <4>5. QED
          BY <1>1, <1>4, <3>3, <4>3, <4>4 DEF BatchInv, TurnOK, Started
      <3>4. QED
        BY <3>2, <3>3
    <2>10. QED
      BY <1>1, <2>6, <2>7, <2>8, <2>9, MainOnly
  <1>5. QED
    BY <1>1, <1>3, <1>4

----------------------------------------------------------------------------
(* The theorem.                                                            *)

LEMMA BatchInit ==
    ASSUME Init
    PROVE  BatchInv
  <1>1. Types
    <2>1. Waiting \in [at : Places, wake : Nat, tries : Nat]
      BY DEF Waiting, Places, Asleep
    <2>2. <<>> \in Seq([task : Task, outcome : Places])
      OBVIOUS
    <2>3. QED
      BY <2>1, <2>2 DEF Init, Types, Mains, Time
  <1>2. JobOK
    BY DEF Init, JobOK
  <1>3. ASSUME NEW j \in DOMAIN Jobs PROVE ResultsOK(j)
    BY Times DEF Init, ResultsOK
  <1>4. ASSUME NEW t \in Task
        PROVE  /\ ~Started(t) /\ posted[t] = None /\ run[t] = None
               /\ thread[t].at = "idle" /\ results[t[1]] = <<>>
    BY TaskIs DEF Init, Started, Waiting
  <1>5. ASSUME NEW t \in Task PROVE TaskOK(t) /\ TurnOK(t)
    BY <1>4, TaskIs DEF Init, TaskOK, TurnOK
  <1>6. Followed /\ Apart
    BY <1>4 DEF Followed, Apart
  <1>7. QED
    BY <1>1, <1>2, <1>3, <1>5, <1>6 DEF BatchInv

LEMMA BatchStep ==
    ASSUME BatchInv, [Next]_bvars
    PROVE  BatchInv'
  <1>1. CASE Main
    BY <1>1, PrepKeeps, BeginKeeps, NextJobKeeps, SerialKeeps, CollectKeeps DEF Main
  <1>2. CASE Tick
    BY <1>2, TickKeeps
  <1>3. CASE \E t \in Task : RunTask(t) \/ Schedule(t)
    BY <1>3, RunTaskKeeps, ScheduleKeeps
  <1>4. CASE UNCHANGED bvars
    <2>1. Types' /\ JobOK' /\ Followed' /\ Apart'
      BY <1>4 DEF BatchInv, Types, JobOK, Followed, Apart, Started, Ends, bvars
    <2>2. \A j \in DOMAIN Jobs : ResultsOK(j)'
      BY <1>4 DEF BatchInv, ResultsOK, bvars
    <2>3. \A t \in Task : TaskOK(t)' /\ TurnOK(t)'
      BY <1>4 DEF BatchInv, TaskOK, TurnOK, Started, Ends, bvars
    <2>4. QED
      BY <2>1, <2>2, <2>3 DEF BatchInv
  <1>5. QED
    BY <1>1, <1>2, <1>3, <1>4 DEF Next

\* Whatever is refused, lost or raised and whenever the server schedules a run: the runs
\* of tasks that are to follow each other never overlap unless the first was reported
\* as failed, and a batch that ends has each result of each enabled job in its place
\* (batchprocessor.py, __run_task and __call__).
THEOREM RunsInOrder == Spec => []BatchInOrder
  <1>1. Init => BatchInv
    BY BatchInit
  <1>2. BatchInv /\ [Next]_bvars => BatchInv'
    BY BatchStep
  <1>3. BatchInv => BatchInOrder
    <2> SUFFICES ASSUME BatchInv PROVE BatchInOrder
      OBVIOUS
    <2>1. ASSUME NEW j \in DOMAIN Jobs, main = "done"
          PROVE  Len(results[j]) = IF Jobs[j].enabled THEN n(j) ELSE 0
      <3>1. j < job
        BY <2>1, Times, MainTypes DEF BatchInv, JobOK
      <3>2. QED
        BY <2>1, <3>1 DEF BatchInv, ResultsOK
    <2>2. QED
      BY <2>1 DEF BatchInv, ResultsOK, Apart, BatchInOrder
  <1>4. QED
    BY <1>1, <1>2, <1>3, PTL DEF Spec

=============================================================================
