------------------------------ MODULE Scheduler ------------------------------
(***************************************************************************)
(* The scheduler daemons (daemons/scheduler) of a set of nodes.  Each task *)
(* is scheduled by the node of its lead participant, by at most one worker *)
(* thread at a time.  A worker asks every participant for the times it has *)
(* free, posts a run on the lead, puts it on the others in turn, and sends *)
(* the data of all participants to each of them.  What goes wrong on the   *)
(* way is rolled back by deleting the run where it was accepted.           *)
(*                                                                         *)
(* Workers of different tasks compete for the same times.  Any request may *)
(* fail, take effect without the worker learning of it, or find its own    *)
(* node down; a worker may die with its daemon.                            *)
(*                                                                         *)
(* Tests are of the exclusive class, and a run takes one unit of time.     *)
(* What becomes of a run once it is on the schedule is in module Runner.   *)
(***************************************************************************)
EXTENDS Integers, Sequences, FiniteSets

CONSTANTS
  Task, Node,
  Participants,  \* the participants of each task, the lead first
  Repeat,        \* how often each task repeats, 0 for once
  Slip,          \* how far each task's runs may slip
  Limit,         \* max-runs of each task
  Prioritized,   \* the tasks that have a priority; all priorities are 0
  Old,           \* the nodes too old to know of priorities
  Strict,        \* the nodes whose limits may forbid a run
  Offset,        \* first_run_offset
  Refresh,       \* refresh, the longest wait of the main loop
  Horizon,       \* configurables.schedule_horizon
  Retries,       \* conflict_retries
  MaxTime,       \* bound on the clock
  MaxSessions,   \* bound on the workers ever started
  MaxFaults      \* bound on what goes wrong

ASSUME SchedulerAssumption ==
  /\ Participants \in [Task -> Seq(Node)]
  /\ \A t \in Task :
       /\ Participants[t] # <<>>
       /\ \A i, j \in DOMAIN Participants[t] :
            Participants[t][i] = Participants[t][j] => i = j
  /\ Repeat \in [Task -> Nat]
  /\ Slip \in [Task -> Nat]
  /\ Limit \in [Task -> Nat]
  /\ Prioritized \subseteq Task
  /\ Strict \subseteq Node /\ Old \subseteq Node
  /\ Offset \in Nat /\ Refresh \in Nat /\ Horizon \in Nat /\ Retries \in Nat
  /\ MaxTime \in Nat /\ MaxSessions \in Nat /\ MaxFaults \in Nat

VARIABLES
  now,       \* the clock
  run,       \* the runs ever made, on whatever nodes they have rows
  task,      \* columns runs and first_start of each task, on its lead
  worker,    \* the worker of each task
  sessions,  \* how many workers were started
  faults     \* how much went wrong

vars == <<now, run, task, worker, sessions, faults>>

Lead(t) == Participants[t][1]
Party(t) == {Participants[t][i] : i \in DOMAIN Participants[t]}

\* A run is the same wherever it is, but for the state of its row.
Run == [task : Task, start : Int,
        held : SUBSET Node,     \* the nodes that have a row for it
        barred : SUBSET Node,   \* those on which it is a non-starter
        full : SUBSET Node]     \* those that have all participants' data

Results == {"scheduled", "skip", "conflict", "error"}

\* Where a worker is in schedule_task and run_post.
Steps == {"idle", "try", "propose", "lead", "put", "gather", "full",
          "delete", "decide", "nonstart"}

Worker == [pc : Steps,
           wanted : Int,           \* the time the main loop gave it (trynext)
           try : Int,              \* the time it schedules for
           left : Nat,             \* tries_left
           pass : 1..2,            \* asking without and with a priority
           next : Nat,             \* the participant whose turn it is
           free : SUBSET Int,      \* the starts that suit all asked so far
           slot : Int,
           id : Nat,
           posted : SUBSET Node,   \* runs_posted
           result : Results]

Idle == [pc |-> "idle", wanted |-> 0, try |-> 0, left |-> 0, pass |-> 1, next |-> 0,
         free |-> {}, slot |-> 0, id |-> 0, posted |-> {}, result |-> "error"]

Init ==
  /\ now = 0
  /\ run = <<>>
  /\ task = [t \in Task |-> [runs |-> 0, first_start |-> 0]]
  /\ worker = [t \in Task |-> Idle]
  /\ sessions = 0
  /\ faults = 0

-----------------------------------------------------------------------------
\* The tables of the nodes.

\* The runs of t that its lead has a row for.
OnLead(t) == {r \in DOMAIN run : run[r].task = t /\ Lead(t) \in run[r].held}

\* Something on the schedule of n starts at s.
Conflict(n, s) ==
  \E r \in DOMAIN run : n \in run[r].held \ run[r].barred /\ run[r].start = s

\* What n may be running by now.
Due(n) == {r \in DOMAIN run : n \in run[r].held \ run[r].barred /\ run[r].start <= now}

\* The starts n proposes for t while it is running some of its runs, which
\* are avoided.  So are runs that have a priority, if t has none: for a task
\* that has one, use_priority becomes NULL, a comparison with which is never
\* true.
Proposed(n, t, try, most, running) ==
  {s \in try..(try + most) :
     /\ now <= s /\ s < now + Horizon
     /\ ~\E r \in DOMAIN run :
           /\ n \in run[r].held \ run[r].barred
           /\ run[r].start = s
           /\ r \in running \/ (run[r].task \in Prioritized /\ t \notin Prioritized)}

\* A row for a new run of t on its lead, which assigns the id.  The count of
\* runs never goes down, and the first of them is remembered.
InsertOnLead(t, start, barring) ==
  /\ run' = Append(run, [task |-> t, start |-> start, held |-> {Lead(t)},
                         barred |-> barring, full |-> {}])
  /\ task' = [task EXCEPT ![t] =
                [runs |-> @.runs + 1,
                 first_start |-> IF @.runs = 0 THEN start ELSE @.first_start]]

\* A row for run r on n.
Insert(r, n, barring) ==
  LET row == run[r]
  IN  run' = [run EXCEPT ![r] = [row EXCEPT !.held = @ \cup {n},
                                            !.barred = @ \cup barring]]

\* No row for run r on n.
Remove(r, n) ==
  LET row == run[r]
  IN  run' = [run EXCEPT ![r] = [row EXCEPT !.held = @ \ {n}, !.barred = @ \ {n},
                                            !.full = @ \ {n}]]

\* Node n, which has a row for run r, gets all participants' data.
Deliver(r, n) ==
  LET row == run[r]
  IN  /\ n \in row.held
      /\ run' = [run EXCEPT ![r] = [row EXCEPT !.full = @ \cup {n}]]

\* How n may take a run that starts at s: its limits have their say, and one
\* they forbid becomes a non-starter, which nothing conflicts with.
Accepts(n, s) ==
  {barring \in SUBSET ({n} \cap Strict) : Conflict(n, s) => barring # {}}

Fault == faults < MaxFaults /\ faults' = faults + 1
-----------------------------------------------------------------------------
\* What needs a run (schedule_runs_to_schedule), and when (task_next_run).

\* The quotient of i and n without its fraction.
Trunc(i, n) == IF i < 0 THEN -((-i) \div n) ELSE i \div n

\* The start of the interval after the given time.
task_next_run(t, after) ==
  LET start == task[t].first_start
  IN  start + Repeat[t] * (Trunc(after - start, Repeat[t]) + 1)

\* Now, or the latest end of a run of t on the lead (run_latest).
Latest(t) == LET times == {now} \cup {run[r].start + 1 : r \in OnLead(t)}
             IN  {e \in times : \A f \in times : f <= e}

\* Mutant: a task may have one more run than its limit.
SelectableAtLimit(t, trynext) ==
  /\ task[t].runs <= Limit[t]
  /\ \/ Repeat[t] = 0 /\ OnLead(t) = {}
     \/ Repeat[t] # 0 /\ (task[t].runs = 0 \/ OnLead(t) # {})
  /\ trynext < now + Horizon - Slip[t]

Selectable(t, trynext) ==
  /\ task[t].runs < Limit[t]
  /\ \/ Repeat[t] = 0 /\ OnLead(t) = {}
     \/ Repeat[t] # 0 /\ (task[t].runs = 0 \/ OnLead(t) # {})
  /\ trynext < now + Horizon - Slip[t]

\* The main loop starts a worker.  The first run is pushed out a little.
Start(t) ==
  \E latest \in Latest(t) :
    LET trynext == IF Repeat[t] = 0 \/ task[t].runs = 0
                   THEN now ELSE task_next_run(t, latest)
        first   == IF task[t].runs = 0 THEN now + Offset ELSE trynext
    IN  /\ worker[t].pc = "idle"
        /\ sessions < MaxSessions
        /\ Selectable(t, trynext)
        /\ sessions' = sessions + 1
        /\ worker' = [worker EXCEPT ![t] =
             [Idle EXCEPT !.pc = IF Retries = 0 THEN "nonstart" ELSE "try",
                          !.wanted = trynext, !.try = first, !.left = Retries]]
        /\ UNCHANGED <<now, run, task, faults>>
-----------------------------------------------------------------------------
\* run_post.

\* A run may not slip into the next interval.
slip(t) == IF Repeat[t] # 0 /\ Slip[t] + 1 >= Repeat[t] THEN Repeat[t] - 1 ELSE Slip[t]

Goto(t, pc) == worker' = [worker EXCEPT ![t] = [@ EXCEPT !.pc = pc]]

\* run_post returns.
Return(t, result) ==
  worker' = [worker EXCEPT ![t] = [@ EXCEPT !.pc = "decide", !.result = result]]

\* run_post takes back what was posted.
Abort(t, result) ==
  worker' = [worker EXCEPT ![t] = [@ EXCEPT !.pc = "delete", !.result = result]]

\* The next participant's turn, or on to the step after the last.
Advance(w, t, pc) ==
  IF w.next < Len(Participants[t]) THEN [w EXCEPT !.next = @ + 1]
                                   ELSE [w EXCEPT !.pc = pc, !.next = 1]

\* Mutant: tries are not counted.
Untried(w) == w

Tried(w) == [w EXCEPT !.left = @ - 1]

\* Fetch the task and ping the participants.  When some are down, there may
\* be time to try again.
Try(t) ==
  LET w == worker[t]
      tried == Tried(w)
  IN  /\ w.pc = "try"
      /\ \/ /\ worker' = [worker EXCEPT ![t] =
                 [tried EXCEPT !.pc = "propose", !.pass = 1, !.next = 1,
                               !.posted = {}, !.id = 0,
                               !.free = w.try..(w.try + slip(t))]]
            /\ UNCHANGED faults
         \/ /\ Fault
            /\ worker' = [worker EXCEPT ![t] =
                 [tried EXCEPT !.pc = "decide", !.result = "error"]]
         \/ /\ Fault
            /\ now + Refresh < w.try
            /\ worker' = [worker EXCEPT ![t] =
                 [tried EXCEPT !.pc = "decide", !.result = "skip"]]
      /\ UNCHANGED <<now, run, task, sessions>>

\* Ask the next participant, unless one has no time at all; only then is it
\* seen what suits all of them.  A task that has a priority asks with it in a
\* second pass, which to an old node is not implemented (501): as if it had none.
Propose(t) ==
  LET w == worker[t]
      n == Participants[t][w.next]
      last == w.next = Len(Participants[t])
  IN  /\ w.pc = "propose"
      /\ \/ Fault /\ Return(t, "error")
         \/ /\ UNCHANGED faults
            /\ \E running \in SUBSET Due(n) :
                 LET given == IF w.pass = 2 /\ n \in Old THEN {}
                              ELSE Proposed(n, t, w.try, slip(t), running)
                     free == w.free \cap given
                     none == given = {} \/ (last /\ free = {})
                 IN  \/ /\ ~none /\ ~last
                        /\ worker' = [worker EXCEPT ![t] =
                                        [w EXCEPT !.free = free, !.next = @ + 1]]
                     \/ /\ last
                        /\ \E s \in free :
                             worker' = [worker EXCEPT ![t] =
                               [w EXCEPT !.pc = "lead", !.slot = s, !.pass = 1,
                                         !.next = 1, !.free = {}]]
                     \/ /\ none /\ w.pass = 1 /\ t \in Prioritized
                        /\ worker' = [worker EXCEPT ![t] =
                             [w EXCEPT !.pass = 2, !.next = 1,
                                       !.free = w.try..(w.try + slip(t))]]
                     \/ /\ none /\ (w.pass = 2 \/ t \notin Prioritized)
                        /\ Return(t, "error")
      /\ UNCHANGED <<now, run, task, sessions>>

PostLead(t) ==
  LET w == worker[t]
  IN  /\ w.pc = "lead"
      /\ \/ /\ Conflict(Lead(t), w.slot)
            /\ Return(t, "conflict")
            /\ UNCHANGED <<run, task, faults>>
         \/ /\ \E barring \in Accepts(Lead(t), w.slot) : InsertOnLead(t, w.slot, barring)
            /\ worker' = [worker EXCEPT ![t] =
                 [w EXCEPT !.id = Len(run) + 1, !.posted = {Lead(t)}, !.next = 2,
                           !.pc = IF Len(Participants[t]) = 1 THEN "gather" ELSE "put"]]
            /\ UNCHANGED faults
         \/ /\ Fault
            /\ Return(t, "error")
            /\ \/ UNCHANGED <<run, task>>
               \/ \E barring \in Accepts(Lead(t), w.slot) : InsertOnLead(t, w.slot, barring)
      /\ UNCHANGED <<now, sessions>>

\* Mutant: the run is kept where it was accepted.
GatherAnyway(t, posted) == "gather"

\* After the last participant: go on if all of them have it.
AfterPuts(t, posted) == IF posted = Party(t) THEN "gather" ELSE "delete"

\* Put the run on the next participant.  A conflict ends it, another error
\* does not.
PutOther(t) ==
  LET w == worker[t]
      n == Participants[t][w.next]
      done(posted) == Advance([w EXCEPT !.posted = posted, !.result = "error"],
                              t, AfterPuts(t, posted))
  IN  /\ w.pc = "put"
      /\ \/ /\ Conflict(n, w.slot)
            /\ Abort(t, "conflict")
            /\ UNCHANGED <<run, faults>>
         \/ /\ \E barring \in Accepts(n, w.slot) : Insert(w.id, n, barring)
            /\ worker' = [worker EXCEPT ![t] = done(w.posted \cup {n})]
            /\ UNCHANGED faults
         \/ /\ Fault
            /\ worker' = [worker EXCEPT ![t] = done(w.posted)]
            /\ \/ UNCHANGED run
               \/ \E barring \in Accepts(n, w.slot) : Insert(w.id, n, barring)
      /\ UNCHANGED <<now, task, sessions>>

\* Fetch each participant's data.
Gather(t) ==
  LET w == worker[t]
  IN  /\ w.pc = "gather"
      /\ \/ /\ w.posted \subseteq run[w.id].held
            /\ worker' = [worker EXCEPT ![t] = [w EXCEPT !.pc = "full", !.next = 1]]
            /\ UNCHANGED faults
         \/ /\ Fault
            /\ Abort(t, "error")
      /\ UNCHANGED <<now, run, task, sessions>>

\* Give all of the data to the next participant.
PutFull(t) ==
  LET w == worker[t]
      n == Participants[t][w.next]
  IN  /\ w.pc = "full"
      /\ \/ /\ Deliver(w.id, n)
            /\ worker' = [worker EXCEPT ![t] =
                            Advance([w EXCEPT !.result = "scheduled"], t, "decide")]
            /\ UNCHANGED faults
         \/ /\ Fault
            /\ Abort(t, "error")
            /\ Deliver(w.id, n) \/ UNCHANGED run
      /\ UNCHANGED <<now, task, sessions>>

\* Mutant: the run is not deleted.
DeleteNothing(t) ==
  /\ worker[t].pc = "delete"
  /\ Goto(t, "decide")
  /\ UNCHANGED <<now, run, task, sessions, faults>>

\* Delete the run from the next of those that have it.  What comes of it
\* is not looked at.
Delete(t) ==
  LET w == worker[t]
      posted == {i \in DOMAIN Participants[t] : Participants[t][i] \in w.posted}
  IN  /\ w.pc = "delete"
      /\ \/ /\ w.posted = {}
            /\ Goto(t, "decide")
            /\ UNCHANGED <<run, faults>>
         \/ \E i \in posted :
              LET n == Participants[t][i]
              IN  /\ \A j \in posted : i <= j
                  /\ worker' = [worker EXCEPT ![t] = [w EXCEPT !.posted = @ \ {n}]]
                  /\ \/ Remove(w.id, n) /\ UNCHANGED faults
                     \/ Fault /\ UNCHANGED run
      /\ UNCHANGED <<now, task, sessions>>
-----------------------------------------------------------------------------
\* schedule_task and SchedulerWorker.

\* Mutant: the number of tries is not limited.
RetryForever(w) == w.result = "conflict"

\* A conflict is a reason to try again, as long as tries are left.
Retry(w) == w.result = "conflict" /\ w.left > 0

\* What to do about what run_post returned.  Having no try left counts as
\* having given up, whatever the last one came to.
Decide(t) ==
  LET w == worker[t]
  IN  /\ w.pc = "decide"
      /\ worker' = [worker EXCEPT ![t] =
           IF Retry(w) THEN [w EXCEPT !.pc = "try"]
           ELSE IF w.left = 0 \/ w.result = "error" THEN [w EXCEPT !.pc = "nonstart"]
           ELSE Idle]
      /\ UNCHANGED <<now, run, task, sessions, faults>>

\* Post a non-starter on the lead, if that can be done, at the time that was
\* asked for.
NonStart(t) ==
  /\ worker[t].pc = "nonstart"
  /\ worker' = [worker EXCEPT ![t] = Idle]
  /\ \/ InsertOnLead(t, worker[t].wanted, {Lead(t)}) /\ UNCHANGED faults
     \/ Fault /\ UNCHANGED <<run, task>>
  /\ UNCHANGED <<now, sessions>>

\* The daemon of a node dies and comes back without its workers.
Crash(n) ==
  /\ Fault
  /\ \E t \in Task : Lead(t) = n /\ worker[t].pc # "idle"
  /\ worker' = [t \in Task |-> IF Lead(t) = n THEN Idle ELSE worker[t]]
  /\ UNCHANGED <<now, run, task, sessions>>

Tick ==
  /\ now < MaxTime
  /\ now' = now + 1
  /\ UNCHANGED <<run, task, worker, sessions, faults>>

Work(t) ==
  \/ Try(t) \/ Propose(t) \/ PostLead(t) \/ PutOther(t) \/ Gather(t)
  \/ PutFull(t) \/ Delete(t) \/ Decide(t) \/ NonStart(t)

Next == Tick \/ (\E n \in Node : Crash(n)) \/ \E t \in Task : Start(t) \/ Work(t)

Spec == Init /\ [][Next]_vars

-----------------------------------------------------------------------------
(* What posting a run on all of its participants is to guarantee.          *)

\* The types of all variables.  Only rows a node holds are non-starters or
\* have data.
TypeOK ==
  /\ now \in 0..MaxTime
  /\ run \in Seq(Run)
  /\ \A r \in DOMAIN run : run[r].barred \cup run[r].full \subseteq run[r].held
  /\ task \in [Task -> [runs : Nat, first_start : Int]]
  /\ worker \in [Task -> Worker]
  /\ sessions \in 0..MaxSessions
  /\ faults \in 0..MaxFaults
-----------------------------------------------------------------------------
\* No participant is given the data that makes it execute a run before every
\* participant has accepted the run, whatever fails (scheduler:560-661).
FullOnlyWhenAllHold ==
  [][\A r \in DOMAIN run :
       run'[r].full \subseteq run[r].full \/ Party(run[r].task) \subseteq run[r].held]_vars

\* A worker still has business with r.
Busy(t, r) == worker[t].pc \in {"put", "gather", "full", "delete"} /\ worker[t].id = r

\* As long as nothing fails, and however the workers of different tasks get
\* in each other's way, a run ends up on all of its participants, with all
\* data, or on none; otherwise it is a non-starter the lead keeps to itself
\* (scheduler:604-661).
AllOrNothing ==
  faults = 0 =>
    \A r \in DOMAIN run :
      LET t == run[r].task
      IN  \/ Busy(t, r)
          \/ run[r].held = {}
          \/ run[r].full = Party(t)
          \/ run[r].held = {Lead(t)} /\ run[r].barred = {Lead(t)}

\* No task gets more runs that its lead would execute than its limit, even
\* if workers die, retry, or do not learn what became of their requests
\* (schedule.sql:217).
LimitKept ==
  \A t \in Task :
    Cardinality({r \in OnLead(t) : Lead(t) \in run[r].full \ run[r].barred}) <= Limit[t]

\* Workers keep going: each of their requests has a timeout.
WorkSpec == Spec /\ \A t \in Task : WF_vars(Work(t))

\* No task is kept by its worker for good: conflicts are retried only so
\* often (scheduler:710-737, 806-811).
WorkersEnd == \A t \in Task : worker[t].pc # "idle" ~> worker[t].pc = "idle"
=============================================================================
