---------------------------- MODULE Notifications ----------------------------
(***************************************************************************)
(* How the scheduler's loop hears of changes (PgConnection of db.py, and   *)
(* main_program of the scheduler).  A notification arrives at the socket;  *)
(* every query reads what has arrived and keeps it, and so does the wait,  *)
(* which is woken by the socket alone.  Tasks that are due get a worker,   *)
(* of which there are only so many.                                        *)
(***************************************************************************)
EXTENDS Integers, FiniteSets

CONSTANTS
    Task,
    MaxWorkers,     \* options.max_parallel
    Skipped,        \* the tasks that no run can be posted of, however often it is tried
    MaxChanges      \* bound on the changes that are notified

VARIABLES
    due,            \* the tasks schedule_runs_to_schedule selects
    socket,         \* whether a notification has arrived that nobody has read
    pending,        \* whether one was read that nobody has claimed
    loop, wait,     \* where the loop is, and whether it is to wait
    workers,        \* the tasks that have one
    changes

nvars == <<due, socket, pending, loop, wait, workers, changes>>

NoteInit ==
    /\ due \in SUBSET Task /\ socket = FALSE /\ pending = FALSE
    /\ loop = "top" /\ wait = FALSE
    /\ workers = {} /\ changes = 0

\* A task is posted or changed, of which the trigger notifies, or its time has come,
\* of which nothing does.
Change(t) ==
    /\ changes < MaxChanges /\ changes' = changes + 1
    /\ due' = due \cup {t} /\ socket' \in {socket, TRUE}
    /\ UNCHANGED <<pending, loop, wait, workers>>

\* query: whatever has arrived is captured on the way.
Capture == pending' = (pending \/ socket) /\ socket' = FALSE

\* The heartbeat is a query, and before the wait.
Top ==
    /\ loop = "top"
    /\ IF wait THEN Capture /\ loop' = "wait"
       ELSE loop' = "select" /\ UNCHANGED <<socket, pending>>
    /\ UNCHANGED <<due, wait, workers, changes>>

\* The socket wakes the loop, which discards what it has been told of.
Woken ==
    /\ loop = "wait" /\ socket
    /\ socket' = FALSE /\ pending' = FALSE
    /\ loop' = "select"
    /\ UNCHANGED <<due, wait, workers, changes>>

\* Mutant: there is a timeout only if nothing is pending.
TimedOutIdle ==
    /\ loop = "wait" /\ ~socket /\ ~pending
    /\ loop' = "select"
    /\ UNCHANGED <<due, socket, pending, wait, workers, changes>>

\* What is pending stays so.
TimedOut ==
    /\ loop = "wait" /\ ~socket
    /\ loop' = "select"
    /\ UNCHANGED <<due, socket, pending, wait, workers, changes>>

\* With a full slate of workers the loop goes back to the wait.
Select ==
    /\ loop = "select" /\ loop' = "top"
    /\ IF Cardinality(workers) = MaxWorkers
       THEN wait' = TRUE /\ UNCHANGED <<socket, pending, workers>>
       ELSE \E rows \in SUBSET (due \ workers) :
               /\ Cardinality(rows) <= MaxWorkers - Cardinality(workers)
               /\ Cardinality(workers \cup rows) < MaxWorkers => due \subseteq workers \cup rows
               /\ workers' = workers \cup rows
               /\ socket' = FALSE /\ pending' = FALSE
               /\ wait' = (rows = {} /\ ~pending /\ ~socket)
    /\ UNCHANGED <<due, changes>>

\* A worker ends: its task has a run, or a non-starter in place of one, and is not due
\* for a time; or it was skipped and is as due as before.
End(t) ==
    /\ t \in workers /\ workers' = workers \ {t}
    /\ due' \in {due \ {t}} \cup (IF t \in Skipped THEN {due} ELSE {})
    /\ UNCHANGED <<socket, pending, loop, wait, changes>>

MainLoop == Top \/ Woken \/ TimedOut \/ Select
NoteNext == MainLoop \/ \E t \in Task : Change(t) \/ End(t)

----------------------------------------------------------------------------

\* Every task that is due gets a worker, or is not due any more, while those that are
\* skipped over and over leave a worker free; for the heartbeat may have claimed the
\* notification of it, and the slate may have been full, only because the wait ends by
\* itself.  (As many skipped tasks as there are workers may keep every other waiting.)
ChangesHeeded ==
    Cardinality(Skipped) < MaxWorkers
        => \A t \in Task : t \in due ~> t \in workers \/ t \notin due

=============================================================================
