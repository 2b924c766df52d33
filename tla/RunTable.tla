------------------------------ MODULE RunTable ------------------------------
(***************************************************************************)
(* The run table of one node (database/run.sql) with everything that       *)
(* writes to it except the runner: the REST API (api-server/runs.py and    *)
(* the disabling of tasks in database/task.sql), the periodic maintenance  *)
(* the ticker calls, and the operator (pause, resume, a new horizon).      *)
(* What the runner does to the table is here as operators (Altered,        *)
(* run_start, ...) that module Runner turns into actions.                  *)
(*                                                                         *)
(* Each statement the code sends is one step.  Inserting a run takes two:  *)
(* the trigger checks for conflicts against what is committed, and the     *)
(* commit makes the row visible.  In between the insert holds the lock on  *)
(* the row of its task and on nothing else.                                *)
(*                                                                         *)
(* The timeline: the states of runs with the transitions that the trigger  *)
(* lets through (database/run_state.sql), and ranges of time with the two  *)
(* questions the database asks about them, whether a new run may be put on *)
(* the timeline (run_has_conflicts) and whether a run that is on it may    *)
(* start (run_can_proceed), both in database/run.sql.                      *)
(*                                                                         *)
(* Time is counted in the system's own increment (normalized_time, one     *)
(* second in the code).  A run is a record with at least                   *)
(*   task    what it is a run of                                           *)
(*   lo, hi  the ends of its range of times; lo belongs to the range       *)
(*   closed  whether hi does: '[)' when scheduled, '[]' once cut short     *)
(*   prio    its priority, NULL being 0 (every use is a COALESCE)          *)
(*   state   one of States                                                 *)
(***************************************************************************)
EXTENDS Integers, FiniteSets

CONSTANTS
  Task,         \* the tasks on this node
  Class,        \* the scheduling class of each task's test
  RunStartMargin, \* configurables.run_start_margin
  Duration,     \* how long a run of each task is
  Priority,     \* the priority of each task, 0 for NULL
  Starts,       \* the start times that are asked for
  MaxTime,      \* bound on the clock
  MaxRuns,      \* bound on the runs ever inserted
  MaxPosters,   \* inserts in progress at once (API processes)
  Horizons,     \* values configurables.schedule_horizon takes
  RunStraggle,  \* configurables.run_straggle
  KeepRuns,     \* configurables.keep_runs_tasks
  KeepActive    \* the extra time before an active run is purged

----------------------------------------------------------------------------
(* The states of runs.                                                     *)

\* The rows of run_state that have FALSE in the column finished.
Unfinished == {"pending", "on_deck", "running"}

\* The rows of run_state that have TRUE in the column finished.  Cleanup is
\* one of them: the tool is done, the merged result is not there yet.
Finished == {"cleanup", "finished", "overdue", "missed", "failed",
             "preempted", "nonstart", "canceled"}

States == Unfinished \cup Finished

run_state_is_finished(s) == s \in Finished

\* Where each state may go, staying where it is aside.
Successors ==
  [s \in States |->
     CASE s = "pending"  -> {"on_deck", "missed", "failed", "preempted",
                             "canceled", "nonstart"}
       [] s = "on_deck"  -> {"running", "overdue", "missed", "failed",
                             "canceled", "preempted"}
       [] s = "running"  -> {"cleanup", "finished", "overdue", "missed",
                             "failed", "preempted", "canceled"}
       [] s = "cleanup"  -> {"finished", "failed"}
       [] s = "finished" -> {"failed"}
       [] s = "overdue"  -> {"finished", "missed", "failed", "canceled",
                             "preempted"}
       [] s = "missed"   -> {"failed"}
       [] s = "nonstart" -> {"canceled"}
       [] OTHER          -> {}]

\* Mutant: the transition is not checked.
AnyTransition(old, new) == new \in States

run_state_transition_is_valid(old, new) ==
  new = old \/ new \in Successors[old]

----------------------------------------------------------------------------
(* Classes, ranges and conflicts.                                          *)

SchedulingClasses == {"background-multi", "background", "exclusive", "normal"}

ASSUME ClassAssumption == Class \in [Task -> SchedulingClasses]
ASSUME MarginAssumption == RunStartMargin \in Nat

ASSUME TableAssumption ==
  /\ Duration \in [Task -> Nat \ {0}]
  /\ Priority \in [Task -> Int]
  /\ Starts \subseteq Nat
  /\ MaxTime \in Nat
  /\ MaxRuns \in Nat
  /\ MaxPosters \in Nat
  /\ Horizons \subseteq Nat /\ Horizons # {}
  /\ RunStraggle \in Nat /\ KeepRuns \in Nat /\ KeepActive \in Nat

anytime(t)   == Class[t] \in {"background-multi", "background"}
exclusive(t) == Class[t] = "exclusive"
multi(t)     == Class[t] = "background-multi"

\* p ends before q begins.
Precedes(p, q) == p.hi < q.lo \/ (p.hi = q.lo /\ ~p.closed)

\* The && operator on ranges.
Overlap(p, q) == ~Precedes(p, q) /\ ~Precedes(q, p)

\* The @> operator: range p contains the instant t.
Contains(p, t) == p.lo <= t /\ (t < p.hi \/ (t = p.hi /\ p.closed))

\* The view run_conflictable.  Only non-starters are left out: a run that
\* was missed, preempted, canceled or is long done stays in the view.
Conflictable(p) == p.state # "nonstart" /\ ~anytime(p.task)

\* Two runs that the scheduling classes keep apart.
Incompatible(p, q) ==
  /\ ~anytime(p.task) /\ ~anytime(q.task)
  /\ exclusive(p.task) \/ exclusive(q.task)

\* Mutant: only a higher priority stands in the way.
BlocksIfHigher(q, p) ==
  Conflictable(q) /\ Incompatible(p, q) /\ Overlap(q, p) /\ q.prio > p.prio

\* What stands in the way of p because of its own or a higher priority.
Blocks(q, p) ==
  /\ Conflictable(q)
  /\ Incompatible(p, q)
  /\ Overlap(q, p)
  /\ q.prio >= p.prio

\* The proposal p would preempt q too late: q's plugin may be starting.
InStartMargin(q, p, now) ==
  /\ Conflictable(q)
  /\ Incompatible(p, q)
  /\ Overlap(q, p)
  /\ p.prio >= q.prio
  /\ now \in (q.lo - RunStartMargin)..q.lo
  /\ p.lo \in (q.lo - RunStartMargin)..q.lo

\* table is a function from the ids of the visible runs to the runs.
run_has_conflicts(table, p, now) ==
  /\ ~anytime(p.task)
  /\ \E id \in DOMAIN table :
       Blocks(table[id], p) \/ InStartMargin(table[id], p, now)

\* Mutant: the run itself is not left out.
CanProceedPastItself(table, id) ==
  anytime(table[id].task) \/ \A other \in DOMAIN table : ~Blocks(table[other], table[id])

run_can_proceed(table, id) ==
  \/ anytime(table[id].task)
  \/ \A other \in DOMAIN table \ {id} : ~Blocks(table[other], table[id])

----------------------------------------------------------------------------
(* The table.                                                              *)

VARIABLES
  now,      \* the clock
  run,      \* the visible rows of the table, by id
  txn,      \* the rows that are inserted and not committed yet, by id
  nextId,   \* the sequence behind run.id
  task,     \* the columns of table task that the run table's code touches
  paused,   \* control_is_paused()
  horizon   \* configurables.schedule_horizon

tableVars == <<now, run, txn, nextId, task, paused, horizon>>

RunId == 1..MaxRuns

Row == [task : Task, lo : Nat, hi : Nat, closed : BOOLEAN, prio : Int,
        state : States,
        pdf : BOOLEAN,      \* part_data_full is not NULL
        merged : BOOLEAN,   \* result_merged is not NULL
        beside : SUBSET RunId]  \* inserts not committed at its check (for the properties)

TaskRow == [enabled : BOOLEAN, runs : Nat, runs_started : Nat]

TableTypeOK ==
  /\ now \in 0..MaxTime
  /\ DOMAIN run \subseteq RunId
  /\ run \in [DOMAIN run -> Row]
  /\ DOMAIN txn \subseteq RunId
  /\ txn \in [DOMAIN txn -> Row]
  /\ nextId \in 1..(MaxRuns + 1)
  /\ task \in [Task -> TaskRow]
  /\ paused \in BOOLEAN
  /\ horizon \in Horizons

TableInit ==
  /\ now = 0
  /\ run = [id \in {} |-> {}]
  /\ txn = [id \in {} |-> {}]
  /\ nextId = 1
  /\ task = [t \in Task |-> [enabled |-> TRUE, runs |-> 0, runs_started |-> 0]]
  /\ paused = FALSE
  /\ horizon \in {h \in Horizons : \A k \in Horizons : k <= h}
-----------------------------------------------------------------------------
\* The trigger run_alter.

With(f, id, row) == [i \in DOMAIN f \cup {id} |-> IF i = id THEN row ELSE f[i]]
Only(f, S) == [i \in DOMAIN f \cap S |-> f[i]]

\* An uncommitted insert holds the lock on the row of its task.
TaskLocked(t) == \E id \in DOMAIN txn : txn[id].task = t

\* A start so far out is turned away, except for background-multi.
WithinHorizon(t, lo) == multi(t) \/ lo - now <= horizon

\* The row old after an UPDATE that sets its state to s: a canceled run
\* stays canceled, and a run that ends gives its unused time back.
Altered(old, s) ==
  LET state == IF old.state = "canceled" THEN old.state ELSE s
      cut   == /\ state # old.state
               /\ run_state_is_finished(state)
               /\ old.lo <= now /\ now < old.hi
  IN  [old EXCEPT !.state  = state,
                  !.hi     = IF cut THEN now ELSE @,
                  !.closed = @ \/ cut]

\* The UPDATE does not raise an exception.
Allowed(old, s) ==
  /\ WithinHorizon(old.task, old.lo)
  /\ run_state_transition_is_valid(old.state, Altered(old, s).state)

\* runs_started counts what asks to be running, before the check for
\* canceled runs.
CountStart(old, s) ==
  IF s = "running" /\ old.state # "running"
  THEN [task EXCEPT ![old.task].runs_started = @ + 1]
  ELSE task

NewRow(t, lo, hi, closed, prio, state) ==
  [task |-> t, lo |-> lo, hi |-> hi, closed |-> closed, prio |-> prio,
   state |-> state, pdf |-> FALSE, merged |-> FALSE, beside |-> {}]
-----------------------------------------------------------------------------
\* api_run_post, from POST on a lead and from PUT elsewhere.

\* LEAST ignores NULL, and it is given the variable being assigned where
\* the proposed priority should be: what is proposed makes no difference.
run_priority(t, proposed) == Priority[t]

\* The INSERT up to the end of the trigger.  A run the limits forbid goes
\* in as a non-starter and is not checked for conflicts.
RunPost(t, start, proposed, forbidden) ==
  LET state == IF forbidden THEN "nonstart" ELSE "pending"
      new   == [NewRow(t, start, start + Duration[t], FALSE,
                       run_priority(t, proposed), state) EXCEPT !.beside = DOMAIN txn]
  IN  /\ nextId <= MaxRuns
      /\ Cardinality(DOMAIN txn) < MaxPosters
      /\ ~TaskLocked(t)
      /\ WithinHorizon(t, start)
      /\ run_state_is_finished(state) \/ ~run_has_conflicts(run, new, now)
      /\ txn' = With(txn, nextId, new)
      /\ nextId' = nextId + 1
      /\ UNCHANGED <<now, run, task, paused, horizon>>

RunCommit(id) ==
  /\ id \in DOMAIN txn
  /\ run' = With(run, id, txn[id])
  /\ txn' = Only(txn, DOMAIN txn \ {id})
  /\ task' = [task EXCEPT ![txn[id].task].runs = @ + 1]
  /\ UNCHANGED <<now, nextId, paused, horizon>>

\* PUT of part-data-full, which the lead sends once every participant has
\* the run.
PutPartDataFull(id) ==
  /\ id \in DOMAIN run
  /\ Allowed(run[id], run[id].state)
  /\ run' = [run EXCEPT ![id].pdf = TRUE]
  /\ UNCHANGED <<now, txn, nextId, task, paused, horizon>>

\* PUT of result-full.
PutResultFull(id, succeeded) ==
  LET state == IF succeeded THEN "finished" ELSE "failed"
  IN  /\ id \in DOMAIN run
      /\ Allowed(run[id], state)
      /\ run' = [run EXCEPT ![id] = Altered(@, state)]
      /\ UNCHANGED <<now, txn, nextId, task, paused, horizon>>

DeleteRun(id) ==
  /\ id \in DOMAIN run
  /\ run' = Only(run, DOMAIN run \ {id})
  /\ UNCHANGED <<now, txn, nextId, task, paused, horizon>>
-----------------------------------------------------------------------------
\* Disabling a task (api_task_disable and the trigger run_task_disabled).

FutureRuns(t) == {id \in DOMAIN run : run[id].task = t /\ run[id].lo > now}

CurrentRuns(t) == {id \in DOMAIN run : /\ run[id].task = t
                                       /\ Contains(run[id], now)
                                       /\ run[id].state # "nonstart"}

\* No run of t stands in the way of disabling it.
CanDisable(t) == \A id \in CurrentRuns(t) : Allowed(run[id], "canceled")

TaskDisable(t) ==
  /\ task[t].enabled
  /\ ~TaskLocked(t)
  /\ CanDisable(t)
  /\ run' = [id \in DOMAIN run \ FutureRuns(t) |->
               IF id \in CurrentRuns(t) THEN Altered(run[id], "canceled")
                                        ELSE run[id]]
  /\ task' = [task EXCEPT ![t].enabled = FALSE]
  /\ UNCHANGED <<now, txn, nextId, paused, horizon>>
-----------------------------------------------------------------------------
\* run_maint_fifteen, which the ticker calls four times a minute.

\* Mutant: runs on deck are not looked at.
StraggledUnlessOnDeck(row) ==
  IF row.state = "pending" /\ row.lo < now - RunStraggle
  THEN Altered(row, "missed")
  ELSE IF row.state = "running" /\ row.hi < now - RunStraggle
  THEN Altered(row, "overdue")
  ELSE row

\* run_handle_stragglers, for one row.
Straggled(row) ==
  LET due == IF multi(row.task) THEN row.hi ELSE row.lo
  IN  IF row.state \in {"pending", "on_deck"} /\ due < now - RunStraggle
      THEN Altered(row, "missed")
      ELSE IF row.state = "running" /\ row.hi < now - RunStraggle
      THEN Altered(row, "overdue")
      ELSE row

\* Mutant: a run's age is counted from its start, whether it is active or not.
PurgedByStart(row) == row.lo < now - KeepRuns

\* run_purge, for one row.
Purged(row) ==
  row.hi < now - KeepRuns - (IF row.state \in Unfinished THEN KeepActive ELSE 0)

RunMaint ==
  LET swept == [id \in DOMAIN run |-> Straggled(run[id])]
  IN  /\ run' = Only(swept, {id \in DOMAIN run : ~Purged(swept[id])})
      /\ UNCHANGED <<now, txn, nextId, task, paused, horizon>>
-----------------------------------------------------------------------------
\* The operator, and time.

\* A pause ends when it is lifted or when it expires.
Pause  == paused' = TRUE /\ UNCHANGED <<now, run, txn, nextId, task, horizon>>
Resume == paused' = FALSE /\ UNCHANGED <<now, run, txn, nextId, task, horizon>>

HorizonChange(h) ==
  /\ horizon' = h
  /\ run' = IF h < horizon
            THEN Only(run, {id \in DOMAIN run : run[id].hi <= now + h})
            ELSE run
  /\ UNCHANGED <<now, txn, nextId, task, paused>>

Tick ==
  /\ now < MaxTime
  /\ now' = now + 1
  /\ UNCHANGED <<run, txn, nextId, task, paused, horizon>>
-----------------------------------------------------------------------------
\* run_start, which the runner calls when a run's time has come.

StartTarget(id) ==
  IF paused THEN "missed"
  ELSE IF ~run_can_proceed(run, id) THEN "preempted"
  ELSE "running"

\* It raises an exception when the run is gone or may not change that way.
StartRaises(id) ==
  id \notin DOMAIN run \/ ~Allowed(run[id], StartTarget(id))

\* It returns NULL, which tells the runner to go ahead.
StartReturnsNull(id) == ~StartRaises(id) /\ StartTarget(id) = "running"

run_start(id) ==
  IF StartRaises(id)
  THEN UNCHANGED <<run, task>>
  ELSE /\ run' = [run EXCEPT ![id] = Altered(@, StartTarget(id))]
       /\ task' = CountStart(run[id], StartTarget(id))
=============================================================================
