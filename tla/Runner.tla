------------------------------- MODULE Runner -------------------------------
(***************************************************************************)
(* The runner daemon (daemons/runner) working on the run table of its      *)
(* node.  Its main loop selects the runs that are about to start, puts     *)
(* them on deck and starts a thread for each; a thread registers itself,   *)
(* waits for the start time, asks the database whether to go ahead, runs   *)
(* the tool, stores the local result and, on the lead participant,         *)
(* gathers and merges the results of all participants.                     *)
(*                                                                         *)
(* The daemon may crash and come back (all its threads go with it), and a  *)
(* statement sent to the database may fail.                                *)
(***************************************************************************)
EXTENDS RunTable

CONSTANTS
  Participant,  \* which participant of each task this node is, 0 the lead
  Alone,        \* the tasks that have one participant only
  Refresh,      \* how far ahead the main loop looks
  Thread,       \* names for the worker threads
  NoRun,        \* no run and no task: what an idle thread works on
  NoTask,
  Extras,       \* what is asked of the node besides scheduling (see Request)
  Crashes,      \* bound on crashes of the daemon
  DbFailures    \* bound on failures of its database statements

ASSUME RunnerAssumption ==
  /\ Participant \in [Task -> Nat]
  /\ Alone \subseteq Task
  /\ Refresh \in Nat
  /\ NoRun \notin Nat /\ NoTask \notin Task
  /\ Extras \subseteq {"result", "delete", "disable", "pause"}
  /\ Crashes \in Nat /\ DbFailures \in Nat

VARIABLES
  phase,      \* where the main loop is
  picked,     \* the workers it has made and not started: run id -> start_at
  run_dict,   \* the runs registered as having a worker
  worker,     \* the worker threads
  crashes,    \* how often the daemon crashed
  failures,   \* how many statements or commits failed
  undecked    \* runs given a worker without being put on deck (for the properties)

runnerVars == <<phase, picked, run_dict, worker, crashes, failures, undecked>>
vars == <<tableVars, runnerVars>>

Phases == {"down", "waiting", "on_deck", "starting"}

\* What a worker thread is about to do.  It is executing its run from the
\* answer of run_start until the tool has exited.  It knows its run's task
\* and scheduled end once it has fetched the run.
Working == {"started", "sleeping", "executing", "exited", "lead"}

WorkerType == [pc : Working \cup {"idle"}, id : RunId \cup {NoRun}, at : Nat,
               task : Task \cup {NoTask}, end : Nat, code : 0..2]

Idle == [pc |-> "idle", id |-> NoRun, at |-> 0, task |-> NoTask, end |-> 0,
         code |-> 0]

RunnerTypeOK ==
  /\ phase \in Phases
  /\ DOMAIN picked \subseteq RunId
  /\ picked \in [DOMAIN picked -> Nat]
  /\ run_dict \subseteq RunId
  /\ worker \in [Thread -> WorkerType]
  /\ \A t \in Thread :
       /\ worker[t].pc # "idle" => worker[t].id \in RunId
       /\ worker[t].pc \notin {"idle", "started"} => worker[t].task \in Task
  /\ crashes \in 0..Crashes
  /\ failures \in 0..DbFailures
  /\ undecked \subseteq RunId

RunnerInit ==
  /\ phase = "waiting"
  /\ picked = [id \in {} |-> 0]
  /\ run_dict = {}
  /\ worker = [t \in Thread |-> Idle]
  /\ crashes = 0
  /\ failures = 0
  /\ undecked = {}
-----------------------------------------------------------------------------
\* The main loop.

\* Mutant: runs on deck are selected again.
UpcomingOrOnDeck == {id \in DOMAIN run : /\ now < run[id].lo
                                         /\ run[id].lo < now + Refresh
                                         /\ run[id].state \in {"pending", "on_deck"}
                                         /\ run[id].pdf}

\* Runs that have not started and will before the next forced refresh.
Upcoming == {id \in DOMAIN run : /\ now < run[id].lo
                                 /\ run[id].lo < now + Refresh
                                 /\ run[id].state = "pending"
                                 /\ run[id].pdf}

\* Mutant: runs that lost their worker are not selected.
PendingMulti == {id \in DOMAIN run : /\ Contains(run[id], now)
                                     /\ task[run[id].task].enabled
                                     /\ multi(run[id].task)
                                     /\ run[id].state = "pending"}

\* Background-multi runs that should be running.
ShouldBeRunning == {id \in DOMAIN run : /\ Contains(run[id], now)
                                        /\ task[run[id].task].enabled
                                        /\ multi(run[id].task)
                                        /\ run[id].state \in {"pending", "running"}}

\* The query, and a worker for each row of it that has none running.
LoopSelect ==
  LET ids == (Upcoming \cup ShouldBeRunning) \ run_dict
  IN  /\ phase = "waiting"
      /\ ids # {}
      /\ picked' = [id \in ids |-> IF id \in Upcoming THEN run[id].lo ELSE now + 1]
      /\ phase' = "on_deck"
      /\ UNCHANGED <<tableVars, run_dict, worker, crashes, failures, undecked>>

\* The UPDATE, all of it or none, which passes over runs that are running.  Its
\* failure is logged and the workers are started anyway.
LoopOnDeck ==
  LET In(s) == {id \in DOMAIN run \cap DOMAIN picked : run[id].state = s}
      raises == \E id \in In("pending") : ~Allowed(run[id], "on_deck")
  IN  /\ phase = "on_deck"
      /\ phase' = "starting"
      /\ \/ /\ run' = IF raises THEN run
                      ELSE [id \in DOMAIN run |->
                              IF id \in In("pending") THEN Altered(run[id], "on_deck")
                                                      ELSE run[id]]
            /\ undecked' = undecked \cup In("running")
            /\ UNCHANGED failures
         \/ /\ failures < DbFailures
            /\ failures' = failures + 1
            /\ undecked' = undecked \cup DOMAIN picked
            /\ UNCHANGED run
      /\ UNCHANGED <<now, txn, nextId, task, paused, horizon,
                     picked, run_dict, worker, crashes>>

LoopStart(t, id) ==
  /\ phase = "starting"
  /\ id \in DOMAIN picked
  /\ worker[t].pc = "idle"
  /\ worker' = [worker EXCEPT ![t] =
                  [Idle EXCEPT !.pc = "started", !.id = id, !.at = picked[id]]]
  /\ picked' = Only(picked, DOMAIN picked \ {id})
  /\ phase' = IF DOMAIN picked' = {} THEN "waiting" ELSE "starting"
  /\ UNCHANGED <<tableVars, run_dict, crashes, failures, undecked>>
-----------------------------------------------------------------------------
\* A worker thread.

\* The thread ends and takes its run out of run_dict.
Finish(t) ==
  /\ worker' = [worker EXCEPT ![t] = Idle]
  /\ run_dict' = run_dict \ {worker[t].id}

Failure == failures < DbFailures /\ failures' = failures + 1

\* Every statement of a worker may fail, which ends the thread.
WorkerDbFailure(t) ==
  /\ worker[t].pc \in {"started", "sleeping", "exited", "lead"}
  /\ Failure
  /\ Finish(t)
  /\ UNCHANGED <<tableVars, phase, picked, crashes, undecked>>

\* Mutant: the thread goes on when its run is gone.
WorkerBeginAnyway(t) ==
  /\ worker[t].pc = "started"
  /\ run_dict' = run_dict \cup {worker[t].id}
  /\ worker' = [worker EXCEPT ![t].pc = "sleeping",
                    ![t].task = IF worker[t].id \in DOMAIN run
                                THEN run[worker[t].id].task ELSE NoTask]
  /\ UNCHANGED <<tableVars, phase, picked, crashes, failures, undecked>>

\* The thread registers and fetches its run; it ends if the run is gone.
WorkerBegin(t) ==
  /\ worker[t].pc = "started"
  /\ LET id == worker[t].id
     IN  IF id \in DOMAIN run
         THEN /\ run_dict' = run_dict \cup {id}
              /\ worker' = [worker EXCEPT ![t] =
                              [@ EXCEPT !.pc = "sleeping", !.task = run[id].task,
                                        !.end = run[id].hi]]
         ELSE Finish(t)
  /\ UNCHANGED <<tableVars, phase, picked, crashes, failures, undecked>>

\* It wakes up RunStartMargin before the start.  Only a start that is counted has
\* to wait for the row of its task.
Awake(t) ==
  /\ worker[t].pc = "sleeping"
  /\ worker[t].at - RunStartMargin <= now
  /\ LET id == worker[t].id
     IN  StartReturnsNull(id) /\ run[id].state # "running" => ~TaskLocked(run[id].task)

\* It calls run_start, and runs the tool unless it is told why not.
WorkerStart(t) ==
  LET id == worker[t].id
  IN  /\ Awake(t)
      /\ run_start(id)
      /\ IF StartReturnsNull(id)
         THEN worker' = [worker EXCEPT ![t].pc = "executing"] /\ UNCHANGED run_dict
         ELSE Finish(t)
      /\ UNCHANGED <<now, txn, nextId, paused, horizon,
                     phase, picked, crashes, failures, undecked>>

\* The commit of what run_start did fails, which is only logged: the tool is run.
\* Where the thread ends anyway this is as if the statement had failed.
WorkerStartLost(t) ==
  /\ Awake(t)
  /\ StartReturnsNull(worker[t].id)
  /\ Failure
  /\ worker' = [worker EXCEPT ![t].pc = "executing"]
  /\ UNCHANGED <<tableVars, phase, picked, run_dict, crashes, undecked>>

\* A background-multi tool delivers a result while it runs, which becomes
\* a run of its own (__post_new_result).  Only a lead may assign its UUID.
WorkerResult(t) ==
  LET tk  == worker[t].task
      new == [NewRow(tk, now, now, TRUE, 0, "finished") EXCEPT !.merged = TRUE]
  IN  /\ worker[t].pc = "executing"
      /\ multi(tk) /\ Participant[tk] = 0
      /\ nextId <= MaxRuns
      /\ ~TaskLocked(tk)
      /\ run' = With(run, nextId, new)
      /\ nextId' = nextId + 1
      /\ task' = [task EXCEPT ![tk].runs = @ + 1]
      /\ UNCHANGED <<now, txn, paused, horizon, runnerVars>>

\* The tool ends by itself or is killed at its timeout.
WorkerExit(t, code) ==
  /\ worker[t].pc = "executing"
  /\ worker' = [worker EXCEPT ![t].pc = "exited", ![t].code = code]
  /\ UNCHANGED <<tableVars, phase, picked, run_dict, crashes, failures, undecked>>

\* Gathering and merging results is up to the lead of these tasks.
HasLeadDuties(tk) == Participant[tk] = 0 /\ ~multi(tk)

\* The state the local result leads to.
LocalState(tk, code) ==
  IF ~HasLeadDuties(tk) THEN "finished"
  ELSE CASE code = 0 -> "cleanup" [] code = 1 -> "failed" [] OTHER -> "finished"

\* An UPDATE by id, which changes nothing when the run is gone.
UpdateRun(id, new) ==
  run' = IF id \in DOMAIN run THEN [run EXCEPT ![id] = new] ELSE run

\* It stores the local result.  If the trigger raises, the thread ends.
WorkerStore(t) ==
  LET id     == worker[t].id
      tk     == worker[t].task
      to     == LocalState(tk, worker[t].code)
      raises == id \in DOMAIN run /\ ~Allowed(run[id], to)
  IN  /\ worker[t].pc = "exited"
      /\ IF raises THEN UNCHANGED run ELSE UpdateRun(id, Altered(run[id], to))
      /\ IF raises \/ ~HasLeadDuties(tk)
         THEN Finish(t)
         ELSE worker' = [worker EXCEPT ![t].pc = "lead"] /\ UNCHANGED run_dict
      /\ UNCHANGED <<now, txn, nextId, task, paused, horizon,
                     phase, picked, crashes, failures, undecked>>

\* The commit of the local result fails: a lead goes on to gather the others.
WorkerStoreLost(t) ==
  /\ worker[t].pc = "exited"
  /\ HasLeadDuties(worker[t].task)
  /\ Failure
  /\ worker' = [worker EXCEPT ![t].pc = "lead"]
  /\ UNCHANGED <<tableVars, phase, picked, run_dict, crashes, undecked>>

\* The lead waits for the end of a run with other participants, gathers and
\* merges the results, and stores them.  A tool that failed is a failure,
\* and so is a participant that did not deliver; failing to merge is not.
WorkerMerge(t, failed) ==
  LET id     == worker[t].id
      to     == IF failed THEN "failed" ELSE "finished"
      raises == id \in DOMAIN run /\ ~Allowed(run[id], to)
  IN  /\ worker[t].pc = "lead"
      /\ worker[t].code # 0 => failed
      /\ worker[t].task \in Alone \/ worker[t].end <= now
      /\ IF raises THEN UNCHANGED run
         ELSE UpdateRun(id, [Altered(run[id], to) EXCEPT !.merged = TRUE])
      /\ Finish(t)
      /\ UNCHANGED <<now, txn, nextId, task, paused, horizon,
                     phase, picked, crashes, failures, undecked>>
-----------------------------------------------------------------------------
\* The daemon dies with all its threads; what it comes back to is the table.
Crash ==
  /\ phase # "down"
  /\ crashes < Crashes
  /\ crashes' = crashes + 1
  /\ phase' = "down"
  /\ picked' = [id \in {} |-> 0]
  /\ run_dict' = {}
  /\ worker' = [t \in Thread |-> Idle]
  /\ UNCHANGED <<tableVars, failures, undecked>>

Restart ==
  /\ phase = "down"
  /\ phase' = "waiting"
  /\ UNCHANGED <<tableVars, picked, run_dict, worker, crashes, failures, undecked>>
-----------------------------------------------------------------------------
Init == TableInit /\ RunnerInit

\* Requests.  Nobody looks whether the start that is asked for has passed.
Request ==
  \/ \E t \in Task, s \in Starts, p \in {Priority[u] : u \in Task}, f \in BOOLEAN :
       RunPost(t, s, p, f) /\ UNCHANGED runnerVars
  \/ \E id \in RunId : RunCommit(id) /\ UNCHANGED runnerVars
  \/ \E id \in RunId : PutPartDataFull(id) /\ UNCHANGED runnerVars
  \/ /\ "result" \in Extras
     /\ \E id \in RunId, b \in BOOLEAN : PutResultFull(id, b) /\ UNCHANGED runnerVars
  \/ /\ "delete" \in Extras
     /\ \E id \in RunId : DeleteRun(id) /\ UNCHANGED runnerVars
  \/ /\ "disable" \in Extras
     /\ \E t \in Task : TaskDisable(t) /\ UNCHANGED runnerVars

Operator ==
  \/ "pause" \in Extras /\ Pause /\ UNCHANGED runnerVars
  \/ "pause" \in Extras /\ Resume /\ UNCHANGED runnerVars
  \/ \E h \in Horizons : HorizonChange(h) /\ UNCHANGED runnerVars

Maint == RunMaint /\ UNCHANGED runnerVars
Clock == Tick /\ UNCHANGED runnerVars

Loop == LoopSelect \/ LoopOnDeck \/ \E t \in Thread, id \in RunId : LoopStart(t, id)

Work(t) ==
  \/ WorkerBegin(t) \/ WorkerStart(t) \/ WorkerResult(t) \/ WorkerStore(t)
  \/ \E c \in 0..2 : WorkerExit(t, c)
  \/ \E b \in BOOLEAN : WorkerMerge(t, b)
  \/ WorkerDbFailure(t) \/ WorkerStartLost(t) \/ WorkerStoreLost(t)

Next == \/ Request \/ Operator \/ Maint \/ Clock \/ Loop \/ Crash \/ Restart
        \/ \E t \in Thread : Work(t)

Spec == Init /\ [][Next]_vars

----------------------------------------------------------------------------
(* What the run table and the runner are to guarantee.                     *)

\* The types of all variables, and what ties them together: a row is either
\* committed or not, and every id in use came from the sequence.
TypeOK ==
  /\ TableTypeOK
  /\ RunnerTypeOK
  /\ DOMAIN run \cap DOMAIN txn = {}
  /\ \A id \in DOMAIN run \cup DOMAIN txn : id < nextId
-----------------------------------------------------------------------------
\* Two runs of the same priority that the scheduling classes keep apart are
\* never running with overlapping times, however their inserts raced: what
\* the trigger misses, run_can_proceed catches (run.sql:643-698).
EqualPriorityExclusion ==
  \A i, j \in DOMAIN run :
    /\ i # j
    /\ run[i].state = "running" /\ run[j].state = "running"
    /\ run[i].prio = run[j].prio
    /\ Incompatible(run[i], run[j])
    => ~Overlap(run[i], run[j])

\* Two runs of the same priority that the scheduling classes keep apart and that
\* are both still to be executed, at the same time.
DoublyBooked(i, j) ==
  /\ i # j
  /\ run[i].state \in Unfinished /\ run[j].state \in Unfinished
  /\ run[i].prio = run[j].prio
  /\ Incompatible(run[i], run[j])
  /\ Overlap(run[i], run[j])

\* The insert of one had not been committed when the other was checked.
Raced(p, i, q, j) == i \in q.beside \/ j \in p.beside

\* However runs are posted, deleted, cut, preempted and purged, the timeline is only
\* double booked by two inserts of which neither could see the other: whatever is
\* committed keeps its time (the check at the end of run_alter, run.sql:546-564).  Such
\* two do book twice: the comment there speaks of a lock of the entire table, which
\* nobody takes.
DoublyBookedOnlyInRace ==
  \A i, j \in DOMAIN run : DoublyBooked(i, j) => Raced(run[i], i, run[j], j)

\* A run is only preempted by something that it cannot run together with and that has
\* a higher priority, or the same one if their inserts raced (run.sql:643-698).
PreemptedByHigher ==
  [][\A id \in DOMAIN run \cap DOMAIN run' :
       run[id].state # "preempted" /\ run'[id].state = "preempted"
       => \E o \in DOMAIN run :
             /\ Incompatible(run[id], run[o])
             /\ Overlap(run[id], run[o])
             /\ \/ run[o].prio > run[id].prio
                \/ run[o].prio = run[id].prio /\ Raced(run[id], id, run[o], o)]_vars

\* Two workers have the tool of the same run going.
TwoTools(t, u) ==
  /\ t # u
  /\ worker[t].pc = "executing" /\ worker[u].pc = "executing"
  /\ worker[t].id = worker[u].id

\* Whatever statements and commits fail, and however often the daemon dies, nobody
\* executes a run twice at the same time, unless it was given a worker although the
\* UPDATE that puts it on deck had failed, or passed over it as one that was running
\* already (run_dict and the on-deck UPDATE, runner:930-976).  After such a failure two
\* do execute it, although the UPDATE is there "to guarantee that we don't pick up rows
\* for runs we just started" (runner:960): its error is logged, the workers start anyway.
OneToolOnceOnDeck ==
  \A t, u \in Thread : TwoTools(t, u) => worker[t].id \in undecked

\* Maintenance only ever takes finished runs off the table, however late it
\* is called: an active run is marked first (run.sql:745-829).
PurgeOnlyFinished ==
  [][Maint => \A id \in DOMAIN run \ DOMAIN run' :
                run_state_is_finished(Straggled(run[id]).state)]_vars

\* Whatever is still in progress on the table is settled in the end by the
\* clock and the ticker alone, even if the runner is dead (run.sql:745-798).
EveryRunSettles ==
  \A id \in RunId :
    (id \in DOMAIN run /\ run[id].state \in Unfinished)
      ~> (id \notin DOMAIN run \/ run[id].state \in Finished)

\* The clock and the ticker keep going: the ticker is a loop under safe_run
\* whose sleep is bounded by fifteen seconds (ticker:115-160).
TickerSpec == Spec /\ WF_vars(Clock) /\ WF_vars(Maint)

BeingWorkedOn(id) == \E t \in Thread : worker[t].id = id

MultiIn(states, id) ==
  /\ id \in DOMAIN run
  /\ multi(run[id].task) /\ task[run[id].task].enabled
  /\ Contains(run[id], now)
  /\ run[id].state \in states

\* The code has as many threads as it needs, the model only so many.
OutOfThreads == \A t \in Thread : worker[t].pc # "idle"

\* A background-multi run that is running when its worker is lost gets
\* another one, as long as its time lasts (runner:904-918).
RunningMultiIsRestarted ==
  \A id \in RunId :
    MultiIn({"running"}, id)
      ~> (BeingWorkedOn(id) \/ ~MultiIn({"running"}, id) \/ OutOfThreads)

\* The main loop keeps going, its wait bounded by the refresh time, and
\* comes back after a crash (safe_run, and the service manager).
LoopSpec ==
  /\ Spec /\ WF_vars(LoopSelect) /\ WF_vars(LoopOnDeck) /\ WF_vars(Restart)
  /\ WF_vars(\E t \in Thread, id \in RunId : LoopStart(t, id))
-----------------------------------------------------------------------------
\* What a comment in the code says and the code does not do.

\* run.sql:706, "Get a run marked as started.  Return NULL if successful":
\* when run_start tells a worker to go ahead, the run is running.
GoAheadMeansRunning ==
  [][\A t \in Thread :
       worker[t].pc = "sleeping" /\ worker'[t].pc = "executing"
       => run'[worker[t].id].state = "running"]_vars

-----------------------------------------------------------------------------
\* The life of each run, as the abstract specification sees it.
Stage(id) ==
  IF id \in DOMAIN run
  THEN CASE run[id].state \in {"pending", "on_deck"} -> "scheduled"
         [] run[id].state = "running" -> "active"
         [] OTHER -> "over"
  ELSE IF id < nextId /\ id \notin DOMAIN txn THEN "gone" ELSE "none"

Life == INSTANCE RunLife WITH Run <- RunId, life <- [id \in RunId |-> Stage(id)]

\* The detailed specification implements the abstract one: no run is put
\* back on the schedule, started again after it ended, or brought back after
\* it was removed (run_state.sql:292-342 and every UPDATE of the table).
LifeSpec == Life!Spec
=============================================================================
