---------------------------- MODULE RunnerProofs ----------------------------
(***************************************************************************)
(* Proofs about Runner, for every value of its constants.                  *)
(***************************************************************************)
EXTENDS Runner, TLAPS

USE DEF RunId, States, Unfinished, Finished
-----------------------------------------------------------------------------
\* What an UPDATE of its state does to a row (the trigger run_alter).
LEMMA AlteredRow ==
  ASSUME NEW row \in Row, NEW s \in States, now \in Nat
  PROVE  /\ Altered(row, s) \in Row
         /\ Altered(row, s).task = row.task
         /\ Altered(row, s).lo = row.lo
         /\ Altered(row, s).prio = row.prio
         /\ Altered(row, s).pdf = row.pdf
         /\ Altered(row, s).beside = row.beside
         /\ Altered(row, s).state = IF row.state = "canceled" THEN "canceled" ELSE s
         /\ Altered(row, s).state \in Unfinished \/ Altered(row, s).state = row.state
              => Altered(row, s).hi = row.hi /\ Altered(row, s).closed = row.closed
         /\ \/ Altered(row, s).hi < row.hi
            \/ Altered(row, s).hi = row.hi /\ Altered(row, s).closed = row.closed
BY ZenonT(40) DEF Altered, Row, run_state_is_finished

\* Setting one of the flags of a row changes nothing else about it.
LEMMA FlaggedRow ==
  ASSUME NEW row \in Row
  PROVE  /\ [row EXCEPT !.pdf = TRUE] \in Row
         /\ [row EXCEPT !.merged = TRUE] \in Row
         /\ \A f \in {"task", "lo", "hi", "closed", "prio", "state", "beside"} :
              /\ [row EXCEPT !.pdf = TRUE][f] = row[f]
              /\ [row EXCEPT !.merged = TRUE][f] = row[f]
         /\ [row EXCEPT !.merged = TRUE].pdf = row.pdf
BY DEF Row

\* What a worker goes through leaves it a worker of its run.
LEMMA WorkerUpdate ==
  ASSUME NEW w \in WorkerType
  PROVE  /\ \A id \in RunId, at \in Nat :
              [w EXCEPT !.pc = "started", !.id = id, !.at = at] \in WorkerType
         /\ \A code \in 0..2 :
              LET new == [w EXCEPT !.pc = "exited", !.code = code]
              IN  new \in WorkerType /\ new.id = w.id /\ new.task = w.task
         /\ \A pc \in Working :
              LET new == [w EXCEPT !.pc = pc]
              IN  new \in WorkerType /\ new.id = w.id /\ new.task = w.task
BY DEF WorkerType, Working

\* A thread that has nothing to do is a thread (LoopStart, Crash, Finish).
LEMMA IdleType == Idle \in WorkerType /\ Idle.pc = "idle"
BY DEF Idle, WorkerType

\* The facts about the constants that the proofs use.
LEMMA Constants ==
  /\ Duration \in [Task -> Nat \ {0}]
  /\ Priority \in [Task -> Int]
  /\ Starts \subseteq Nat /\ Horizons \subseteq Nat
  /\ MaxTime \in Nat /\ MaxRuns \in Nat
  /\ NoTask \notin Task /\ NoRun \notin Nat
  /\ Refresh \in Nat /\ RunStartMargin \in Nat
  /\ Crashes \in Nat /\ DbFailures \in Nat
BY TableAssumption, RunnerAssumption, MarginAssumption

\* The initial state has the right types.
LEMMA InitType == Init => TypeOK
<1> SUFFICES ASSUME Init PROVE TypeOK
  OBVIOUS
<1> USE Constants DEF Init
<1>1. TableTypeOK
  <2>1. now \in 0..MaxTime /\ nextId \in 1..(MaxRuns + 1)
    BY DEF TableInit
  <2>6. paused \in BOOLEAN
    BY DEF TableInit
  <2>2. task \in [Task -> TaskRow]
    BY DEF TableInit, TaskRow
  <2>3. DOMAIN run = {} /\ DOMAIN txn = {}
    BY DEF TableInit
  <2>4. run \in [DOMAIN run -> Row] /\ txn \in [DOMAIN txn -> Row]
    BY <2>3 DEF TableInit
  <2>5. horizon \in Horizons
    BY DEF TableInit
  <2> QED
    BY <2>1, <2>2, <2>3, <2>4, <2>5, <2>6 DEF TableTypeOK
<1>2. RunnerTypeOK
  BY DEF RunnerInit, RunnerTypeOK, Phases, WorkerType, Working, Idle
<1> QED
  BY <1>1, <1>2 DEF TypeOK, TableInit

\* Every statement of the REST API keeps the types.
LEMMA RequestType == TypeOK /\ Request => TypeOK'
<1> SUFFICES ASSUME TypeOK, Request PROVE TypeOK'
  OBVIOUS
<1> USE Constants DEF TypeOK, TableTypeOK
<1>0. UNCHANGED runnerVars => RunnerTypeOK'
  BY DEF RunnerTypeOK, runnerVars
<1>1. ASSUME NEW t \in Task, NEW s \in Starts, NEW p, NEW f \in BOOLEAN,
             RunPost(t, s, p, f), UNCHANGED runnerVars
      PROVE  TypeOK'
  <2> DEFINE row == NewRow(t, s, s + Duration[t], FALSE, Priority[t],
                           IF f THEN "nonstart" ELSE "pending")
             new == [row EXCEPT !.beside = DOMAIN txn]
  <2>1. new \in Row
    <3>1. row \in Row
      BY <1>1, s + Duration[t] \in Nat, Priority[t] \in Int DEF NewRow, Row
    <3> HIDE DEF row
    <3> QED
      BY <3>1 DEF Row
  <2>2. txn' = With(txn, nextId, new) /\ nextId' = nextId + 1 /\ nextId <= MaxRuns
    BY <1>1 DEF RunPost, run_priority
  <2>3. UNCHANGED <<now, run, task, paused, horizon>>
    BY <1>1 DEF RunPost
  <2> HIDE DEF new
  <2>4. txn' \in [DOMAIN txn' -> Row] /\ DOMAIN txn' = DOMAIN txn \cup {nextId}
    BY <2>1, <2>2 DEF With
  <2> QED
    BY <1>0, <1>1, <2>2, <2>3, <2>4
<1>2. ASSUME NEW id \in RunId, RunCommit(id), UNCHANGED runnerVars PROVE TypeOK'
  <2>1. run' \in [DOMAIN run' -> Row] /\ DOMAIN run' = DOMAIN run \cup {id}
    BY <1>2 DEF RunCommit, With
  <2>2. txn' \in [DOMAIN txn' -> Row] /\ DOMAIN txn' = DOMAIN txn \ {id}
    BY <1>2 DEF RunCommit, Only
  <2>3. txn[id].task \in Task
    BY <1>2 DEF RunCommit, Row
  <2>4. task' \in [Task -> TaskRow]
    BY <1>2, <2>3 DEF RunCommit, TaskRow
  <2> QED
    BY <1>0, <1>2, <2>1, <2>2, <2>4 DEF RunCommit
<1>3. ASSUME NEW id \in RunId, PutPartDataFull(id), UNCHANGED runnerVars PROVE TypeOK'
  <2>1. [run[id] EXCEPT !.pdf = TRUE] \in Row
    BY <1>3, FlaggedRow DEF PutPartDataFull
  <2>2. run' = [run EXCEPT ![id] = [run[id] EXCEPT !.pdf = TRUE]]
    BY <1>3 DEF PutPartDataFull
  <2> QED
    BY <1>0, <1>3, <2>1, <2>2 DEF PutPartDataFull
<1>4. ASSUME NEW id \in RunId, NEW b \in BOOLEAN, PutResultFull(id, b),
             UNCHANGED runnerVars
      PROVE  TypeOK'
  <2>1. run' \in [DOMAIN run -> Row]
    BY <1>4, AlteredRow DEF PutResultFull
  <2> QED
    BY <1>0, <1>4, <2>1 DEF PutResultFull
<1>5. ASSUME NEW id \in RunId, DeleteRun(id), UNCHANGED runnerVars PROVE TypeOK'
  <2>1. run' \in [DOMAIN run' -> Row] /\ DOMAIN run' = DOMAIN run \ {id}
    BY <1>5 DEF DeleteRun, Only
  <2> QED
    BY <1>0, <1>5, <2>1 DEF DeleteRun
<1>6. ASSUME NEW t \in Task, TaskDisable(t), UNCHANGED runnerVars PROVE TypeOK'
  <2>1. run' \in [DOMAIN run \ FutureRuns(t) -> Row]
    BY <1>6, AlteredRow DEF TaskDisable, CurrentRuns
  <2>2. task' \in [Task -> TaskRow]
    BY <1>6 DEF TaskDisable, TaskRow
  <2> QED
    BY <1>0, <1>6, <2>1, <2>2 DEF TaskDisable
<1> QED
  BY <1>1, <1>2, <1>3, <1>4, <1>5, <1>6 DEF Request

\* So do the operator, the maintenance and the clock.
LEMMA NodeType == TypeOK /\ (Operator \/ Maint \/ Clock) => TypeOK'
<1> SUFFICES ASSUME TypeOK, Operator \/ Maint \/ Clock PROVE TypeOK'
  OBVIOUS
<1> USE Constants DEF TypeOK, TableTypeOK
<1>0. RunnerTypeOK'
  BY DEF RunnerTypeOK, runnerVars, Operator, Maint, Clock
<1>1. ASSUME Pause \/ Resume PROVE TypeOK'
  BY <1>0, <1>1 DEF Pause, Resume
<1>2. ASSUME NEW h \in Horizons, HorizonChange(h) PROVE TypeOK'
  <2>1. run' \in [DOMAIN run' -> Row] /\ DOMAIN run' \subseteq DOMAIN run
    BY <1>2 DEF HorizonChange, Only
  <2> QED
    BY <1>0, <1>2, <2>1 DEF HorizonChange
<1>3. ASSUME RunMaint PROVE TypeOK'
  <2>1. \A id \in DOMAIN run : Straggled(run[id]) \in Row
    BY AlteredRow DEF Straggled
  <2>2. run' \in [DOMAIN run' -> Row] /\ DOMAIN run' \subseteq DOMAIN run
    BY <1>3, <2>1 DEF RunMaint, Only
  <2> QED
    BY <1>0, <1>3, <2>2 DEF RunMaint
<1>4. ASSUME Tick PROVE TypeOK'
  BY <1>0, <1>4 DEF Tick
<1> QED
  BY <1>1, <1>2, <1>3, <1>4 DEF Operator, Maint, Clock

\* So does the main loop of the runner, and so do its crash and restart.
LEMMA LoopType == TypeOK /\ (Loop \/ Crash \/ Restart) => TypeOK'
<1> SUFFICES ASSUME TypeOK, Loop \/ Crash \/ Restart PROVE TypeOK'
  OBVIOUS
<1> USE Constants DEF TypeOK
<1>0. UNCHANGED tableVars => TableTypeOK'
  BY DEF TableTypeOK, tableVars
<1>1. CASE LoopSelect
  <2>1. DOMAIN picked' \subseteq RunId /\ picked' \in [DOMAIN picked' -> Nat]
    BY <1>1 DEF LoopSelect, TableTypeOK, Upcoming, ShouldBeRunning, Row
  <2> QED
    BY <1>0, <1>1, <2>1 DEF LoopSelect, RunnerTypeOK, Phases, tableVars
<1>2. CASE LoopOnDeck
  <2>1. run' \in [DOMAIN run -> Row]
    BY <1>2, AlteredRow DEF LoopOnDeck, TableTypeOK
  <2>2. failures' \in 0..DbFailures
    BY <1>2 DEF LoopOnDeck, RunnerTypeOK
  <2> QED
    BY <1>2, <2>1, <2>2 DEF LoopOnDeck, TableTypeOK, RunnerTypeOK, Phases
<1>3. ASSUME NEW t \in Thread, NEW id \in RunId, LoopStart(t, id) PROVE TypeOK'
  <2>1. [Idle EXCEPT !.pc = "started", !.id = id, !.at = picked[id]] \in WorkerType
    BY <1>3, IdleType, WorkerUpdate DEF LoopStart, RunnerTypeOK
  <2> DEFINE new == [Idle EXCEPT !.pc = "started", !.id = id, !.at = picked[id]]
  <2>2. new.pc = "started" /\ new.id \in RunId
    BY DEF Idle
  <2> HIDE DEF new
  <2>3. worker' = [worker EXCEPT ![t] = new]
    BY <1>3 DEF LoopStart, new
  <2>4. DOMAIN picked' \subseteq RunId /\ picked' \in [DOMAIN picked' -> Nat]
    BY <1>3 DEF LoopStart, RunnerTypeOK, Only
  <2>5. phase' \in Phases
    BY <1>3 DEF LoopStart, Phases
  <2> QED
    BY <1>0, <1>3, <2>1, <2>2, <2>3, <2>4, <2>5
    DEF LoopStart, RunnerTypeOK, tableVars, new
<1>4. CASE Crash
  BY <1>0, <1>4, IdleType DEF Crash, RunnerTypeOK, Phases, tableVars
<1>5. CASE Restart
  BY <1>0, <1>5 DEF Restart, RunnerTypeOK, Phases, tableVars
<1> QED
  BY <1>1, <1>2, <1>3, <1>4, <1>5 DEF Loop

\* A thread that ends leaves the runner's types alone.
LEMMA FinishType ==
  ASSUME RunnerTypeOK, NEW t \in Thread, Finish(t)
  PROVE  /\ run_dict' \subseteq RunId
         /\ worker' \in [Thread -> WorkerType]
         /\ \A u \in Thread : worker'[u] = worker[u] \/ worker'[u].pc = "idle"
BY IdleType DEF Finish, RunnerTypeOK

\* Neither does a thread that goes on.
LEMMA MoveType ==
  ASSUME RunnerTypeOK, NEW t \in Thread, NEW w \in WorkerType, w.id \in RunId,
         w.pc = "started" \/ w.task \in Task,
         worker' = [worker EXCEPT ![t] = w],
         phase' = phase, picked' = picked, crashes' = crashes, undecked' = undecked,
         failures' \in 0..DbFailures, run_dict' \subseteq RunId
  PROVE  RunnerTypeOK'
BY DEF RunnerTypeOK

\* So does everything a worker does.
LEMMA WorkType == TypeOK /\ (\E t \in Thread : Work(t)) => TypeOK'
<1> SUFFICES ASSUME TypeOK, NEW t \in Thread, Work(t) PROVE TypeOK'
  OBVIOUS
<1> USE Constants DEF TypeOK
<1>0. UNCHANGED tableVars => TableTypeOK'
  BY DEF TableTypeOK, tableVars
<1>1. CASE WorkerDbFailure(t)
  <2>1. Finish(t) /\ failures' \in 0..DbFailures
    BY <1>1 DEF WorkerDbFailure, Failure, RunnerTypeOK
  <2> QED
    BY <1>0, <1>1, <2>1, FinishType DEF WorkerDbFailure, RunnerTypeOK, tableVars
<1>2. CASE WorkerBegin(t)
  <2> DEFINE id == worker[t].id
  <2>1. CASE id \notin DOMAIN run
    BY <1>0, <1>2, <2>1, FinishType DEF WorkerBegin, RunnerTypeOK, tableVars
  <2>2. CASE id \in DOMAIN run
    <3>1. run[id].task \in Task /\ run[id].hi \in Nat /\ id \in RunId
      BY <2>2 DEF TableTypeOK, Row
    <3> DEFINE new == [worker[t] EXCEPT !.pc = "sleeping", !.task = run[id].task,
                                        !.end = run[id].hi]
    <3>2. worker' = [worker EXCEPT ![t] = new] /\ run_dict' = run_dict \cup {id}
      BY <1>2, <2>2 DEF WorkerBegin
    <3>3. new \in WorkerType /\ new.task \in Task /\ new.id \in RunId
      <4>1. worker[t] \in WorkerType /\ worker[t].id \in RunId
        BY <3>1 DEF RunnerTypeOK
      <4> QED
        BY <3>1, <4>1 DEF WorkerType, Working
    <3>4. run_dict' \subseteq RunId
      BY <3>1, <3>2 DEF RunnerTypeOK
    <3>5. UNCHANGED <<tableVars, phase, picked, crashes, failures, undecked>>
      BY <1>2 DEF WorkerBegin
    <3> HIDE DEF new
    <3>6. RunnerTypeOK'
      BY <3>2, <3>3, <3>4, <3>5, MoveType DEF RunnerTypeOK
    <3> QED
      BY <1>0, <1>2, <3>1, <3>2, <3>5, <3>6 DEF tableVars
  <2> QED
    BY <2>1, <2>2
<1>3. CASE WorkerStart(t)
  <2> DEFINE id == worker[t].id
  <2>1. TableTypeOK' /\ DOMAIN run' = DOMAIN run
    <3>1. CASE StartRaises(id)
      BY <1>3, <3>1 DEF WorkerStart, run_start, TableTypeOK
    <3>2. CASE ~StartRaises(id)
      <4>1. /\ run' = [run EXCEPT ![id] = Altered(run[id], StartTarget(id))]
            /\ task' = CountStart(run[id], StartTarget(id))
            /\ id \in DOMAIN run
        BY <1>3, <3>2 DEF WorkerStart, run_start, StartRaises
      <4>2. Altered(run[id], StartTarget(id)) \in Row
        BY <4>1, AlteredRow DEF TableTypeOK, StartTarget
      <4>3. run[id].task \in Task
        BY <4>1 DEF TableTypeOK, Row
      <4>4. task' \in [Task -> TaskRow]
        BY <4>1, <4>3, SMTT(30) DEF CountStart, TableTypeOK, TaskRow
      <4> QED
        BY <1>3, <4>1, <4>2, <4>4 DEF WorkerStart, TableTypeOK
    <3> QED
      BY <3>1, <3>2
  <2>2. RunnerTypeOK'
    <3>1. CASE StartReturnsNull(id)
      <4> DEFINE new == [worker[t] EXCEPT !.pc = "executing"]
      <4>1. new \in WorkerType /\ new.task \in Task /\ new.id \in RunId
        <5>1. worker[t] \in WorkerType /\ worker[t].task \in Task /\ worker[t].id \in RunId
          BY <1>3 DEF RunnerTypeOK, WorkerStart, Awake
        <5>2. "executing" \in Working
          BY DEF Working
        <5> QED
          BY <5>1, <5>2, WorkerUpdate
      <4>2. worker' = [worker EXCEPT ![t] = new]
        BY <1>3, <3>1 DEF WorkerStart
      <4>3. UNCHANGED <<phase, picked, run_dict, crashes, failures, undecked>>
        BY <1>3, <3>1 DEF WorkerStart
      <4>4. run_dict' \subseteq RunId /\ failures' \in 0..DbFailures
        BY <4>3 DEF RunnerTypeOK
      <4> HIDE DEF new
      <4> QED
        BY <4>1, <4>2, <4>3, <4>4, MoveType
    <3>2. CASE ~StartReturnsNull(id)
      BY <1>3, <3>2, FinishType DEF WorkerStart, RunnerTypeOK
    <3> QED
      BY <3>1, <3>2
  <2> QED
    BY <1>3, <2>1, <2>2 DEF WorkerStart
<1>4. CASE WorkerResult(t)
  <2> DEFINE tk  == worker[t].task
             new == [NewRow(tk, now, now, TRUE, 0, "finished") EXCEPT !.merged = TRUE]
  <2>1. tk \in Task
    BY <1>4 DEF WorkerResult, RunnerTypeOK
  <2>2. new \in Row
    <3>1. NewRow(tk, now, now, TRUE, 0, "finished") \in Row
      <4>1. now \in Nat
        BY DEF TableTypeOK
      <4> QED
        BY <2>1, <4>1 DEF NewRow, Row
    <3>2. PICK row \in Row : row = NewRow(tk, now, now, TRUE, 0, "finished")
      BY <3>1
    <3> QED
      BY <3>2, FlaggedRow
  <2>3. run' = With(run, nextId, new) /\ nextId' = nextId + 1 /\ nextId <= MaxRuns
    BY <1>4 DEF WorkerResult
  <2>4. task' \in [Task -> TaskRow]
    BY <1>4, <2>1 DEF WorkerResult, TableTypeOK, TaskRow
  <2> HIDE DEF new
  <2>5. run' \in [DOMAIN run' -> Row] /\ DOMAIN run' = DOMAIN run \cup {nextId}
    BY <2>2, <2>3 DEF With, TableTypeOK
  <2>6. RunnerTypeOK'
    BY <1>4 DEF WorkerResult, RunnerTypeOK, runnerVars
  <2>7. UNCHANGED <<now, txn, paused, horizon>>
    BY <1>4 DEF WorkerResult
  <2>8. TableTypeOK'
    BY <2>3, <2>4, <2>5, <2>7 DEF TableTypeOK
  <2> QED
    BY <2>3, <2>5, <2>6, <2>7, <2>8 DEF TableTypeOK
<1>5. ASSUME NEW code \in 0..2, WorkerExit(t, code) PROVE TypeOK'
  <2> DEFINE new == [worker[t] EXCEPT !.pc = "exited", !.code = code]
  <2>1. new \in WorkerType /\ new.task \in Task /\ new.id \in RunId
    <3>1. worker[t] \in WorkerType /\ worker[t].task \in Task /\ worker[t].id \in RunId
      BY <1>5 DEF RunnerTypeOK, WorkerExit
    <3> QED
      BY <3>1, WorkerUpdate
  <2>2. worker' = [worker EXCEPT ![t] = new]
    BY <1>5 DEF WorkerExit
  <2>3. UNCHANGED <<tableVars, phase, picked, run_dict, crashes, failures, undecked>>
    BY <1>5 DEF WorkerExit
  <2>4. run_dict' \subseteq RunId /\ failures' \in 0..DbFailures
    BY <2>3 DEF RunnerTypeOK
  <2> HIDE DEF new
  <2>5. RunnerTypeOK'
    BY <2>1, <2>2, <2>3, <2>4, MoveType
  <2> QED
    BY <1>0, <2>3, <2>5 DEF tableVars
<1>6. CASE WorkerStore(t)
  <2> DEFINE id == worker[t].id
             to == LocalState(worker[t].task, worker[t].code)
  <2>1. to \in States
    BY DEF LocalState
  <2>2. TableTypeOK' /\ DOMAIN run' = DOMAIN run
    BY <1>6, <2>1, AlteredRow DEF WorkerStore, UpdateRun, TableTypeOK
  <2>3. RunnerTypeOK'
    <3> DEFINE new == [worker[t] EXCEPT !.pc = "lead"]
    <3>1. CASE Finish(t)
      BY <1>6, <3>1, FinishType DEF WorkerStore, RunnerTypeOK
    <3>2. CASE ~Finish(t)
      <4>1. new \in WorkerType /\ new.task \in Task /\ new.id \in RunId
        <5>1. worker[t] \in WorkerType /\ worker[t].task \in Task /\ worker[t].id \in RunId
          BY <1>6 DEF RunnerTypeOK, WorkerStore
        <5>2. "lead" \in Working
          BY DEF Working
        <5> QED
          BY <5>1, <5>2, WorkerUpdate
      <4>2. worker' = [worker EXCEPT ![t] = new] /\ UNCHANGED run_dict
        BY <1>6, <3>2 DEF WorkerStore
      <4>3. UNCHANGED <<phase, picked, crashes, failures, undecked>>
        BY <1>6 DEF WorkerStore
      <4>4. run_dict' \subseteq RunId /\ failures' \in 0..DbFailures
        BY <4>2, <4>3 DEF RunnerTypeOK
      <4> HIDE DEF new
      <4> QED
        BY <4>1, <4>2, <4>3, <4>4, MoveType
    <3> QED
      BY <3>1, <3>2
  <2> QED
    BY <1>6, <2>2, <2>3 DEF WorkerStore
<1>7. ASSUME NEW b \in BOOLEAN, WorkerMerge(t, b) PROVE TypeOK'
  <2> DEFINE id == worker[t].id
             to == IF b THEN "failed" ELSE "finished"
  <2>1. id \in DOMAIN run => [Altered(run[id], to) EXCEPT !.merged = TRUE] \in Row
    <3>1. id \in DOMAIN run => Altered(run[id], to) \in Row
      BY AlteredRow DEF TableTypeOK
    <3> QED
      BY <3>1, FlaggedRow
  <2>2. TableTypeOK' /\ DOMAIN run' = DOMAIN run
    BY <1>7, <2>1, ZenonT(40) DEF WorkerMerge, UpdateRun, TableTypeOK
  <2> QED
    BY <1>7, <2>2, FinishType DEF WorkerMerge, RunnerTypeOK
<1>8. ASSUME NEW pc \in Working, worker[t].pc \in {"sleeping", "exited"}, Failure,
             worker' = [worker EXCEPT ![t].pc = pc],
             UNCHANGED <<tableVars, phase, picked, run_dict, crashes, undecked>>
      PROVE  TypeOK'
  <2> DEFINE new == [worker[t] EXCEPT !.pc = pc]
  <2>1. new \in WorkerType /\ new.task \in Task /\ new.id \in RunId
    <3>1. worker[t] \in WorkerType /\ worker[t].task \in Task /\ worker[t].id \in RunId
      BY <1>8 DEF RunnerTypeOK
    <3> QED
      BY <3>1, WorkerUpdate
  <2>2. worker' = [worker EXCEPT ![t] = new]
    BY <1>8
  <2>3. run_dict' \subseteq RunId /\ failures' \in 0..DbFailures
    BY <1>8 DEF RunnerTypeOK, Failure
  <2> HIDE DEF new
  <2>4. RunnerTypeOK'
    BY <1>8, <2>1, <2>2, <2>3, MoveType
  <2> QED
    BY <1>0, <1>8, <2>4 DEF tableVars
<1>9. CASE WorkerStartLost(t)
  <2>1. "executing" \in Working
    BY DEF Working
  <2> QED
    BY <1>8, <1>9, <2>1 DEF WorkerStartLost, Awake
<1>10. CASE WorkerStoreLost(t)
  <2>1. "lead" \in Working
    BY DEF Working
  <2> QED
    BY <1>8, <1>10, <2>1 DEF WorkerStoreLost
<1> QED
  BY <1>1, <1>2, <1>3, <1>4, <1>5, <1>6, <1>7, <1>9, <1>10 DEF Work

\* All variables have their types, and the rows' ids come from the sequence.
THEOREM TypeCorrect == Spec => []TypeOK
<1>1. TypeOK /\ [Next]_vars => TypeOK'
  <2> SUFFICES ASSUME TypeOK, [Next]_vars PROVE TypeOK'
    OBVIOUS
  <2>1. CASE UNCHANGED vars
    BY <2>1 DEF vars, tableVars, runnerVars, TypeOK, TableTypeOK, RunnerTypeOK
  <2> QED
    BY <2>1, RequestType, NodeType, LoopType, WorkType DEF Next
<1> QED
  BY <1>1, InitType, PTL DEF Spec
-----------------------------------------------------------------------------
(* The safety properties.  They go by the kinds of steps that the table of  *)
(* runs sees, of which there are only five, whatever actor takes them.      *)

\* What becomes of a row: its state goes where the trigger lets it go, its
\* task, priority and start stay, and so does its end until it is finished, when
\* it may be cut short.  What it was inserted beside is history.  A non-starter stays one.  It gets all data only
\* while it is not too far out.
RowMoves(old, new) ==
  /\ new.task = old.task /\ new.lo = old.lo /\ new.prio = old.prio
  /\ new.beside = old.beside
  /\ run_state_transition_is_valid(old.state, new.state)
  /\ new.state \in Unfinished => new.hi = old.hi /\ new.closed = old.closed
  /\ new.hi < old.hi \/ (new.hi = old.hi /\ new.closed = old.closed)
  /\ old.state = "nonstart" => new.state = "nonstart"
  /\ old.pdf => new.pdf
  /\ new.pdf => old.pdf \/ WithinHorizon(old.task, old.lo)

\* The same without being started, or turned away when it was to be.
RowKeeps(old, new) ==
  RowMoves(old, new) /\ (new.state \in {"running", "preempted"} => new.state = old.state)

\* Rows are changed or removed, and none is added or started.
Kept ==
  /\ UNCHANGED <<txn, nextId>>
  /\ DOMAIN run' \subseteq DOMAIN run
  /\ \A id \in DOMAIN run' : RowKeeps(run[id], run'[id])

\* A row is inserted, and not visible yet.
Posted ==
  /\ UNCHANGED run
  /\ nextId' = nextId + 1
  /\ DOMAIN txn' = DOMAIN txn \cup {nextId}
  /\ \A id \in DOMAIN txn : id # nextId => txn'[id] = txn[id]
  /\ \/ txn'[nextId].state = "nonstart"
     \/ txn'[nextId].state = "pending" /\ ~run_has_conflicts(run, txn'[nextId], now)
  /\ txn'[nextId].lo <= txn'[nextId].hi
  /\ ~txn'[nextId].pdf
  /\ txn'[nextId].beside = DOMAIN txn

\* A row becomes visible.
Committed(id) ==
  /\ id \in DOMAIN txn
  /\ UNCHANGED nextId
  /\ DOMAIN txn' = DOMAIN txn \ {id}
  /\ \A i \in DOMAIN txn' : txn'[i] = txn[i]
  /\ DOMAIN run' = DOMAIN run \cup {id}
  /\ run'[id] = txn[id]
  /\ \A i \in DOMAIN run : i # id => run'[i] = run[i]

\* A row is inserted with its result.
Delivered ==
  /\ UNCHANGED txn
  /\ nextId' = nextId + 1
  /\ DOMAIN run' = DOMAIN run \cup {nextId}
  /\ run'[nextId].state = "finished" /\ anytime(run'[nextId].task)
  /\ \A i \in DOMAIN run : i # nextId => run'[i] = run[i]

\* A run is started or not by its worker, after a look at the others.
Started(id) ==
  /\ id \in DOMAIN run
  /\ \E t \in Thread : worker[t].pc = "sleeping" /\ worker[t].id = id
  /\ UNCHANGED <<txn, nextId>>
  /\ run'[id].state = "running" => run_can_proceed(run, id)
  /\ run'[id].state = "preempted" /\ run[id].state # "preempted"
       => ~run_can_proceed(run, id)
  /\ DOMAIN run' = DOMAIN run
  /\ RowMoves(run[id], run'[id])
  /\ \A i \in DOMAIN run : i # id => run'[i] = run[i]

TableStep ==
  Kept \/ Posted \/ (\E id \in RunId : Committed(id)) \/ Delivered
  \/ (\E id \in RunId : Started(id))
-----------------------------------------------------------------------------
\* An UPDATE that the trigger lets through moves the row as it should.
LEMMA AllowedMoves ==
  ASSUME NEW row \in Row, NEW s \in States, now \in Nat,
         run_state_transition_is_valid(row.state, Altered(row, s).state),
         s = "canceled" => row.state # "nonstart"
  PROVE  /\ RowMoves(row, Altered(row, s))
         /\ s \notin {"running", "preempted"} => RowKeeps(row, Altered(row, s))
<1>1. Altered(row, s).state \in Unfinished
        => Altered(row, s).hi = row.hi /\ Altered(row, s).closed = row.closed
  BY AlteredRow
<1>2. Altered(row, s).task = row.task /\ Altered(row, s).lo = row.lo
      /\ Altered(row, s).prio = row.prio /\ Altered(row, s).beside = row.beside
      /\ Altered(row, s).state = IF row.state = "canceled" THEN "canceled" ELSE s
  BY AlteredRow
<1>3. row.state = "nonstart" => Altered(row, s).state = "nonstart"
  BY <1>2 DEF run_state_transition_is_valid, Successors
<1>4. \/ Altered(row, s).hi < row.hi
      \/ Altered(row, s).hi = row.hi /\ Altered(row, s).closed = row.closed
  BY AlteredRow
<1>5. RowMoves(row, Altered(row, s))
  BY <1>1, <1>2, <1>3, <1>4, AlteredRow DEF RowMoves
<1> QED
  BY <1>2, <1>5 DEF RowKeeps

\* A row that is left alone moves as it should, and one of its flags may
\* be set on the way.
LEMMA SameMoves ==
  ASSUME NEW row \in Row
  PROVE  /\ RowKeeps(row, row)
         /\ WithinHorizon(row.task, row.lo) => RowKeeps(row, [row EXCEPT !.pdf = TRUE])
BY FlaggedRow DEF RowKeeps, RowMoves, run_state_transition_is_valid
-----------------------------------------------------------------------------
\* What the REST API does to the table is one of the five kinds of steps.
LEMMA RequestSteps == TypeOK /\ Request => TableStep
<1> SUFFICES ASSUME TypeOK, Request PROVE TableStep
  OBVIOUS
<1>0. /\ now \in Nat
      /\ \A id \in DOMAIN run : run[id] \in Row /\ id < nextId
      /\ \A id \in DOMAIN txn : id < nextId
  BY Constants DEF TypeOK, TableTypeOK
<1>1. ASSUME NEW t \in Task, NEW s \in Starts, NEW p, NEW f \in BOOLEAN,
             RunPost(t, s, p, f)
      PROVE  Posted
  <2> DEFINE state == IF f THEN "nonstart" ELSE "pending"
             new == [NewRow(t, s, s + Duration[t], FALSE, Priority[t], state)
                       EXCEPT !.beside = DOMAIN txn]
  <2>1. /\ txn' = With(txn, nextId, new)
        /\ nextId' = nextId + 1
        /\ run_state_is_finished(state) \/ ~run_has_conflicts(run, new, now)
        /\ UNCHANGED run
    BY <1>1 DEF RunPost, run_priority
  <2>2. new.state = state /\ new.lo <= new.hi /\ ~new.pdf /\ new.beside = DOMAIN txn
    BY Constants DEF NewRow
  <2>3. state = "nonstart" \/ ~run_has_conflicts(run, new, now)
    BY <2>1 DEF run_state_is_finished
  <2> HIDE DEF new
  <2>4. /\ DOMAIN txn' = DOMAIN txn \cup {nextId}
        /\ txn'[nextId] = new
        /\ \A id \in DOMAIN txn : id # nextId => txn'[id] = txn[id]
    BY <2>1 DEF With
  <2> QED
    BY <2>1, <2>2, <2>3, <2>4 DEF Posted
<1>2. ASSUME NEW id \in RunId, RunCommit(id) PROVE Committed(id)
  BY <1>2 DEF RunCommit, Committed, With, Only
<1>3. ASSUME NEW id \in RunId, PutPartDataFull(id) PROVE Kept
  <2>1. /\ run' = [run EXCEPT ![id] = [run[id] EXCEPT !.pdf = TRUE]]
        /\ WithinHorizon(run[id].task, run[id].lo)
    BY <1>3 DEF PutPartDataFull, Allowed
  <2>2. \A i \in DOMAIN run' : RowKeeps(run[i], run'[i])
    BY <1>0, <2>1, SameMoves
  <2> QED
    BY <1>3, <2>1, <2>2 DEF PutPartDataFull, Kept
<1>4. ASSUME NEW id \in RunId, NEW b \in BOOLEAN, PutResultFull(id, b) PROVE Kept
  <2> DEFINE state == IF b THEN "finished" ELSE "failed"
  <2>1. /\ run' = [run EXCEPT ![id] = Altered(run[id], state)]
        /\ id \in DOMAIN run
        /\ run_state_transition_is_valid(run[id].state, Altered(run[id], state).state)
    BY <1>4 DEF PutResultFull, Allowed
  <2>2. RowKeeps(run[id], Altered(run[id], state))
    BY <1>0, <2>1, AllowedMoves
  <2>3. \A i \in DOMAIN run' : RowKeeps(run[i], run'[i])
    BY <1>0, <2>1, <2>2, SameMoves
  <2> QED
    BY <1>4, <2>1, <2>3 DEF PutResultFull, Kept
<1>5. ASSUME NEW id \in RunId, DeleteRun(id) PROVE Kept
  BY <1>0, <1>5, SameMoves DEF DeleteRun, Only, Kept
<1>6. ASSUME NEW t \in Task, TaskDisable(t) PROVE Kept
  <2>1. DOMAIN run' \subseteq DOMAIN run
    BY <1>6 DEF TaskDisable
  <2>2. ASSUME NEW id \in DOMAIN run' PROVE RowKeeps(run[id], run'[id])
    <3>1. CASE id \in CurrentRuns(t)
      <4>1. run_state_transition_is_valid(run[id].state, Altered(run[id], "canceled").state)
        BY <1>6, <3>1 DEF TaskDisable, CanDisable, Allowed
      <4>2. run'[id] = Altered(run[id], "canceled")
        BY <1>6, <2>2, <3>1 DEF TaskDisable
      <4> QED
        BY <1>0, <2>1, <3>1, <4>1, <4>2, AllowedMoves DEF CurrentRuns
    <3>2. CASE id \notin CurrentRuns(t)
      <4>1. run'[id] = run[id]
        BY <1>6, <2>2, <3>2 DEF TaskDisable
      <4> QED
        BY <1>0, <2>1, <4>1, SameMoves
    <3> QED
      BY <3>1, <3>2
  <2> QED
    BY <1>6, <2>1, <2>2 DEF TaskDisable, Kept
<1> QED
  BY <1>1, <1>2, <1>3, <1>4, <1>5, <1>6 DEF Request, TableStep

\* So is what the operator, the maintenance and the clock do to it.
LEMMA NodeSteps == TypeOK /\ (Operator \/ Maint \/ Clock) => Kept
<1> SUFFICES ASSUME TypeOK, Operator \/ Maint \/ Clock PROVE Kept
  OBVIOUS
<1>0. now \in Nat /\ \A id \in DOMAIN run : run[id] \in Row
  BY Constants DEF TypeOK, TableTypeOK
<1>1. ASSUME UNCHANGED <<run, txn, nextId>> PROVE Kept
  BY <1>0, <1>1, SameMoves DEF Kept
<1>2. ASSUME NEW h \in Horizons, HorizonChange(h) PROVE Kept
  <2>1. DOMAIN run' \subseteq DOMAIN run /\ \A id \in DOMAIN run' : run'[id] = run[id]
    BY <1>2 DEF HorizonChange, Only
  <2> QED
    BY <1>0, <1>2, <2>1, SameMoves DEF HorizonChange, Kept
<1>3. ASSUME RunMaint PROVE Kept
  <2>1. ASSUME NEW id \in DOMAIN run PROVE RowKeeps(run[id], Straggled(run[id]))
    <3>1. CASE run[id].state \in {"pending", "on_deck"}
      <4>1. Altered(run[id], "missed").state = "missed"
        BY <1>0, <3>1, AlteredRow
      <4>2. run_state_transition_is_valid(run[id].state, "missed")
        BY <3>1 DEF run_state_transition_is_valid, Successors
      <4>3. RowKeeps(run[id], Altered(run[id], "missed"))
        BY <1>0, <4>1, <4>2, AllowedMoves
      <4>4. Straggled(run[id]) \in {run[id], Altered(run[id], "missed")}
        BY <3>1 DEF Straggled
      <4> QED
        BY <1>0, <4>3, <4>4, SameMoves
    <3>2. CASE run[id].state = "running"
      <4>1. Altered(run[id], "overdue").state = "overdue"
        BY <1>0, <3>2, AlteredRow
      <4>2. run_state_transition_is_valid(run[id].state, "overdue")
        BY <3>2 DEF run_state_transition_is_valid, Successors
      <4>3. RowKeeps(run[id], Altered(run[id], "overdue"))
        BY <1>0, <4>1, <4>2, AllowedMoves
      <4>4. Straggled(run[id]) \in {run[id], Altered(run[id], "overdue")}
        BY <3>2 DEF Straggled
      <4> QED
        BY <1>0, <4>3, <4>4, SameMoves
    <3>3. CASE run[id].state \notin Unfinished
      BY <1>0, <3>3, SameMoves DEF Straggled
    <3> QED
      BY <3>1, <3>2, <3>3
  <2>2. /\ DOMAIN run' \subseteq DOMAIN run
        /\ \A id \in DOMAIN run' : run'[id] = Straggled(run[id])
    BY <1>3 DEF RunMaint, Only
  <2> QED
    BY <1>3, <2>1, <2>2 DEF RunMaint, Kept
<1> QED
  BY <1>1, <1>2, <1>3 DEF Operator, Maint, Clock, Pause, Resume, Tick

\* So is what the main loop, a crash and a restart do to it.
LEMMA LoopSteps == TypeOK /\ (Loop \/ Crash \/ Restart) => Kept
<1> SUFFICES ASSUME TypeOK, Loop \/ Crash \/ Restart PROVE Kept
  OBVIOUS
<1>0. now \in Nat /\ \A id \in DOMAIN run : run[id] \in Row
  BY Constants DEF TypeOK, TableTypeOK
<1>1. ASSUME UNCHANGED tableVars PROVE Kept
  BY <1>0, <1>1, SameMoves DEF Kept, tableVars
<1>2. CASE LoopOnDeck
  <2>1. DOMAIN run' = DOMAIN run
    BY <1>2 DEF LoopOnDeck
  <2>2. ASSUME NEW id \in DOMAIN run PROVE RowKeeps(run[id], run'[id])
    <3>1. CASE run'[id] = run[id]
      BY <1>0, <3>1, SameMoves
    <3>2. CASE run'[id] # run[id]
      <4>1. run'[id] = Altered(run[id], "on_deck") /\ run[id].state = "pending"
        BY <1>2, <3>2 DEF LoopOnDeck
      <4>2. run_state_transition_is_valid(run[id].state, "on_deck")
        BY <4>1 DEF run_state_transition_is_valid, Successors
      <4>3. Altered(run[id], "on_deck").state = "on_deck"
        BY <1>0, <4>1, AlteredRow
      <4> QED
        BY <1>0, <4>1, <4>2, <4>3, AllowedMoves
    <3> QED
      BY <3>1, <3>2
  <2> QED
    BY <1>2, <2>1, <2>2 DEF LoopOnDeck, Kept
<1> QED
  BY <1>1, <1>2 DEF Loop, LoopSelect, LoopStart, Crash, Restart

\* So is what the workers do to it: they are the ones to start runs and to
\* deliver results.
LEMMA WorkSteps == TypeOK /\ (\E t \in Thread : Work(t)) => TableStep
<1> SUFFICES ASSUME TypeOK, NEW t \in Thread, Work(t) PROVE TableStep
  OBVIOUS
<1> DEFINE id == worker[t].id
<1>0. now \in Nat /\ \A i \in DOMAIN run : run[i] \in Row /\ i \in RunId
  BY Constants DEF TypeOK, TableTypeOK
<1>1. ASSUME UNCHANGED <<run, txn, nextId>> PROVE Kept
  BY <1>0, <1>1, SameMoves DEF Kept
<1>2. CASE WorkerStart(t)
  <2>1. UNCHANGED <<txn, nextId>> /\ run_start(id) /\ worker[t].pc = "sleeping"
    BY <1>2 DEF WorkerStart, Awake
  <2>2. CASE StartRaises(id)
    BY <1>1, <2>1, <2>2 DEF run_start, TableStep
  <2>3. CASE ~StartRaises(id)
    <3> DEFINE s == StartTarget(id)
    <3>1. /\ id \in DOMAIN run
          /\ run_state_transition_is_valid(run[id].state, Altered(run[id], s).state)
          /\ run' = [run EXCEPT ![id] = Altered(run[id], s)]
      BY <2>1, <2>3 DEF StartRaises, Allowed, run_start
    <3>2. /\ s \in {"missed", "preempted", "running"}
          /\ s = "running" => run_can_proceed(run, id)
          /\ s = "preempted" => ~run_can_proceed(run, id)
      BY DEF StartTarget
    <3> HIDE DEF s
    <3>3. RowMoves(run[id], run'[id]) /\ run'[id].state \in {s, run[id].state}
      BY <1>0, <3>1, <3>2, AllowedMoves, AlteredRow
    <3>4. run'[id].state = "running" => s = "running"
      BY <1>0, <3>1, <3>2, AlteredRow
    <3>5. Started(id)
      BY <2>1, <3>1, <3>2, <3>3, <3>4 DEF Started
    <3> QED
      BY <1>0, <3>1, <3>5 DEF TableStep
  <2> QED
    BY <2>2, <2>3 DEF TableStep
<1>3. CASE WorkerResult(t)
  <2> DEFINE new == [NewRow(worker[t].task, now, now, TRUE, 0, "finished")
                       EXCEPT !.merged = TRUE]
  <2>1. new.state = "finished" /\ anytime(new.task)
    BY <1>3 DEF WorkerResult, NewRow, multi, anytime
  <2>2. /\ run' = With(run, nextId, new)
        /\ nextId' = nextId + 1
        /\ UNCHANGED txn
    BY <1>3 DEF WorkerResult
  <2> HIDE DEF new
  <2>3. /\ DOMAIN run' = DOMAIN run \cup {nextId}
        /\ run'[nextId] = new
        /\ \A i \in DOMAIN run : i # nextId => run'[i] = run[i]
    BY <2>2 DEF With
  <2> QED
    BY <2>1, <2>2, <2>3 DEF TableStep, Delivered
<1>4. CASE WorkerStore(t)
  <2> DEFINE to == LocalState(worker[t].task, worker[t].code)
  <2>1. to \in {"cleanup", "failed", "finished"}
    BY DEF LocalState
  <2> HIDE DEF to
  <2>2. /\ UNCHANGED <<txn, nextId>>
        /\ DOMAIN run' = DOMAIN run
        /\ \A i \in DOMAIN run : i # id => run'[i] = run[i]
        /\ id \in DOMAIN run =>
             \/ run'[id] = run[id]
             \/ /\ run'[id] = Altered(run[id], to)
                /\ run_state_transition_is_valid(run[id].state, Altered(run[id], to).state)
    BY <1>4 DEF WorkerStore, UpdateRun, Allowed, to
  <2>3. id \in DOMAIN run => RowKeeps(run[id], run'[id])
    BY <1>0, <2>1, <2>2, SameMoves, AllowedMoves, ZenonT(40)
  <2>4. \A i \in DOMAIN run' : RowKeeps(run[i], run'[i])
    BY <1>0, <2>2, <2>3, SameMoves
  <2> QED
    BY <2>2, <2>4 DEF TableStep, Kept
<1>5. ASSUME NEW b \in BOOLEAN, WorkerMerge(t, b) PROVE Kept
  <2> DEFINE to == IF b THEN "failed" ELSE "finished"
             new == Altered(run[id], to)
  <2>1. to \in {"failed", "finished"}
    OBVIOUS
  <2>2. /\ UNCHANGED <<txn, nextId>>
        /\ DOMAIN run' = DOMAIN run
        /\ \A i \in DOMAIN run : i # id => run'[i] = run[i]
        /\ id \in DOMAIN run =>
             \/ run'[id] = run[id]
             \/ /\ run'[id] = [new EXCEPT !.merged = TRUE]
                /\ run_state_transition_is_valid(run[id].state, new.state)
    BY <1>5 DEF WorkerMerge, UpdateRun, Allowed
  <2> HIDE DEF to
  <2>3. ASSUME id \in DOMAIN run PROVE RowKeeps(run[id], run'[id])
    <3>1. CASE run'[id] = run[id]
      BY <1>0, <2>3, <3>1, SameMoves
    <3>2. CASE run'[id] # run[id]
      <4>1. RowKeeps(run[id], new) /\ new \in Row
        BY <1>0, <2>1, <2>2, <2>3, <3>2, AllowedMoves, AlteredRow
      <4> HIDE DEF new
      <4>2. run'[id] = [new EXCEPT !.merged = TRUE]
        BY <2>2, <2>3, <3>2 DEF new
      <4> QED
        BY <4>1, <4>2, FlaggedRow DEF RowKeeps, RowMoves
    <3> QED
      BY <3>1, <3>2
  <2>4. \A i \in DOMAIN run' : RowKeeps(run[i], run'[i])
    BY <1>0, <2>2, <2>3, SameMoves
  <2> QED
    BY <2>2, <2>4 DEF Kept
<1> QED
  BY <1>1, <1>2, <1>3, <1>4, <1>5
  DEF Work, TableStep, WorkerBegin, WorkerExit, WorkerDbFailure, WorkerStartLost,
      WorkerStoreLost, tableVars

\* Every step of the specification is one of the five kinds.
LEMMA TableSteps == TypeOK /\ [Next]_vars => TableStep
<1> SUFFICES ASSUME TypeOK, [Next]_vars PROVE TableStep
  OBVIOUS
<1>1. CASE UNCHANGED vars
  <2>1. \A id \in DOMAIN run : run[id] \in Row
    BY DEF TypeOK, TableTypeOK
  <2> QED
    BY <1>1, <2>1, SameMoves DEF vars, tableVars, TableStep, Kept
<1> QED
  BY <1>1, RequestSteps, NodeSteps, LoopSteps, WorkSteps DEF Next, TableStep
-----------------------------------------------------------------------------
\* Rows that are changed and stay in progress keep their place: what the
\* scheduling classes and the times say about two of them stays the same.
LEMMA SamePlace ==
  ASSUME NEW p, NEW q, NEW p2, NEW q2, RowMoves(p, p2), RowMoves(q, q2),
         p2.state \in Unfinished, q2.state \in Unfinished
  PROVE  /\ Incompatible(p2, q2) <=> Incompatible(p, q)
         /\ Overlap(p2, q2) <=> Overlap(p, q)
         /\ p2.prio = p.prio /\ q2.prio = q.prio
BY DEF RowMoves, Incompatible, Overlap, Precedes

\* Two rows overlap, or are kept apart, either way round.
LEMMA Symmetric ==
  ASSUME NEW p, NEW q
  PROVE  /\ Incompatible(p, q) <=> Incompatible(q, p)
         /\ Overlap(p, q) <=> Overlap(q, p)
BY DEF Incompatible, Overlap

\* A row that is not visible yet is one that has not run.
FreshTxn == \A id \in DOMAIN txn : txn[id].state \in {"pending", "nonstart"}

\* Inserts are the only source of such rows (api_run_post).
LEMMA FreshStep == FreshTxn /\ TableStep => FreshTxn'
<1> SUFFICES ASSUME FreshTxn, TableStep PROVE FreshTxn'
  OBVIOUS
<1> USE DEF FreshTxn
<1>1. CASE Kept
  BY <1>1 DEF Kept
<1>2. CASE Posted
  BY <1>2 DEF Posted
<1>3. ASSUME NEW id \in RunId, Committed(id) PROVE FreshTxn'
  BY <1>3 DEF Committed
<1>4. CASE Delivered
  BY <1>4 DEF Delivered
<1>5. ASSUME NEW id \in RunId, Started(id) PROVE FreshTxn'
  BY <1>5 DEF Started
<1> QED
  BY <1>1, <1>2, <1>3, <1>4, <1>5 DEF TableStep

\* Running runs of equal priority are kept apart by every kind of step.  The
\* start is the step to look at: the row that is started was compared with
\* all rows of its own or a higher priority, the running ones among them.
LEMMA ExclusionStep ==
  TypeOK /\ FreshTxn /\ EqualPriorityExclusion /\ TableStep => EqualPriorityExclusion'
<1> SUFFICES ASSUME TypeOK, FreshTxn, EqualPriorityExclusion, TableStep,
                    NEW i \in DOMAIN run', NEW j \in DOMAIN run', i # j,
                    run'[i].state = "running", run'[j].state = "running",
                    run'[i].prio = run'[j].prio, Incompatible(run'[i], run'[j])
             PROVE  ~Overlap(run'[i], run'[j])
  BY DEF EqualPriorityExclusion
<1>0. \A id \in DOMAIN run : run[id] \in Row
  BY DEF TypeOK, TableTypeOK
<1>1. CASE Kept
  <2>1. /\ i \in DOMAIN run /\ j \in DOMAIN run
        /\ RowMoves(run[i], run'[i]) /\ RowMoves(run[j], run'[j])
        /\ run[i].state = "running" /\ run[j].state = "running"
    BY <1>1 DEF Kept, RowKeeps
  <2> QED
    BY <2>1, SamePlace DEF EqualPriorityExclusion
<1>2. CASE Posted
  BY <1>2 DEF Posted, EqualPriorityExclusion
<1>3. ASSUME NEW id \in RunId, Committed(id) PROVE ~Overlap(run'[i], run'[j])
  <2>1. i # id /\ j # id
    BY <1>3 DEF Committed, FreshTxn
  <2> QED
    BY <1>3, <2>1 DEF Committed, EqualPriorityExclusion
<1>4. CASE Delivered
  <2>1. i # nextId /\ j # nextId
    BY <1>4 DEF Delivered
  <2> QED
    BY <1>4, <2>1 DEF Delivered, EqualPriorityExclusion
<1>5. ASSUME NEW id \in RunId, Started(id) PROVE ~Overlap(run'[i], run'[j])
  <2>1. i \in DOMAIN run /\ j \in DOMAIN run
    BY <1>5 DEF Started
  <2>2. RowMoves(run[i], run'[i]) /\ RowMoves(run[j], run'[j])
    BY <1>0, <1>5, <2>1, SameMoves DEF Started, RowKeeps
  <2>3. /\ Incompatible(run[i], run[j])
        /\ Overlap(run'[i], run'[j]) <=> Overlap(run[i], run[j])
        /\ run[i].prio = run[j].prio
    BY <2>2, SamePlace
  <2>4. run[i].prio \in Int /\ run[j].prio \in Int
    BY <1>0, <2>1 DEF Row
  <2>5. CASE i # id /\ j # id
    BY <1>5, <2>1, <2>5 DEF Started, EqualPriorityExclusion
  <2>6. CASE i = id
    <3>1. ~Blocks(run[j], run[i])
      BY <1>5, <2>1, <2>3, <2>6 DEF Started, run_can_proceed, Incompatible
    <3>2. run[j].state = "running"
      BY <1>5, <2>1, <2>6 DEF Started
    <3>3. ~Overlap(run[j], run[i])
      BY <2>3, <2>4, <3>1, <3>2 DEF Blocks, Conflictable, Incompatible
    <3> QED
      BY <2>3, <3>3, Symmetric
  <2>7. CASE j = id
    <3>1. ~Blocks(run[i], run[j])
      BY <1>5, <2>1, <2>3, <2>7 DEF Started, run_can_proceed, Incompatible
    <3>2. run[i].state = "running"
      BY <1>5, <2>1, <2>7 DEF Started
    <3> QED
      BY <2>3, <2>4, <3>1, <3>2, Symmetric DEF Blocks, Conflictable, Incompatible
  <2> QED
    BY <2>5, <2>6, <2>7
<1> QED
  BY <1>1, <1>2, <1>3, <1>4, <1>5 DEF TableStep

\* However inserts, starts, crashes and cancellations interleave, no two runs
\* of equal priority that must be kept apart run with overlapping times.
THEOREM Exclusion == Spec => []EqualPriorityExclusion
<1>1. Init => FreshTxn /\ EqualPriorityExclusion
  BY DEF Init, TableInit, FreshTxn, EqualPriorityExclusion
<1>2. TypeOK /\ FreshTxn /\ EqualPriorityExclusion /\ [Next]_vars
        => FreshTxn' /\ EqualPriorityExclusion'
  BY TableSteps, FreshStep, ExclusionStep
<1> QED
  BY <1>1, <1>2, TypeCorrect, PTL DEF Spec
-----------------------------------------------------------------------------
\* A state that is over is only left for another one that is, and nothing
\* goes back from running (run_state_transition_is_valid).
LEMMA OneWay ==
  ASSUME NEW s \in States, NEW u \in States, run_state_transition_is_valid(s, u)
  PROVE  /\ s \in Finished => u \in Finished
         /\ s = "running" => u \notin {"pending", "on_deck"}
BY DEF run_state_transition_is_valid, Successors

\* Each kind of step of the table moves every run along its life.
LEMMA LifeStep ==
  ASSUME TypeOK, TypeOK', FreshTxn, TableStep, NEW id \in RunId
  PROVE  Stage(id)' \in Life!MayBecome[Stage(id)]
<1> USE DEF Stage, Life!MayBecome
<1>0. /\ \A i \in DOMAIN run : run[i] \in Row /\ run[i].state \in States
      /\ \A i \in DOMAIN run' : run'[i] \in Row /\ run'[i].state \in States
      /\ DOMAIN run \cap DOMAIN txn = {}
      /\ \A i \in DOMAIN run \cup DOMAIN txn : i < nextId
      /\ nextId \in Int /\ id \in Int
  BY Constants DEF TypeOK, TableTypeOK, Row
<1>1. CASE Kept
  <2>1. CASE id \in DOMAIN run'
    <3>1. id \in DOMAIN run /\ run_state_transition_is_valid(run[id].state, run'[id].state)
      BY <1>1, <2>1 DEF Kept, RowKeeps, RowMoves
    <3>2. /\ run[id].state \in Finished => run'[id].state \in Finished
          /\ run[id].state = "running" => run'[id].state \notin {"pending", "on_deck"}
      BY <1>0, <2>1, <3>1, OneWay
    <3> QED
      BY <1>0, <2>1, <3>1, <3>2
  <2>2. CASE id \notin DOMAIN run'
    <3>1. UNCHANGED <<txn, nextId>>
      BY <1>1 DEF Kept
    <3> QED
      BY <1>0, <1>1, <2>2, <3>1
  <2> QED
    BY <2>1, <2>2
<1>2. CASE Posted
  BY <1>0, <1>2 DEF Posted
<1>3. ASSUME NEW i \in RunId, Committed(i)
      PROVE  Stage(id)' \in Life!MayBecome[Stage(id)]
  <2>1. CASE i = id
    <3>1. Stage(id) = "none"
      BY <1>0, <1>3, <2>1 DEF Committed
    <3>2. run'[id].state \in {"pending", "nonstart"} /\ id \in DOMAIN run'
      BY <1>3, <2>1 DEF Committed, FreshTxn
    <3> QED
      BY <3>1, <3>2
  <2>2. CASE i # id
    BY <1>0, <1>3, <2>2 DEF Committed
  <2> QED
    BY <2>1, <2>2
<1>4. CASE Delivered
  <2>1. CASE id = nextId
    <3>1. id \in DOMAIN run' /\ run'[id].state = "finished"
      BY <1>4, <2>1 DEF Delivered
    <3>2. Stage(id) = "none"
      BY <1>0, <2>1
    <3> QED
      BY <3>1, <3>2
  <2>2. CASE id # nextId
    BY <1>0, <1>4, <2>2 DEF Delivered
  <2> QED
    BY <2>1, <2>2
<1>5. ASSUME NEW i \in RunId, Started(i)
      PROVE  Stage(id)' \in Life!MayBecome[Stage(id)]
  <2>1. CASE i = id
    <3>1. /\ id \in DOMAIN run /\ id \in DOMAIN run'
          /\ run_state_transition_is_valid(run[id].state, run'[id].state)
      BY <1>5, <2>1 DEF Started, RowMoves
    <3>2. /\ run[id].state \in Finished => run'[id].state \in Finished
          /\ run[id].state = "running" => run'[id].state \notin {"pending", "on_deck"}
      BY <1>0, <3>1, OneWay
    <3> QED
      BY <1>0, <3>1, <3>2
  <2>2. CASE i # id
    BY <1>0, <1>5, <2>2 DEF Started
  <2> QED
    BY <2>1, <2>2
<1> QED
  BY <1>1, <1>2, <1>3, <1>4, <1>5 DEF TableStep

\* The table and the runner implement the abstract life of a run: initial
\* states map to initial states, and every step maps to a step or a stutter.
THEOREM Refinement == Spec => LifeSpec
<1>1. Init => Life!Init
  BY Constants DEF Init, TableInit, Life!Init, Stage
<1>2. TypeOK /\ TypeOK' /\ FreshTxn /\ [Next]_vars => [Life!Next]_([id \in RunId |-> Stage(id)])
  <2> SUFFICES ASSUME TypeOK, TypeOK', FreshTxn, [Next]_vars PROVE Life!Next
    OBVIOUS
  <2>1. \A id \in RunId : Stage(id)' \in Life!MayBecome[Stage(id)]
    BY TableSteps, LifeStep
  <2>2. \A id \in RunId : Stage(id)' \in Life!Stages
    BY DEF Stage, Life!Stages
  <2> QED
    BY <2>1, <2>2 DEF Life!Next
<1>3. Init => FreshTxn
  BY DEF Init, TableInit, FreshTxn
<1>4. TypeOK /\ FreshTxn /\ [Next]_vars => FreshTxn'
  BY TableSteps, FreshStep
<1> QED
  BY <1>1, <1>2, <1>3, <1>4, TypeCorrect, PTL DEF Spec, LifeSpec, Life!Spec
-----------------------------------------------------------------------------
\* Two rows that must be kept apart and have the same priority do not overlap,
\* unless one of them never counted.  It holds of rows that are over, too.
Clear(p, q) ==
  p.state # "nonstart" /\ q.state # "nonstart" /\ p.prio = q.prio /\ Incompatible(p, q)
    => ~Overlap(p, q)

\* Rows are clear of each other unless their inserts raced, and all rows that are
\* not visible yet have raced.
ClearOrRaced(p, i, q, j) == Raced(p, i, q, j) \/ Clear(p, q)

ClearTable  == \A i, j \in DOMAIN run : i # j => ClearOrRaced(run[i], i, run[j], j)
ClearInsert == \A i \in DOMAIN txn, j \in DOMAIN run : ClearOrRaced(txn[i], i, run[j], j)
RacedInsert == \A i, j \in DOMAIN txn : i # j => Raced(txn[i], i, txn[j], j)

Booked == RacedInsert /\ ClearInsert /\ ClearTable

\* Steps other than inserting and committing leave rows in progress where
\* they are, and add none.
LEMMA InProgressStays ==
  ASSUME TypeOK, TypeOK', TableStep, ~Posted, \A id \in RunId : ~Committed(id)
  PROVE  /\ UNCHANGED txn
         /\ \A i \in DOMAIN run' :
              run'[i].state \in Unfinished
                => /\ i \in DOMAIN run
                   /\ run[i].state \in Unfinished
                   /\ RowMoves(run[i], run'[i])
<1>0. /\ \A i \in DOMAIN run : run[i] \in Row /\ run[i].state \in States
      /\ \A i \in DOMAIN run' : run'[i].state \in States
  BY DEF TypeOK, TableTypeOK, Row
<1>1. UNCHANGED txn
  BY DEF TableStep, Kept, Delivered, Started
<1>2. ASSUME NEW i \in DOMAIN run', run'[i].state \in Unfinished
      PROVE  i \in DOMAIN run /\ RowMoves(run[i], run'[i])
  <2>1. CASE Kept
    BY <1>2, <2>1 DEF Kept, RowKeeps
  <2>2. CASE Delivered
    BY <1>0, <1>2, <2>2, SameMoves DEF Delivered, RowKeeps
  <2>3. ASSUME NEW id \in RunId, Started(id)
        PROVE  i \in DOMAIN run /\ RowMoves(run[i], run'[i])
    BY <1>0, <1>2, <2>3, SameMoves DEF Started, RowKeeps
  <2> QED
    BY <2>1, <2>2, <2>3 DEF TableStep
<1>3. ASSUME NEW i \in DOMAIN run', run'[i].state \in Unfinished
      PROVE  run[i].state \in Unfinished
  <2>1. run_state_transition_is_valid(run[i].state, run'[i].state) /\ i \in DOMAIN run
    BY <1>2, <1>3 DEF RowMoves
  <2> QED
    BY <1>0, <1>3, <2>1, OneWay
<1> QED
  BY <1>1, <1>2, <1>3

\* Rows that change, and rows that stay, remain clear of each other: they keep
\* their place or are cut short.
LEMMA ClearMoves ==
  ASSUME NEW p, NEW q, NEW p2, NEW q2, RowMoves(p, p2), RowMoves(q, q2),
         p.hi \in Int, p2.hi \in Int, q.hi \in Int, q2.hi \in Int,
         p.lo \in Int, q.lo \in Int, NEW i, NEW j, ClearOrRaced(p, i, q, j)
  PROVE  ClearOrRaced(p2, i, q2, j)
<1>1. Overlap(p2, q2) => Overlap(p, q)
  BY DEF RowMoves, Overlap, Precedes
<1>2. Incompatible(p2, q2) <=> Incompatible(p, q)
  BY DEF RowMoves, Incompatible
<1> QED
  BY <1>1, <1>2 DEF RowMoves, Clear, ClearOrRaced, Raced

\* Which of the two comes first makes no difference.
LEMMA ClearEither ==
  ASSUME NEW p, NEW q, NEW i, NEW j
  PROVE  ClearOrRaced(p, i, q, j) <=> ClearOrRaced(q, j, p, i)
BY Symmetric DEF Clear, ClearOrRaced, Raced

\* Every kind of step keeps the schedule free of double bookings but those.
LEMMA BookedStep ==
  ASSUME TypeOK, TypeOK', FreshTxn, Booked, TableStep
  PROVE  Booked'
<1>0. /\ DOMAIN txn \subseteq RunId
      /\ \A id \in DOMAIN run : run[id] \in Row /\ id < nextId
      /\ \A id \in DOMAIN txn : txn[id] \in Row /\ id < nextId
      /\ \A id \in DOMAIN txn' : txn'[id] \in Row
      /\ \A id \in DOMAIN run' : run'[id] \in Row
      /\ nextId \in Int
  BY Constants DEF TypeOK, TableTypeOK
<1>1. CASE Posted
  <2>2. /\ DOMAIN txn' = DOMAIN txn \cup {nextId} /\ UNCHANGED run
        /\ \A i \in DOMAIN txn : i # nextId /\ txn'[i] = txn[i]
        /\ txn'[nextId].beside = DOMAIN txn
    BY <1>0, <1>1 DEF Posted
  <2>3. ASSUME NEW j \in DOMAIN run PROVE Clear(txn'[nextId], run[j])
    <3> SUFFICES ASSUME txn'[nextId].state # "nonstart", run[j].state # "nonstart",
                        txn'[nextId].prio = run[j].prio, Incompatible(txn'[nextId], run[j])
                 PROVE  ~Overlap(txn'[nextId], run[j])
      BY DEF Clear
    <3>1. ~run_has_conflicts(run, txn'[nextId], now)
      BY <1>1 DEF Posted
    <3>2. ~Blocks(run[j], txn'[nextId])
      BY <3>1 DEF run_has_conflicts, Incompatible
    <3>3. run[j].prio \in Int
      BY <1>0 DEF Row
    <3>4. ~Overlap(run[j], txn'[nextId])
      BY <3>2, <3>3 DEF Blocks, Conflictable, Incompatible
    <3> QED
      BY <3>4, Symmetric
  <2>4. \A i \in DOMAIN txn', j \in DOMAIN run : ClearOrRaced(txn'[i], i, run[j], j)
    BY <2>2, <2>3 DEF Booked, ClearInsert, ClearOrRaced
  <2>5. \A i, j \in DOMAIN txn' : i # j => Raced(txn'[i], i, txn'[j], j)
    BY <2>2 DEF Booked, RacedInsert, Raced
  <2>6. ClearInsert'
    BY <2>2, <2>4 DEF ClearInsert, ClearOrRaced, Clear, Raced
  <2>7. RacedInsert'
    BY <2>5 DEF RacedInsert, Raced
  <2> QED
    BY <2>2, <2>6, <2>7 DEF Booked, ClearTable
<1>2. ASSUME NEW id \in RunId, Committed(id) PROVE Booked'
  <2>1. /\ DOMAIN txn' = DOMAIN txn \ {id} /\ id \in DOMAIN txn
        /\ \A i \in DOMAIN txn' : txn'[i] = txn[i]
    BY <1>2 DEF Committed
  <2>2. ASSUME NEW i \in DOMAIN run', NEW j \in DOMAIN run', i # j
        PROVE  ClearOrRaced(run'[i], i, run'[j], j)
    <3>1. CASE i # id /\ j # id
      BY <1>2, <2>2, <3>1 DEF Committed, Booked, ClearTable
    <3>2. CASE i = id
      BY <1>2, <2>2, <3>2 DEF Committed, Booked, ClearInsert
    <3>3. CASE j = id
      <4>1. ClearOrRaced(run'[j], j, run'[i], i)
        BY <1>2, <2>2, <3>3 DEF Committed, Booked, ClearInsert
      <4> QED
        BY <4>1, ClearEither
    <3> QED
      BY <3>1, <3>2, <3>3
  <2>3. ClearTable'
    BY <2>2 DEF ClearTable, ClearOrRaced, Clear, Raced
  <2>4. ASSUME NEW i \in DOMAIN txn', NEW j \in DOMAIN run'
        PROVE  ClearOrRaced(txn'[i], i, run'[j], j)
    <3>1. CASE j = id
      BY <1>2, <2>1, <3>1 DEF Committed, Booked, RacedInsert, ClearOrRaced
    <3>2. CASE j # id
      BY <1>2, <2>1, <3>2 DEF Committed, Booked, ClearInsert
    <3> QED
      BY <3>1, <3>2
  <2>5. ClearInsert'
    BY <2>4 DEF ClearInsert, ClearOrRaced, Clear, Raced
  <2>6. RacedInsert'
    BY <2>1 DEF Booked, RacedInsert, Raced
  <2> QED
    BY <2>3, <2>5, <2>6 DEF Booked
<1>3. CASE Delivered
  <2>1. ASSUME NEW p, NEW j PROVE /\ ClearOrRaced(run'[nextId], nextId, p, j)
                                 /\ ClearOrRaced(p, j, run'[nextId], nextId)
    BY <1>3 DEF Delivered, ClearOrRaced, Clear, Incompatible
  <2>2. \A i \in DOMAIN run' : i # nextId => i \in DOMAIN run /\ run'[i] = run[i]
    BY <1>3 DEF Delivered
  <2>3. UNCHANGED txn
    BY <1>3 DEF Delivered
  <2>4. \A i, j \in DOMAIN run' : i # j => ClearOrRaced(run'[i], i, run'[j], j)
    BY <2>1, <2>2 DEF Booked, ClearTable
  <2>5. \A i \in DOMAIN txn, j \in DOMAIN run' : ClearOrRaced(txn[i], i, run'[j], j)
    BY <2>1, <2>2 DEF Booked, ClearInsert
  <2>6. ClearTable'
    BY <2>4 DEF ClearTable, ClearOrRaced, Clear, Raced
  <2>7. ClearInsert'
    BY <2>3, <2>5 DEF ClearInsert, ClearOrRaced, Clear, Raced
  <2> QED
    BY <2>3, <2>6, <2>7 DEF Booked, RacedInsert, Raced
<1>4. CASE Kept \/ \E id \in RunId : Started(id)
  <2>1. /\ UNCHANGED txn
        /\ \A i \in DOMAIN run' : i \in DOMAIN run /\ RowMoves(run[i], run'[i])
    <3>1. CASE Kept
      BY <3>1 DEF Kept, RowKeeps
    <3>2. ASSUME NEW id \in RunId, Started(id)
          PROVE  /\ UNCHANGED txn
                 /\ \A i \in DOMAIN run' : i \in DOMAIN run /\ RowMoves(run[i], run'[i])
      BY <1>0, <3>2, SameMoves DEF Started, RowKeeps
    <3> QED
      BY <1>4, <3>1, <3>2
  <2>2. /\ \A i \in DOMAIN run : run[i].hi \in Int /\ run[i].lo \in Int
        /\ \A i \in DOMAIN run' : run'[i].hi \in Int
        /\ \A i \in DOMAIN txn : txn[i].hi \in Int /\ txn[i].lo \in Int
        /\ \A i \in DOMAIN txn : RowMoves(txn[i], txn[i])
    <3>1. \A row \in Row : row.hi \in Int /\ row.lo \in Int
      BY DEF Row
    <3>2. \A row \in Row : RowMoves(row, row)
      BY SameMoves DEF RowKeeps
    <3> HIDE DEF RowMoves
    <3> QED
      BY <1>0, <3>1, <3>2
  <2>3. \A i, j \in DOMAIN run' : i # j => ClearOrRaced(run'[i], i, run'[j], j)
    BY <2>1, <2>2, ClearMoves DEF Booked, ClearTable
  <2>4. \A i \in DOMAIN txn, j \in DOMAIN run' : ClearOrRaced(txn[i], i, run'[j], j)
    BY <2>1, <2>2, ClearMoves DEF Booked, ClearInsert
  <2>5. ClearTable'
    BY <2>3 DEF ClearTable, ClearOrRaced, Clear, Raced
  <2>6. ClearInsert'
    BY <2>1, <2>4 DEF ClearInsert, ClearOrRaced, Clear, Raced
  <2> QED
    BY <2>1, <2>5, <2>6 DEF Booked, RacedInsert, Raced
<1> QED
  BY <1>1, <1>2, <1>3, <1>4 DEF TableStep

\* However many inserts are in progress, and whatever is posted, deleted, cut short
\* or purged, the schedule is double booked by none but two inserts of which neither
\* could see the other (the check at the end of run_alter, run.sql:546-564).
THEOREM Booking == Spec => []DoublyBookedOnlyInRace
<1>1. Init => FreshTxn /\ Booked
  BY DEF Init, TableInit, FreshTxn, Booked, RacedInsert, ClearInsert, ClearTable
<1>2. TypeOK /\ TypeOK' /\ FreshTxn /\ Booked /\ [Next]_vars => FreshTxn' /\ Booked'
  BY TableSteps, FreshStep, BookedStep
<1>3. Booked => DoublyBookedOnlyInRace
  BY DEF Booked, ClearTable, ClearOrRaced, Clear, DoublyBookedOnlyInRace, DoublyBooked
<1> QED
  BY <1>1, <1>2, <1>3, TypeCorrect, PTL DEF Spec

\* What a run may be turned away for when it is to be started.
InTheWay(id, o) ==
  /\ Incompatible(run[id], run[o])
  /\ Overlap(run[id], run[o])
  /\ \/ run[o].prio > run[id].prio
     \/ run[o].prio = run[id].prio /\ Raced(run[id], id, run[o], o)

\* Where a run is turned away when it was to be started, something of its own
\* or a higher priority is in its way, and its own takes a race.
LEMMA PreemptedStep ==
  ASSUME TypeOK, Booked, TableStep, NEW id \in DOMAIN run, id \in DOMAIN run',
         run[id].state # "preempted", run'[id].state = "preempted"
  PROVE  \E o \in DOMAIN run : InTheWay(id, o)
<1>0. /\ \A i \in DOMAIN run : run[i] \in Row /\ run[i].prio \in Int /\ i < nextId
      /\ DOMAIN run \cap DOMAIN txn = {}
      /\ nextId \in Int
  BY Constants DEF TypeOK, TableTypeOK, Row
<1>1. Started(id)
  <2>1. ~Kept
    BY DEF Kept, RowKeeps
  <2>2. run'[id] # run[id]
    OBVIOUS
  <2>3. ~Posted /\ ~Delivered /\ \A i \in RunId : ~Committed(i)
    BY <1>0, <2>2 DEF Posted, Delivered, Committed
  <2>4. \A i \in RunId : Started(i) => i = id
    BY <2>2 DEF Started
  <2> QED
    BY <2>1, <2>3, <2>4 DEF TableStep
<1>2. PICK o \in DOMAIN run \ {id} : Blocks(run[o], run[id])
  BY <1>1 DEF Started, run_can_proceed
<1>3. /\ run[o].state # "nonstart" /\ Incompatible(run[id], run[o])
      /\ Overlap(run[o], run[id]) /\ run[o].prio >= run[id].prio
  BY <1>2 DEF Blocks, Conflictable
<1>4. Overlap(run[id], run[o])
  BY <1>3, Symmetric
<1>5. run[id].state # "nonstart"
  BY <1>1 DEF Started, RowMoves
<1>6. run[o].prio = run[id].prio => Raced(run[id], id, run[o], o)
  BY <1>2, <1>3, <1>4, <1>5 DEF Booked, ClearTable, ClearOrRaced, Clear
<1> QED
  BY <1>0, <1>3, <1>4, <1>6 DEF InTheWay

\* No run loses to one of its own priority when it is to be started, even to one that
\* is long over, unless their inserts raced (run_state.sql:204, run.sql:643-698).
THEOREM Preemption == Spec => PreemptedByHigher
<1>1. Init => FreshTxn /\ Booked
  BY DEF Init, TableInit, FreshTxn, Booked, RacedInsert, ClearInsert, ClearTable
<1>2. TypeOK /\ TypeOK' /\ FreshTxn /\ Booked /\ [Next]_vars => FreshTxn' /\ Booked'
  BY TableSteps, FreshStep, BookedStep
<1>3. TypeOK /\ Booked /\ [Next]_vars
        => [\A id \in DOMAIN run \cap DOMAIN run' :
              run[id].state # "preempted" /\ run'[id].state = "preempted"
              => \E o \in DOMAIN run :
                   /\ Incompatible(run[id], run[o])
                   /\ Overlap(run[id], run[o])
                   /\ \/ run[o].prio > run[id].prio
                      \/ run[o].prio = run[id].prio /\ Raced(run[id], id, run[o], o)]_vars
  BY TableSteps, PreemptedStep DEF InTheWay
<1> QED
  BY <1>1, <1>2, <1>3, TypeCorrect, PTL DEF Spec, PreemptedByHigher
-----------------------------------------------------------------------------
\* A run in progress does not end before it starts.
InOrder ==
  /\ \A id \in DOMAIN run : run[id].state \in Unfinished => run[id].lo <= run[id].hi
  /\ \A id \in DOMAIN txn : txn[id].lo <= txn[id].hi

\* Neither inserting a run nor cutting it short turns its times around.
LEMMA InOrderStep ==
  ASSUME TypeOK, TypeOK', InOrder, TableStep
  PROVE  InOrder'
<1>0. /\ \A id \in DOMAIN run : run[id] \in Row
      /\ \A id \in DOMAIN txn : id < nextId
      /\ nextId \in Int
  BY DEF TypeOK, TableTypeOK
<1>1. CASE Posted
  BY <1>0, <1>1 DEF Posted, InOrder
<1>2. ASSUME NEW id \in RunId, Committed(id) PROVE InOrder'
  BY <1>2 DEF Committed, InOrder
<1>3. CASE ~Posted /\ \A id \in RunId : ~Committed(id)
  BY <1>3, InProgressStays DEF InOrder, RowMoves
<1> QED
  BY <1>1, <1>2, <1>3

\* What the purge takes is over, if it waits at least as long as it takes to
\* tell that a run was missed or is overdue: the straggling runs are marked
\* before the purge, in the same transaction.
LEMMA PurgeStep ==
  ASSUME RunStraggle <= KeepRuns + KeepActive, TypeOK, InOrder, RunMaint,
         NEW id \in DOMAIN run \ DOMAIN run'
  PROVE  Straggled(run[id]).state \in Finished
<1>0. /\ now \in Nat
      /\ run[id] \in Row /\ run[id].lo \in Nat /\ run[id].hi \in Nat
      /\ run[id].state \in States
      /\ RunStraggle \in Nat /\ KeepRuns \in Nat /\ KeepActive \in Nat
  BY Constants, TableAssumption DEF TypeOK, TableTypeOK, Row
<1>1. Purged(Straggled(run[id]))
  BY DEF RunMaint, Only
<1> SUFFICES ASSUME Straggled(run[id]).state \in Unfinished PROVE FALSE
  <2>1. Straggled(run[id]) \in Row
    BY <1>0, AlteredRow DEF Straggled
  <2> QED
    BY <2>1 DEF Row
<1>2. /\ Altered(run[id], "missed").state \notin Unfinished
      /\ Altered(run[id], "overdue").state \notin Unfinished
  BY <1>0, AlteredRow
<1>3. Straggled(run[id]) = run[id]
  BY <1>2 DEF Straggled
<1>4. run[id].hi < now - KeepRuns - KeepActive
  BY <1>1, <1>3 DEF Purged
<1>5. run[id].lo <= run[id].hi
  BY <1>3 DEF InOrder
<1>6. run[id].lo < now - RunStraggle /\ run[id].hi < now - RunStraggle
  BY <1>0, <1>4, <1>5
<1> QED
  BY <1>2, <1>3, <1>6 DEF Straggled

\* Provided the limits are set that way (the defaults are 30 seconds against
\* two days and an hour), maintenance never takes a run off the table that
\* is still in progress.
THEOREM Purge ==
  ASSUME RunStraggle <= KeepRuns + KeepActive
  PROVE  Spec => PurgeOnlyFinished
<1>1. Init => InOrder
  BY DEF Init, TableInit, InOrder
<1>2. TypeOK /\ TypeOK' /\ InOrder /\ [Next]_vars => InOrder'
  BY TableSteps, InOrderStep
<1>3. TypeOK /\ InOrder /\ [Next]_vars
        => [Maint => \A id \in DOMAIN run \ DOMAIN run' :
                       run_state_is_finished(Straggled(run[id]).state)]_vars
  BY PurgeStep DEF Maint, run_state_is_finished
<1> QED
  BY <1>1, <1>2, <1>3, TypeCorrect, PTL DEF Spec, PurgeOnlyFinished
-----------------------------------------------------------------------------
(***************************************************************************)
(* One tool for each run.  A worker registers its run in run_dict only     *)
(* when it gets going; until then nothing but the UPDATE that puts the run *)
(* on deck keeps the main loop from making another worker for it.  So this *)
(* is about runs that the UPDATE did put on deck, whatever becomes of the  *)
(* UPDATEs for others.                                                     *)
(***************************************************************************)

\* No run will get this id any more.  The one that had it is not pending
\* (Claimed), nor running either (Quiet), or if it is pending its UPDATE will not
\* be turned away (Ready).
Owned(id) == id < nextId /\ id \notin DOMAIN txn
Claimed(id) == Owned(id) /\ (id \in DOMAIN run => run[id].state # "pending")
Quiet(id) == Claimed(id) /\ (id \in DOMAIN run => run[id].state # "running")
Ready(id) ==
  /\ Owned(id)
  /\ id \in DOMAIN run /\ run[id].state = "pending"
       => run[id].pdf \/ multi(run[id].task)

Active(t) == worker[t].pc # "idle"
Free(id) == \A t \in Thread : Active(t) => worker[t].id # id

\* Runs with a worker were claimed, each by one worker or the main loop, unless they
\* were not put on deck.  What a worker does not keep from being selected again by
\* registering it, its state does.
Single ==
  /\ \A t \in Thread : Active(t) /\ worker[t].id \notin undecked =>
       /\ Claimed(worker[t].id)
       /\ worker[t].pc = "started" => Quiet(worker[t].id)
       /\ worker[t].pc # "started" => worker[t].id \in run_dict
  /\ \A t, u \in Thread :
       t # u /\ Active(t) /\ Active(u) /\ worker[t].id \notin undecked
         => worker[t].id # worker[u].id
  /\ \A id \in DOMAIN picked :
       /\ phase = "on_deck" => Ready(id)
       /\ id \notin undecked => Owned(id) /\ Free(id) /\ (phase = "starting" => Quiet(id))
  /\ phase \in {"down", "waiting"} => DOMAIN picked = {}

\* The trigger does not turn away the UPDATE of a run that may be selected: it
\* has all data, which it got when it was within the horizon, and a horizon
\* that gets shorter takes the runs beyond it off the table.
NotTooFar ==
  /\ \A id \in DOMAIN run :
       run[id].state = "pending" /\ run[id].pdf => WithinHorizon(run[id].task, run[id].lo)
  /\ \A id \in DOMAIN txn : ~txn[id].pdf

\* No state but pending leads to pending.
LEMMA NeverPendingAgain ==
  ASSUME NEW s \in States, run_state_transition_is_valid(s, "pending")
  PROVE  s = "pending"
BY DEF run_state_transition_is_valid, Successors

\* A claimed run stays claimed, and ids are not used again.
LEMMA ClaimedStays ==
  ASSUME TypeOK, TableStep, NEW id \in RunId
  PROVE  /\ Owned(id) => Owned(id)'
         /\ Claimed(id) => Claimed(id)'
         /\ Ready(id) => Ready(id)'
<1>1. /\ nextId \in Int /\ id \in Int
      /\ \A i \in DOMAIN run : run[i].state \in States
  BY Constants DEF TypeOK, TableTypeOK, Row
<1>2. CASE Kept
  BY <1>1, <1>2, NeverPendingAgain DEF Kept, RowKeeps, RowMoves, Owned, Claimed, Ready
<1>3. CASE Posted
  BY <1>1, <1>3 DEF Posted, Owned, Claimed, Ready
<1>4. ASSUME NEW i \in RunId, Committed(i)
      PROVE  /\ Owned(id) => Owned(id)'
             /\ Claimed(id) => Claimed(id)'
             /\ Ready(id) => Ready(id)'
  BY <1>4 DEF Committed, Owned, Claimed, Ready
<1>5. CASE Delivered
  BY <1>1, <1>5 DEF Delivered, Owned, Claimed, Ready
<1>6. ASSUME NEW i \in RunId, Started(i)
      PROVE  /\ Owned(id) => Owned(id)'
             /\ Claimed(id) => Claimed(id)'
             /\ Ready(id) => Ready(id)'
  BY <1>1, <1>6, NeverPendingAgain DEF Started, RowMoves, Owned, Claimed, Ready
<1> QED
  BY <1>2, <1>3, <1>4, <1>5, <1>6 DEF TableStep

\* Only its own worker makes a run running.
LEMMA QuietStays ==
  ASSUME TypeOK, TableStep, NEW id \in RunId, Quiet(id),
         \A t \in Thread : worker[t].pc = "sleeping" => worker[t].id # id
  PROVE  Quiet(id)'
<1>1. /\ nextId \in Int /\ id \in Int
      /\ Claimed(id)'
  BY Constants, ClaimedStays DEF TypeOK, TableTypeOK, Quiet
<1>2. CASE Kept
  BY <1>1, <1>2 DEF Kept, RowKeeps, Quiet
<1>3. CASE Posted
  BY <1>1, <1>3 DEF Posted, Quiet
<1>4. ASSUME NEW i \in RunId, Committed(i) PROVE Quiet(id)'
  BY <1>1, <1>4 DEF Committed, Owned, Claimed, Quiet
<1>5. CASE Delivered
  BY <1>1, <1>5 DEF Delivered, Quiet
<1>6. ASSUME NEW i \in RunId, Started(i) PROVE Quiet(id)'
  BY <1>1, <1>6 DEF Started, Quiet
<1> QED
  BY <1>2, <1>3, <1>4, <1>5, <1>6 DEF TableStep

\* The clock does not go back.
LEMMA ClockStep ==
  ASSUME TypeOK, [Next]_vars
  PROVE  now \in Nat /\ now' \in Nat /\ now <= now'
<1>1. now \in Nat
  BY Constants DEF TypeOK, TableTypeOK
<1>2. CASE UNCHANGED vars
  BY <1>1, <1>2 DEF vars, tableVars
<1>3. ASSUME Request PROVE UNCHANGED now
  <2>1. \A tk, s, p, f : RunPost(tk, s, p, f) => UNCHANGED now
    BY DEF RunPost
  <2>2. \A id : RunCommit(id) \/ PutPartDataFull(id) \/ DeleteRun(id) => UNCHANGED now
    BY DEF RunCommit, PutPartDataFull, DeleteRun
  <2>3. \A id, b : PutResultFull(id, b) => UNCHANGED now
    BY DEF PutResultFull
  <2>4. \A tk : TaskDisable(tk) => UNCHANGED now
    BY DEF TaskDisable
  <2> QED
    BY <1>3, <2>1, <2>2, <2>3, <2>4 DEF Request
<1>4. ASSUME Operator \/ Maint \/ Clock PROVE UNCHANGED now \/ now' = now + 1
  <2>1. \A h : HorizonChange(h) => UNCHANGED now
    BY DEF HorizonChange
  <2>2. (Pause \/ Resume \/ RunMaint => UNCHANGED now) /\ (Tick => now' = now + 1)
    BY DEF Pause, Resume, RunMaint, Tick
  <2> QED
    BY <1>4, <2>1, <2>2 DEF Operator, Maint, Clock
<1>5. ASSUME Loop \/ Crash \/ Restart PROVE UNCHANGED now
  <2>1. LoopSelect \/ LoopOnDeck \/ Crash \/ Restart => UNCHANGED now
    BY DEF LoopSelect, LoopOnDeck, Crash, Restart, tableVars
  <2>2. \A t, id : LoopStart(t, id) => UNCHANGED now
    BY DEF LoopStart, tableVars
  <2> QED
    BY <1>5, <2>1, <2>2 DEF Loop
<1>6. ASSUME NEW t \in Thread, Work(t)
      PROVE  UNCHANGED now
  BY <1>6 DEF Work, WorkerBegin, WorkerStart, WorkerResult, WorkerStore, WorkerExit,
              WorkerMerge, WorkerDbFailure, WorkerStartLost, WorkerStoreLost, tableVars
<1> QED
  BY <1>1, <1>2, <1>3, <1>4, <1>5, <1>6 DEF Next

\* The horizon only changes where HorizonChange changes it.
LEMMA HorizonStep ==
  ASSUME [Next]_vars
  PROVE  UNCHANGED horizon \/ \E h \in Horizons : HorizonChange(h)
<1>1. CASE UNCHANGED vars
  BY <1>1 DEF vars, tableVars
<1>2. ASSUME Request PROVE UNCHANGED horizon
  <2>1. \A tk, s, p, f : RunPost(tk, s, p, f) => UNCHANGED horizon
    BY DEF RunPost
  <2>2. \A id : RunCommit(id) \/ PutPartDataFull(id) \/ DeleteRun(id) => UNCHANGED horizon
    BY DEF RunCommit, PutPartDataFull, DeleteRun
  <2>3. \A id, b : PutResultFull(id, b) => UNCHANGED horizon
    BY DEF PutResultFull
  <2>4. \A tk : TaskDisable(tk) => UNCHANGED horizon
    BY DEF TaskDisable
  <2> QED
    BY <1>2, <2>1, <2>2, <2>3, <2>4 DEF Request
<1>3. ASSUME Operator \/ Maint \/ Clock
      PROVE  UNCHANGED horizon \/ \E h \in Horizons : HorizonChange(h)
  <2>1. Pause \/ Resume \/ RunMaint \/ Tick => UNCHANGED horizon
    BY DEF Pause, Resume, RunMaint, Tick
  <2> QED
    BY <1>3, <2>1 DEF Operator, Maint, Clock
<1>4. ASSUME Loop \/ Crash \/ Restart PROVE UNCHANGED horizon
  <2>1. LoopSelect \/ LoopOnDeck \/ Crash \/ Restart => UNCHANGED horizon
    BY DEF LoopSelect, LoopOnDeck, Crash, Restart, tableVars
  <2>2. \A t, id : LoopStart(t, id) => UNCHANGED horizon
    BY DEF LoopStart, tableVars
  <2> QED
    BY <1>4, <2>1, <2>2 DEF Loop
<1>5. ASSUME NEW t \in Thread, Work(t) PROVE UNCHANGED horizon
  BY <1>5 DEF Work, WorkerBegin, WorkerStart, WorkerResult, WorkerStore, WorkerExit,
              WorkerMerge, WorkerDbFailure, WorkerStartLost, WorkerStoreLost, tableVars
<1> QED
  BY <1>1, <1>2, <1>3, <1>4, <1>5 DEF Next

\* A run that was near stays near: it only gets nearer, and a shorter horizon
\* leaves no run beyond it.
LEMMA StaysNear ==
  ASSUME TypeOK, TypeOK', InOrder, [Next]_vars,
         NEW id \in DOMAIN run, id \in DOMAIN run', run[id].state = "pending",
         WithinHorizon(run[id].task, run[id].lo), ~multi(run[id].task)
  PROVE  run[id].lo - now' <= horizon'
<1>1. /\ now \in Nat /\ now' \in Nat /\ now <= now'
      /\ horizon \in Nat /\ horizon' \in Nat /\ Horizons \subseteq Nat
      /\ run[id].lo \in Nat /\ run[id].hi \in Nat /\ run[id].task \in Task
  BY ClockStep, Constants DEF TypeOK, TableTypeOK, Row
<1>2. run[id].lo - now <= horizon
  BY <1>1 DEF WithinHorizon
<1>3. CASE UNCHANGED horizon
  BY <1>1, <1>2, <1>3
<1>4. ASSUME NEW h \in Horizons, HorizonChange(h)
      PROVE  run[id].lo - now' <= horizon'
  <2>1. horizon' = h /\ UNCHANGED now
    BY <1>4 DEF HorizonChange
  <2>2. CASE h < horizon
    <3>1. run[id].hi <= now + h
      BY <1>4, <2>2 DEF HorizonChange, Only
    <3>2. run[id].lo <= run[id].hi
      BY DEF InOrder
    <3> QED
      BY <1>1, <2>1, <3>1, <3>2
  <2>3. CASE ~(h < horizon)
    BY <1>1, <1>2, <2>1, <2>3
  <2> QED
    BY <2>2, <2>3
<1> QED
  BY <1>3, <1>4, HorizonStep

LEMMA NotTooFarStep ==
  ASSUME TypeOK, TypeOK', InOrder, NotTooFar, [Next]_vars
  PROVE  NotTooFar'
<1>1. /\ \A i \in DOMAIN run : run[i] \in Row /\ run[i].state \in States /\ i < nextId
      /\ \A i \in DOMAIN txn : i < nextId
      /\ nextId \in Int
      /\ DOMAIN run \cap DOMAIN txn = {}
  BY Constants DEF TypeOK, TableTypeOK, Row
<1>2. TableStep
  BY TableSteps
<1>3. \A i \in DOMAIN txn' : ~txn'[i].pdf
  <2>1. CASE Posted
    BY <2>1 DEF Posted, NotTooFar
  <2>2. CASE ~Posted
    BY <1>2, <2>2 DEF TableStep, Kept, Committed, Delivered, Started, NotTooFar
  <2> QED
    BY <2>1, <2>2
<1>4. ASSUME NEW i \in DOMAIN run', run'[i].state = "pending", run'[i].pdf
      PROVE  /\ i \in DOMAIN run /\ run[i].state = "pending"
             /\ WithinHorizon(run[i].task, run[i].lo)
             /\ run'[i].lo = run[i].lo /\ run'[i].task = run[i].task
  <2>1. i \in DOMAIN run /\ RowMoves(run[i], run'[i])
    <3>1. CASE Kept
      BY <3>1 DEF Kept, RowKeeps
    <3>2. CASE Posted
      BY <1>1, <3>2, SameMoves DEF Posted, RowKeeps
    <3>3. ASSUME NEW id \in RunId, Committed(id)
          PROVE  i \in DOMAIN run /\ RowMoves(run[i], run'[i])
      <4>1. i # id
        BY <1>4, <3>3 DEF Committed, NotTooFar
      <4>2. i \in DOMAIN run /\ run'[i] = run[i]
        BY <3>3, <4>1 DEF Committed
      <4> QED
        BY <1>1, <4>2, SameMoves DEF RowKeeps
    <3>4. CASE Delivered
      <4>1. i # nextId
        BY <1>4, <3>4 DEF Delivered
      <4>2. i \in DOMAIN run /\ run'[i] = run[i]
        BY <3>4, <4>1 DEF Delivered
      <4> QED
        BY <1>1, <4>2, SameMoves DEF RowKeeps
    <3>5. ASSUME NEW id \in RunId, Started(id)
          PROVE  i \in DOMAIN run /\ RowMoves(run[i], run'[i])
      BY <1>1, <3>5, SameMoves DEF Started, RowKeeps
    <3> QED
      BY <1>2, <3>1, <3>2, <3>3, <3>4, <3>5 DEF TableStep
  <2>2. run[i].state = "pending" /\ run'[i].lo = run[i].lo /\ run'[i].task = run[i].task
    BY <1>1, <1>4, <2>1, NeverPendingAgain DEF RowMoves
  <2>3. run[i].pdf \/ WithinHorizon(run[i].task, run[i].lo)
    BY <1>4, <2>1 DEF RowMoves
  <2> QED
    BY <2>1, <2>2, <2>3 DEF NotTooFar
<1>5. ASSUME NEW i \in DOMAIN run', run'[i].state = "pending", run'[i].pdf
      PROVE  WithinHorizon(run[i].task, run[i].lo)'
  <2>1. ~multi(run[i].task) => run[i].lo - now' <= horizon'
    BY <1>4, <1>5, StaysNear
  <2> QED
    BY <1>4, <1>5, <2>1 DEF WithinHorizon
<1> QED
  BY <1>3, <1>5 DEF NotTooFar

\* A step of a worker: it keeps its run, which it has registered then, or ends.
OneWorks(t) ==
  /\ UNCHANGED <<phase, picked, undecked>>
  /\ \A u \in Thread \ {t} : worker'[u] = worker[u]
  /\ run_dict \ {worker[t].id} \subseteq run_dict'
  /\ Active(t)' =>
       /\ Active(t) /\ worker'[t].id = worker[t].id /\ worker'[t].pc # "started"
       /\ worker[t].pc # "started" \/ worker[t].id \in run_dict'
       /\ run_dict \subseteq run_dict'

LEMMA WorkOfOne ==
  ASSUME TypeOK, NEW t \in Thread, Work(t)
  PROVE  OneWorks(t)
<1> USE DEF OneWorks
<1>1. worker \in [Thread -> WorkerType] /\ worker[t] \in WorkerType
  BY DEF TypeOK, RunnerTypeOK
<1>2. CASE Finish(t) /\ UNCHANGED <<phase, picked, undecked>>
  BY <1>1, <1>2, IdleType DEF Finish, Active
<1>3. ASSUME NEW pc \in Working \ {"started"}, worker[t].pc \notin {"idle", "started"},
             worker' = [worker EXCEPT ![t].pc = pc],
             UNCHANGED <<phase, picked, undecked, run_dict>>
      PROVE  OneWorks(t)
  <2>1. worker' = [worker EXCEPT ![t] = [worker[t] EXCEPT !.pc = pc]]
    BY <1>3
  <2>2. [worker[t] EXCEPT !.pc = pc].id = worker[t].id
        /\ [worker[t] EXCEPT !.pc = pc].pc = pc
    BY <1>1 DEF WorkerType
  <2> QED
    BY <1>1, <1>3, <2>1, <2>2 DEF Active
<1>4. {"executing", "lead"} \subseteq Working \ {"started"}
  BY DEF Working
<1>5. CASE WorkerBegin(t)
  <2>1. CASE worker[t].id \in DOMAIN run
    <3> DEFINE new == [worker[t] EXCEPT !.pc = "sleeping", !.task = run[worker[t].id].task,
                                        !.end = run[worker[t].id].hi]
    <3>1. /\ worker' = [worker EXCEPT ![t] = new]
          /\ run_dict' = run_dict \cup {worker[t].id}
          /\ worker[t].pc = "started" /\ UNCHANGED <<phase, picked, undecked>>
      BY <1>5, <2>1 DEF WorkerBegin
    <3>2. new.id = worker[t].id /\ new.pc = "sleeping"
      BY <1>1 DEF WorkerType
    <3> HIDE DEF new
    <3> QED
      BY <1>1, <3>1, <3>2 DEF Active
  <2>2. CASE worker[t].id \notin DOMAIN run
    BY <1>2, <1>5, <2>2 DEF WorkerBegin
  <2> QED
    BY <2>1, <2>2
<1>6. CASE WorkerStart(t)
  BY <1>2, <1>3, <1>4, <1>6 DEF WorkerStart, Awake
<1>7. CASE WorkerResult(t)
  BY <1>1, <1>7 DEF WorkerResult, runnerVars, Active
<1>8. ASSUME NEW c \in 0..2, WorkerExit(t, c)
      PROVE  OneWorks(t)
  <2> DEFINE new == [worker[t] EXCEPT !.pc = "exited", !.code = c]
  <2>1. /\ worker' = [worker EXCEPT ![t] = new] /\ worker[t].pc = "executing"
        /\ UNCHANGED <<phase, picked, undecked, run_dict>>
    BY <1>8 DEF WorkerExit
  <2>2. new.id = worker[t].id /\ new.pc = "exited"
    BY <1>1 DEF WorkerType
  <2> HIDE DEF new
  <2> QED
    BY <1>1, <2>1, <2>2 DEF Active
<1>9. CASE WorkerStore(t)
  BY <1>2, <1>3, <1>4, <1>9 DEF WorkerStore
<1>10. ASSUME NEW b \in BOOLEAN, WorkerMerge(t, b)
       PROVE  Finish(t) /\ UNCHANGED <<phase, picked, undecked>>
  BY <1>10 DEF WorkerMerge
<1>11. CASE WorkerDbFailure(t)
  BY <1>2, <1>11 DEF WorkerDbFailure
<1>12. CASE WorkerStartLost(t)
  BY <1>3, <1>4, <1>12 DEF WorkerStartLost, Awake
<1>13. CASE WorkerStoreLost(t)
  BY <1>3, <1>4, <1>13 DEF WorkerStoreLost
<1> QED
  BY <1>2, <1>5, <1>6, <1>7, <1>8, <1>9, <1>10, <1>11, <1>12, <1>13 DEF Work

\* What was selected is pending no more after the UPDATE, unless that failed, and what
\* it passed over as running is noted.
LEMMA OnDeckClaims ==
  ASSUME TypeOK, Single, NotTooFar, LoopOnDeck,
         NEW id \in DOMAIN picked, id \in DOMAIN run, id \notin undecked'
  PROVE  run'[id].state \notin {"pending", "running"}
<1> DEFINE In(s) == {i \in DOMAIN run \cap DOMAIN picked : run[i].state = s}
<1>1. /\ now \in Nat /\ \A i \in DOMAIN run : run[i] \in Row
  BY Constants DEF TypeOK, TableTypeOK
<1>2. ASSUME NEW i \in In("pending") PROVE Allowed(run[i], "on_deck")
  <2>1. WithinHorizon(run[i].task, run[i].lo)
    <3>1. phase = "on_deck"
      BY DEF LoopOnDeck
    <3> QED
      BY <3>1 DEF NotTooFar, Single, Ready, WithinHorizon
  <2>2. Altered(run[i], "on_deck").state = "on_deck"
    BY <1>1, AlteredRow
  <2>3. run_state_transition_is_valid("pending", "on_deck")
    BY DEF run_state_transition_is_valid, Successors
  <2> QED
    BY <2>1, <2>2, <2>3 DEF Allowed
<1>3. /\ run' = [i \in DOMAIN run |-> IF i \in In("pending")
                                      THEN Altered(run[i], "on_deck") ELSE run[i]]
      /\ undecked' = undecked \cup In("running")
  <2>1. undecked' # undecked \cup DOMAIN picked
    OBVIOUS
  <2> QED
    BY <1>2, <2>1 DEF LoopOnDeck
<1>4. id \in In("pending") => run'[id].state = "on_deck"
  BY <1>1, <1>3, AlteredRow
<1>5. id \notin In("running")
  BY <1>3
<1>6. id \notin In("pending") => run'[id] = run[id] /\ run[id].state \notin {"pending", "running"}
  BY <1>3, <1>5
<1> QED
  BY <1>4, <1>6

\* Nobody makes a second worker for a run that was put on deck.
LEMMA SingleStep ==
  ASSUME TypeOK, TypeOK', NotTooFar, Single, [Next]_vars
  PROVE  Single'
<1>1. /\ \A id \in RunId : /\ Owned(id) => Owned(id)'
                           /\ Claimed(id) => Claimed(id)'
                           /\ Ready(id) => Ready(id)'
      /\ \A id \in DOMAIN picked : id \in RunId
      /\ \A t \in Thread : Active(t) => worker[t].id \in RunId
      /\ worker \in [Thread -> WorkerType]
  BY TableSteps, ClaimedStays DEF TypeOK, RunnerTypeOK, Active
<1>2. ASSUME NEW t \in Thread, NEW id \in RunId, worker[t].id = id,
             worker[t].pc = "started", id \notin undecked
      PROVE  Quiet(id)'
  <2>1. Quiet(id)
    BY <1>1, <1>2 DEF Single, Active
  <2>2. \A u \in Thread : worker[u].pc = "sleeping" => worker[u].id # id
    BY <1>2 DEF Single, Active
  <2> QED
    BY <2>1, <2>2, TableSteps, QuietStays
<1>3. ASSUME NEW id \in DOMAIN picked, phase = "starting", id \notin undecked
      PROVE  Quiet(id)'
  <2>1. Quiet(id) /\ id \in RunId
    BY <1>1, <1>3 DEF Single
  <2>2. \A u \in Thread : worker[u].pc = "sleeping" => worker[u].id # id
    BY <1>3 DEF Single, Free, Active
  <2> QED
    BY <2>1, <2>2, TableSteps, QuietStays
<1>4. CASE UNCHANGED runnerVars
  BY <1>1, <1>2, <1>3, <1>4 DEF runnerVars, Single, Active, Free
<1>5. CASE UNCHANGED vars \/ Request \/ Operator \/ Maint \/ Clock
  <2>1. UNCHANGED runnerVars
    BY <1>5 DEF vars, Request, Operator, Maint, Clock
  <2> QED
    BY <1>4, <2>1
<1>6. CASE LoopSelect
  <2>1. /\ \A id \in DOMAIN picked' :
             /\ id \in DOMAIN run /\ id \notin run_dict
             /\ run[id].state \in {"pending", "running"}
             /\ run[id].pdf \/ multi(run[id].task)
        /\ phase' = "on_deck" /\ UNCHANGED <<tableVars, worker, run_dict, undecked>>
    BY <1>6 DEF LoopSelect, Upcoming, ShouldBeRunning
  <2>2. \A id \in DOMAIN picked' : Owned(id)' /\ Ready(id)'
    BY <2>1 DEF TypeOK, Owned, Ready, tableVars
  <2>3. \A id \in DOMAIN picked' : id \notin undecked => Free(id)
    BY <2>1 DEF Single, Claimed, Quiet, Free
  <2> QED
    BY <1>1, <1>2, <2>1, <2>2, <2>3 DEF Single, Active, Free
<1>7. CASE LoopOnDeck
  <2>1. /\ phase' = "starting" /\ UNCHANGED <<picked, worker, run_dict>>
        /\ DOMAIN run' = DOMAIN run /\ undecked \subseteq undecked'
        /\ phase = "on_deck"
    BY <1>7 DEF LoopOnDeck
  <2>2. \A id \in DOMAIN picked : id \notin undecked' => Owned(id)' /\ Quiet(id)'
    BY <1>1, <1>7, <2>1, OnDeckClaims DEF Single, Claimed, Quiet
  <2> QED
    BY <1>1, <1>2, <2>1, <2>2 DEF Single, Active, Free
<1>8. ASSUME NEW t \in Thread, NEW id \in RunId, LoopStart(t, id)
      PROVE  Single'
  <2>1. /\ phase = "starting" /\ id \in DOMAIN picked /\ ~Active(t)
        /\ worker'[t].id = id /\ worker'[t].pc = "started"
        /\ \A u \in Thread \ {t} : worker'[u] = worker[u]
        /\ DOMAIN picked' = DOMAIN picked \ {id}
        /\ phase' = "starting" \/ (phase' = "waiting" /\ DOMAIN picked' = {})
        /\ UNCHANGED <<run_dict, undecked>>
    BY <1>1, <1>8 DEF LoopStart, Only, Active, Idle
  <2>2. id \notin undecked => Quiet(id)' /\ Claimed(id)' /\ Free(id)
    BY <1>1, <1>3, <2>1 DEF Single, Quiet
  <2>3. \A u \in Thread \ {t} : Active(u)' <=> Active(u)
    BY <2>1 DEF Active
  <2>4. \A u \in Thread : Active(u)' /\ worker'[u].id \notin undecked' =>
          /\ Claimed(worker[u].id)'
          /\ worker'[u].pc = "started" => Quiet(worker[u].id)'
          /\ worker'[u].pc # "started" => worker'[u].id \in run_dict'
    <3>1. worker'[t].id \notin undecked' => Claimed(worker[t].id)' /\ Quiet(worker[t].id)'
      BY <2>1, <2>2
    <3>2. \A u \in Thread \ {t} :
            Active(u) /\ worker[u].id \notin undecked =>
              /\ worker[u].id \in RunId
              /\ Claimed(worker[u].id)'
              /\ worker[u].pc = "started" => Quiet(worker[u].id)'
              /\ worker[u].pc # "started" => worker[u].id \in run_dict
      BY <1>1, <1>2, <2>1 DEF Single
    <3> QED
      BY <2>1, <2>3, <3>1, <3>2
  <2>5. \A u, v \in Thread :
          u # v /\ Active(u)' /\ Active(v)' /\ worker'[u].id \notin undecked'
            => worker'[u].id # worker'[v].id
    BY <2>1, <2>2, <2>3 DEF Single, Free
  <2>6. \A i \in DOMAIN picked' :
          /\ phase' # "on_deck"
          /\ i \notin undecked' => Owned(i)' /\ Quiet(i)' /\ Free(i)'
    BY <1>1, <1>3, <2>1, <2>3 DEF Single, Free
  <2>7. phase' \in {"down", "waiting"} => DOMAIN picked' = {}
    BY <2>1
  <2> QED
    BY <2>4, <2>5, <2>6, <2>7 DEF Single
<1>9. CASE Crash
  BY <1>9, IdleType DEF Crash, Single, Active
<1>10. CASE Restart
  BY <1>1, <1>2, <1>10 DEF Restart, Single, Active, Free
<1>11. ASSUME NEW t \in Thread, Work(t)
       PROVE  Single'
  <2>1. OneWorks(t)
    BY <1>11, WorkOfOne
  <2>2. \A u \in Thread : Active(u)' => Active(u) /\ worker'[u].id = worker[u].id
    BY <2>1 DEF Active, OneWorks
  <2>3. ASSUME NEW u \in Thread, Active(u)', worker[u].id \notin undecked
        PROVE  /\ Claimed(worker[u].id)'
               /\ worker'[u].pc = "started" => Quiet(worker[u].id)'
               /\ worker'[u].pc # "started" => worker'[u].id \in run_dict'
    <3>1. Claimed(worker[u].id)'
      BY <1>1, <2>2, <2>3 DEF Single
    <3>2. CASE u = t
      BY <2>1, <2>2, <2>3, <3>1, <3>2 DEF Single, OneWorks
    <3>3. CASE u # t
      <4>1. worker'[u] = worker[u]
        BY <2>1, <3>3 DEF OneWorks
      <4>2. worker[u].pc # "started" => worker[u].id \in run_dict
        BY <2>2, <2>3 DEF Single
      <4>3. worker[u].id # worker[t].id \/ ~Active(t)
        BY <2>2, <2>3, <3>3 DEF Single
      <4>4. ~Active(t) => run_dict \subseteq run_dict'
        BY <1>11 DEF Work, WorkerBegin, WorkerStart, Awake, WorkerResult, WorkerStore,
                     WorkerExit, WorkerMerge, WorkerDbFailure, WorkerStartLost,
                     WorkerStoreLost, Active
      <4>5. worker[u].pc = "started" => Quiet(worker[u].id)'
        BY <1>1, <1>2, <2>2, <2>3, <4>1
      <4>6. worker[u].pc # "started" => worker[u].id \in run_dict'
        BY <2>1, <4>2, <4>3, <4>4 DEF OneWorks
      <4> QED
        BY <3>1, <4>1, <4>5, <4>6
    <3> QED
      BY <3>2, <3>3
  <2>4. \A u, v \in Thread :
          u # v /\ Active(u)' /\ Active(v)' /\ worker'[u].id \notin undecked
            => worker'[u].id # worker'[v].id
    BY <2>2 DEF Single
  <2>5. \A i \in DOMAIN picked' :
          /\ phase' = "on_deck" => Ready(i)'
          /\ i \notin undecked => Owned(i)' /\ Free(i)' /\ (phase' = "starting" => Quiet(i)')
    BY <1>1, <1>3, <2>1, <2>2 DEF Single, Free, OneWorks
  <2>6. (phase' \in {"down", "waiting"} => DOMAIN picked' = {}) /\ undecked' = undecked
    BY <2>1 DEF Single, OneWorks
  <2> QED
    BY <2>2, <2>3, <2>4, <2>5, <2>6 DEF Single
<1> QED
  BY <1>5, <1>6, <1>7, <1>8, <1>9, <1>10, <1>11 DEF Next, Loop

\* However inserts, the main loop, workers, cancellations, crashes of the daemon and
\* failures of the database interleave, at most one worker has the tool of a run
\* going, if the run was put on deck when it was given a worker (runner:930-976).
THEOREM OneTool == Spec => []OneToolOnceOnDeck
<1>1. Init => Single /\ NotTooFar /\ InOrder
  BY DEF Init, TableInit, RunnerInit, Single, NotTooFar, InOrder, Active, Idle
<1>2. TypeOK /\ TypeOK' /\ Single /\ NotTooFar /\ InOrder /\ [Next]_vars
        => Single' /\ NotTooFar' /\ InOrder'
  BY TableSteps, SingleStep, NotTooFarStep, InOrderStep
<1>3. Single => OneToolOnceOnDeck
  BY DEF Single, Active, OneToolOnceOnDeck, TwoTools
<1> QED
  BY <1>1, <1>2, <1>3, TypeCorrect, PTL DEF Spec
=============================================================================
