--------------------------- MODULE SchedulerProofs ---------------------------
(***************************************************************************)
(* Theorems about module Scheduler: types, that no participant gets the    *)
(* data of all before all have the run, that a run is posted on all        *)
(* participants or on none, and that no task exceeds its limit of runs.    *)
(*                                                                         *)
(* Workers do not disturb each other's runs: a step of t's worker leaves   *)
(* the runs of other tasks as they are (Apart).  So what a worker knows of *)
(* the run in its hands (WorkerOK, Exact) stays true until it acts.        *)
(***************************************************************************)
EXTENDS Scheduler, SequenceTheorems, FiniteSetTheorems, TLAPS

\* What t's worker may rely on at each step, w being its state and s the runs.
WorkerOK(t, w, s) ==
  /\ w.pc = "try" => w.left > 0
  /\ w.pc \in {"propose", "put", "full"} => w.next \in DOMAIN Participants[t]
  /\ w.pc \in {"put", "gather", "full", "delete"} =>
       w.id \in DOMAIN s /\ s[w.id].task = t /\ w.posted \subseteq Party(t)
  /\ w.pc \in {"put", "gather", "full"} => w.posted \subseteq s[w.id].held
  /\ w.pc \in {"gather", "full"} => w.posted = Party(t)

\* The participants whose turn came before the i-th.
Before(t, i) == {Participants[t][j] : j \in 1..(i - 1)}

InHand(w, r) == w.pc \in {"put", "gather", "full", "delete"} /\ w.id = r

\* A run that is on all participants, on none, or a non-starter on the lead.
Settled(t, row) ==
  \/ row.held = {}
  \/ row.full = Party(t)
  \/ row.held = {Lead(t)} /\ row.barred = {Lead(t)}

\* What holds as long as nothing has failed: a worker knows exactly where its
\* run is, and no run is left half done.
Exact(t, w, s) ==
  /\ w.pc \in {"put", "gather", "full", "delete"} => s[w.id].held = w.posted
  /\ w.pc \in {"put", "gather", "delete"} => s[w.id].full = {}
  /\ w.pc = "full" => s[w.id].full = Before(t, w.next)
  /\ \A r \in DOMAIN s : s[r].task = t => InHand(w, r) \/ Settled(t, s[r])

Inv ==
  /\ TypeOK
  /\ \A t \in Task : WorkerOK(t, worker[t], run)
  /\ faults = 0 => \A t \in Task : Exact(t, worker[t], run)

Rows(s) ==
  /\ s \in Seq(Run)
  /\ \A r \in DOMAIN s : s[r].barred \cup s[r].full \subseteq s[r].held

Counts == [Task -> [runs : Nat, first_start : Int]]

\* From runs s to runs z, nothing but runs of t changed or came up.
Apart(t, s, z) ==
  /\ \A r \in DOMAIN s :
       r \in DOMAIN z /\ z[r].task = s[r].task /\ (s[r].task # t => z[r] = s[r])
  /\ \A r \in DOMAIN z \ DOMAIN s : z[r].task = t

\* A step of t's worker keeps Inv if it does what it has to for its own run.
LEMMA Step ==
  ASSUME SchedulerAssumption, Inv, NEW t \in Task, NEW w \in Worker,
         worker' = [worker EXCEPT ![t] = w],
         now' = now, sessions' \in 0..MaxSessions, task' \in Counts,
         faults' \in 0..MaxFaults, faults' = 0 => faults = 0,
         Rows(run'), Apart(t, run, run'),
         WorkerOK(t, w, run'), faults' = 0 => Exact(t, w, run')
  PROVE  Inv'
<1>1. TypeOK'
  BY DEF Inv, TypeOK, Rows, Counts
<1>2. worker'[t] = w /\ \A u \in Task \ {t} : worker'[u] = worker[u]
  BY DEF Inv, TypeOK
<1>3. ASSUME NEW u \in Task \ {t}
      PROVE  WorkerOK(u, worker[u], run')
  <2>1. WorkerOK(u, worker[u], run)
    BY DEF Inv
  <2> QED
    BY <2>1 DEF WorkerOK, Apart
<1>4. ASSUME NEW u \in Task \ {t}, faults' = 0
      PROVE  Exact(u, worker[u], run')
  <2>1. Exact(u, worker[u], run) /\ WorkerOK(u, worker[u], run)
    BY <1>4 DEF Inv
  <2>2. ASSUME NEW r \in DOMAIN run', run'[r].task = u
        PROVE  r \in DOMAIN run /\ run[r].task = u /\ run'[r] = run[r]
    BY <2>2 DEF Apart
  <2>3. \A r \in DOMAIN run' : run'[r].task = u => InHand(worker[u], r) \/ Settled(u, run'[r])
    BY <2>1, <2>2 DEF Exact
  <2>4. worker[u].pc \in {"put", "gather", "full", "delete"} =>
          run'[worker[u].id] = run[worker[u].id]
    BY <2>1 DEF WorkerOK, Apart
  <2> QED
    BY <2>1, <2>3, <2>4 DEF Exact
<1> QED
  BY <1>1, <1>2, <1>3, <1>4 DEF Inv

\* Changing one element of the sequence of runs.
LEMMA Changed ==
  ASSUME NEW s \in Seq(Run), NEW r \in DOMAIN s, NEW v \in Run
  PROVE  /\ [s EXCEPT ![r] = v] \in Seq(Run)
         /\ DOMAIN [s EXCEPT ![r] = v] = DOMAIN s
         /\ [s EXCEPT ![r] = v][r] = v
         /\ \A q \in DOMAIN s \ {r} : [s EXCEPT ![r] = v][q] = s[q]
<1>1. s \in [1..Len(s) -> Run] /\ DOMAIN s = 1..Len(s)
  BY LenProperties
<1>2. [s EXCEPT ![r] = v] \in [1..Len(s) -> Run]
  BY <1>1
<1> QED
  BY <1>1, <1>2, ExceptSeq

\* Participants are nodes, and there is at least one of them.
LEMMA Parties ==
  ASSUME SchedulerAssumption, NEW t \in Task
  PROVE  /\ Len(Participants[t]) \in Nat \ {0}
         /\ DOMAIN Participants[t] = 1..Len(Participants[t])
         /\ \A i \in DOMAIN Participants[t] : Participants[t][i] \in Party(t) \cap Node
         /\ Party(t) \subseteq Node
         /\ Lead(t) \in Party(t) /\ Lead(t) \in Node
<1>1. Participants[t] \in Seq(Node) /\ Participants[t] # <<>>
  BY DEF SchedulerAssumption
<1>2. /\ Len(Participants[t]) \in Nat \ {0}
      /\ DOMAIN Participants[t] = 1..Len(Participants[t])
      /\ Participants[t] \in [1..Len(Participants[t]) -> Node]
  BY <1>1, LenProperties, EmptySeq
<1>3. \A i \in DOMAIN Participants[t] : Participants[t][i] \in Party(t) \cap Node
  BY <1>2 DEF Party
<1>4. Party(t) \subseteq Node
  BY <1>2 DEF Party
<1> QED
  BY <1>2, <1>3, <1>4 DEF Lead

\* What a lead inserts.
LEMMA Inserted ==
  ASSUME SchedulerAssumption, TypeOK, NEW t \in Task, NEW start \in Int,
         NEW barring \in SUBSET {Lead(t)}, InsertOnLead(t, start, barring)
  PROVE  /\ Rows(run') /\ task' \in Counts /\ Apart(t, run, run')
         /\ Len(run) + 1 \in Nat
         /\ DOMAIN run' = DOMAIN run \cup {Len(run) + 1}
         /\ Len(run) + 1 \notin DOMAIN run
         /\ run'[Len(run) + 1] = [task |-> t, start |-> start, held |-> {Lead(t)},
                                  barred |-> barring, full |-> {}]
         /\ \A r \in DOMAIN run : run'[r] = run[r]
<1> DEFINE new == [task |-> t, start |-> start, held |-> {Lead(t)},
                   barred |-> barring, full |-> {}]
<1>1. new \in Run /\ new.barred \cup new.full \subseteq new.held /\ new.task = t
  BY Parties DEF Run
<1>2. run \in Seq(Run) /\ run' = Append(run, new)
  BY DEF TypeOK, InsertOnLead
<1>3. task' \in Counts
  BY DEF TypeOK, InsertOnLead, Counts
<1> HIDE DEF new
<1>4. /\ run' \in Seq(Run)
      /\ Len(run) \in Nat /\ DOMAIN run = 1..Len(run)
      /\ DOMAIN run' = 1..(Len(run) + 1)
      /\ run'[Len(run) + 1] = new
      /\ \A r \in 1..Len(run) : run'[r] = run[r]
  BY <1>1, <1>2, AppendProperties, LenProperties
<1>5. DOMAIN run' = DOMAIN run \cup {Len(run) + 1} /\ Len(run) + 1 \notin DOMAIN run
  BY <1>4
<1>6. Rows(run')
  <2>1. \A r \in DOMAIN run : run[r].barred \cup run[r].full \subseteq run[r].held
    BY DEF TypeOK
  <2> QED
    BY <1>1, <1>4, <1>5, <2>1 DEF Rows
<1>7. Apart(t, run, run')
  BY <1>1, <1>4, <1>5 DEF Apart
<1> QED
  BY <1>3, <1>4, <1>5, <1>6, <1>7 DEF new

\* Changing the row of one run of t.
LEMMA Touched ==
  ASSUME TypeOK, NEW t \in Task, NEW r \in DOMAIN run, NEW v \in Run,
         run[r].task = t, v.task = t, v.barred \cup v.full \subseteq v.held,
         run' = [run EXCEPT ![r] = v]
  PROVE  /\ Rows(run') /\ Apart(t, run, run')
         /\ DOMAIN run' = DOMAIN run
         /\ run'[r] = v
         /\ \A q \in DOMAIN run \ {r} : run'[q] = run[q]
<1>1. run \in Seq(Run)
  BY DEF TypeOK
<1>2. /\ run' \in Seq(Run) /\ DOMAIN run' = DOMAIN run /\ run'[r] = v
      /\ \A q \in DOMAIN run \ {r} : run'[q] = run[q]
  BY <1>1, Changed
<1>3. Rows(run')
  BY <1>2 DEF TypeOK, Rows
<1>4. Apart(t, run, run')
  BY <1>2 DEF Apart
<1> QED
  BY <1>2, <1>3, <1>4

\* A step that changes no row.
LEMMA Move ==
  ASSUME SchedulerAssumption, Inv, NEW t \in Task, NEW w \in Worker,
         worker' = [worker EXCEPT ![t] = w],
         UNCHANGED <<now, run, task>>, sessions' \in 0..MaxSessions,
         faults' \in 0..MaxFaults, faults' = 0 => faults = 0,
         WorkerOK(t, w, run), faults' = 0 => Exact(t, w, run)
  PROVE  Inv'
<1>1. Rows(run') /\ task' \in Counts
  BY DEF Inv, TypeOK, Rows, Counts
<1>2. Apart(t, run, run')
  BY DEF Apart
<1> QED
  BY <1>1, <1>2, Step

\* Such a step of a worker that has no run in its hands, before and after.
LEMMA IdleMove ==
  ASSUME SchedulerAssumption, Inv, NEW t \in Task, NEW w \in Worker,
         worker' = [worker EXCEPT ![t] = w],
         UNCHANGED <<now, run, task>>, sessions' \in 0..MaxSessions,
         faults' \in 0..MaxFaults, faults' = 0 => faults = 0,
         worker[t].pc \notin {"put", "gather", "full", "delete"},
         w.pc \notin {"put", "gather", "full", "delete"},
         w.pc = "try" => w.left > 0,
         w.pc = "propose" => w.next \in DOMAIN Participants[t]
  PROVE  Inv'
<1>1. WorkerOK(t, w, run)
  BY DEF WorkerOK
<1>2. ASSUME faults' = 0
      PROVE  Exact(t, w, run)
  <2>1. Exact(t, worker[t], run)
    BY <1>2 DEF Inv
  <2> QED
    BY <2>1 DEF Exact, InHand
<1> QED
  BY <1>1, <1>2, Move

\* What is known of a worker, of the bounds and of what may go wrong.
LEMMA Facts ==
  ASSUME SchedulerAssumption, Inv, NEW t \in Task
  PROVE  /\ worker[t] \in Worker
         /\ WorkerOK(t, worker[t], run)
         /\ sessions \in 0..MaxSessions /\ faults \in 0..MaxFaults /\ MaxFaults \in Nat
         /\ Fault => faults' \in 0..MaxFaults /\ faults' # 0
         /\ now \in Nat /\ slip(t) \in Int
<1>1. slip(t) \in Int
  BY DEF slip, SchedulerAssumption
<1> QED
  BY <1>1 DEF Inv, TypeOK, SchedulerAssumption, Fault

LEMMA IdleTyped == Idle \in Worker
  BY DEF Idle, Worker, Steps, Results

LEMMA StartKeeps ==
  ASSUME SchedulerAssumption, Inv, NEW t \in Task, Start(t)
  PROVE  Inv'
<1>1. PICK latest \in Latest(t) :
        LET trynext == IF Repeat[t] = 0 \/ task[t].runs = 0
                       THEN now ELSE task_next_run(t, latest)
            first   == IF task[t].runs = 0 THEN now + Offset ELSE trynext
        IN  /\ worker[t].pc = "idle"
            /\ sessions < MaxSessions
            /\ Selectable(t, trynext)
            /\ sessions' = sessions + 1
            /\ worker' = [worker EXCEPT ![t] =
                 [Idle EXCEPT !.pc = IF Retries = 0 THEN "nonstart" ELSE "try",
                              !.wanted = trynext, !.try = first, !.left = Retries]]
            /\ UNCHANGED <<now, run, task, faults>>
  BY DEF Start
<1>2. latest \in Int
  <2>1. \A r \in DOMAIN run : run[r] \in Run
    BY LenProperties DEF Inv, TypeOK
  <2>2. \A r \in DOMAIN run : run[r].start + 1 \in Int
    BY <2>1 DEF Run
  <2> QED
    BY <2>2, Facts DEF Latest, OnLead
<1>3. Repeat[t] \in Nat /\ task[t].first_start \in Int /\ Offset \in Nat /\ Retries \in Nat
  BY DEF SchedulerAssumption, Inv, TypeOK
<1>4. Repeat[t] # 0 => task_next_run(t, latest) \in Int
  <2> SUFFICES ASSUME Repeat[t] # 0 PROVE task_next_run(t, latest) \in Int
    OBVIOUS
  <2> DEFINE k == Trunc(latest - task[t].first_start, Repeat[t]) + 1
  <2>1. \A i \in Int : Trunc(i, Repeat[t]) \in Int
    BY <1>3 DEF Trunc
  <2>2. k \in Int
    <3> DEFINE d == latest - task[t].first_start
    <3>1. d \in Int
      BY <1>2, <1>3
    <3> HIDE DEF d
    <3>2. Trunc(d, Repeat[t]) \in Int
      BY <2>1, <3>1
    <3> QED
      BY <3>2 DEF d
  <2>3. task_next_run(t, latest) = task[t].first_start + Repeat[t] * k
    BY DEF task_next_run
  <2> HIDE DEF k
  <2> QED
    BY <1>3, <2>2, <2>3
<1> DEFINE trynext == IF Repeat[t] = 0 \/ task[t].runs = 0
                      THEN now ELSE task_next_run(t, latest)
           first   == IF task[t].runs = 0 THEN now + Offset ELSE trynext
           w == [Idle EXCEPT !.pc = IF Retries = 0 THEN "nonstart" ELSE "try",
                             !.wanted = trynext, !.try = first, !.left = Retries]
<1>5. first \in Int /\ trynext \in Int
  BY <1>3, <1>4, Facts
<1>6. worker' = [worker EXCEPT ![t] = w]
  BY <1>1
<1> HIDE DEF first, trynext
<1>7. w \in Worker
  BY <1>3, <1>5, IdleTyped DEF Worker, Steps
<1>8. /\ w.pc \notin {"put", "gather", "full", "delete", "propose"}
      /\ w.pc = "try" => w.left > 0
  BY <1>3 DEF Idle
<1> HIDE DEF w
<1>9. /\ worker[t].pc = "idle" /\ UNCHANGED <<now, run, task, faults>>
      /\ sessions < MaxSessions /\ sessions' = sessions + 1
  BY <1>1
<1>10. sessions' \in 0..MaxSessions /\ faults \in 0..MaxFaults
  BY <1>9, Facts, SMTT(30) DEF SchedulerAssumption
<1> QED
  BY <1>6, <1>7, <1>8, <1>9, <1>10, IdleMove

LEMMA TryKeeps ==
  ASSUME SchedulerAssumption, Inv, NEW t \in Task, Try(t)
  PROVE  Inv'
<1> DEFINE w == worker[t]
           tried == [w EXCEPT !.left = @ - 1]
           go == [tried EXCEPT !.pc = "propose", !.pass = 1, !.next = 1,
                               !.posted = {}, !.id = 0,
                               !.free = w.try..(w.try + slip(t))]
           back(result) == [tried EXCEPT !.pc = "decide", !.result = result]
<1>1. w.pc = "try" /\ UNCHANGED <<now, run, task, sessions>>
  BY DEF Try
<1>2. w \in Worker /\ w.left > 0
  BY <1>1, Facts DEF WorkerOK
<1>3. w.left \in Nat /\ w.left - 1 \in Nat /\ w.try \in Int
  BY <1>2 DEF Worker
<1>4. tried \in Worker
  BY <1>2, <1>3 DEF Worker
<1>5. go \in Worker /\ go.pc = "propose" /\ go.next \in DOMAIN Participants[t]
  <2> DEFINE window == w.try..(w.try + slip(t))
  <2>1. window \in SUBSET Int
    BY <1>3, Facts
  <2> HIDE DEF window
  <2>2. 1 \in DOMAIN Participants[t]
    BY Parties
  <2> HIDE DEF tried
  <2>3. go = [tried EXCEPT !.pc = "propose", !.pass = 1, !.next = 1,
                           !.posted = {}, !.id = 0, !.free = window]
    BY DEF window
  <2>4. "propose" \in Steps /\ 1 \in 1..2 /\ 1 \in Nat /\ 0 \in Nat
    BY DEF Steps
  <2>5. go \in Worker
    BY <1>4, <2>1, <2>3, <2>4 DEF Worker
  <2>6. go.pc = "propose" /\ go.next = 1
    BY <1>4, <2>3 DEF Worker
  <2> QED
    BY <2>2, <2>5, <2>6
<1>6. \A result \in Results : back(result) \in Worker /\ back(result).pc = "decide"
  BY <1>4 DEF Worker, Steps
<1>7. sessions' \in 0..MaxSessions /\ (UNCHANGED faults \/ Fault)
  BY <1>1, Facts DEF Try
<1>8. /\ faults' \in 0..MaxFaults
      /\ faults' = 0 => faults = 0
  BY <1>7, Facts
<1>9. worker' = [worker EXCEPT ![t] = go] \/ worker' = [worker EXCEPT ![t] = back("error")]
      \/ worker' = [worker EXCEPT ![t] = back("skip")]
  BY DEF Try, Tried
<1>10. "error" \in Results /\ "skip" \in Results
  BY DEF Results
<1> HIDE DEF go, back
<1>11. CASE worker' = [worker EXCEPT ![t] = go]
  BY <1>1, <1>5, <1>7, <1>8, <1>11, IdleMove
<1>12. CASE worker' = [worker EXCEPT ![t] = back("error")]
  BY <1>1, <1>6, <1>7, <1>8, <1>10, <1>12, IdleMove
<1>13. CASE worker' = [worker EXCEPT ![t] = back("skip")]
  BY <1>1, <1>6, <1>7, <1>8, <1>10, <1>13, IdleMove
<1> QED
  BY <1>9, <1>11, <1>12, <1>13

LEMMA ProposeKeeps ==
  ASSUME SchedulerAssumption, Inv, NEW t \in Task, Propose(t)
  PROVE  Inv'
<1> DEFINE w == worker[t]
           window == w.try..(w.try + slip(t))
           further(s) == [w EXCEPT !.free = s, !.next = @ + 1]
           chosen(s) == [w EXCEPT !.pc = "lead", !.slot = s, !.pass = 1, !.next = 1,
                                  !.free = {}]
           again == [w EXCEPT !.pass = 2, !.next = 1, !.free = window]
           failed == [w EXCEPT !.pc = "decide", !.result = "error"]
<1>1. /\ w.pc = "propose" /\ UNCHANGED <<now, run, task, sessions>>
      /\ UNCHANGED faults \/ Fault
  BY DEF Propose
<1>2. w \in Worker /\ w.next \in DOMAIN Participants[t]
  BY <1>1, Facts DEF WorkerOK
<1>3. w.free \subseteq Int /\ w.try \in Int /\ w.next \in Nat
  BY <1>2 DEF Worker
<1>4. /\ sessions' \in 0..MaxSessions /\ faults' \in 0..MaxFaults
      /\ faults' = 0 => faults = 0
  BY <1>1, Facts
<1>5. \/ /\ w.next # Len(Participants[t])
         /\ \E s \in SUBSET w.free : worker' = [worker EXCEPT ![t] = further(s)]
      \/ \E s \in w.free : worker' = [worker EXCEPT ![t] = chosen(s)]
      \/ worker' = [worker EXCEPT ![t] = again]
      \/ worker' = [worker EXCEPT ![t] = failed]
  BY DEF Propose, Return
<1>6. CASE /\ w.next # Len(Participants[t])
           /\ \E s \in SUBSET w.free : worker' = [worker EXCEPT ![t] = further(s)]
  <2> PICK s \in SUBSET w.free : worker' = [worker EXCEPT ![t] = further(s)]
    BY <1>6
  <2>1. /\ further(s) \in Worker /\ further(s).pc = "propose"
        /\ further(s).next = w.next + 1
    <3>1. s \in SUBSET Int /\ w.next + 1 \in Nat
      BY <1>3, SMTT(30)
    <3> QED
      BY <1>1, <1>2, <3>1 DEF Worker
  <2>2. w.next + 1 \in DOMAIN Participants[t]
    BY <1>2, <1>3, <1>6, Parties, SMTT(30)
  <2> HIDE DEF further
  <2> QED
    BY <1>1, <1>4, <1>6, <2>1, <2>2, IdleMove
<1>7. CASE \E s \in w.free : worker' = [worker EXCEPT ![t] = chosen(s)]
  <2>1. PICK s \in w.free : worker' = [worker EXCEPT ![t] = chosen(s)]
    BY <1>7
  <2>2. chosen(s) \in Worker /\ chosen(s).pc = "lead"
    <3>1. s \in Int
      BY <1>3
    <3>2. "lead" \in Steps /\ 1 \in 1..2 /\ 1 \in Nat /\ {} \in SUBSET Int
      BY DEF Steps
    <3> HIDE DEF w
    <3> QED
      BY <1>2, <3>1, <3>2 DEF Worker
  <2> HIDE DEF chosen
  <2> QED
    BY <1>1, <1>4, <2>1, <2>2, IdleMove
<1>8. CASE worker' = [worker EXCEPT ![t] = again]
  <2>1. again \in Worker /\ again.pc = "propose" /\ again.next = 1
    <3>1. window \in SUBSET Int
      BY <1>3, Facts
    <3>2. 2 \in 1..2 /\ 1 \in Nat
      OBVIOUS
    <3> HIDE DEF window, w
    <3> QED
      BY <1>1, <1>2, <3>1, <3>2 DEF Worker
  <2>2. 1 \in DOMAIN Participants[t]
    BY Parties
  <2> HIDE DEF again
  <2> QED
    BY <1>1, <1>4, <1>8, <2>1, <2>2, IdleMove
<1>9. CASE worker' = [worker EXCEPT ![t] = failed]
  <2>1. failed \in Worker /\ failed.pc = "decide"
    BY <1>2 DEF Worker, Steps, Results
  <2> HIDE DEF failed
  <2> QED
    BY <1>1, <1>4, <1>9, <2>1, IdleMove
<1> QED
  BY <1>5, <1>6, <1>7, <1>8, <1>9

\* The lead's row is the first.  A worker that does not learn of it has
\* nothing in its hands, but then something has failed.
LEMMA PostLeadKeeps ==
  ASSUME SchedulerAssumption, Inv, NEW t \in Task, PostLead(t)
  PROVE  Inv'
<1> DEFINE w == worker[t]
           back(result) == [w EXCEPT !.pc = "decide", !.result = result]
           posted == [w EXCEPT !.id = Len(run) + 1, !.posted = {Lead(t)}, !.next = 2,
                               !.pc = IF Len(Participants[t]) = 1 THEN "gather" ELSE "put"]
           inserts == \E barring \in Accepts(Lead(t), w.slot) : InsertOnLead(t, w.slot, barring)
<1>1. /\ w.pc = "lead" /\ UNCHANGED <<now, sessions>>
      /\ UNCHANGED faults \/ Fault
  BY DEF PostLead
<1>2. w \in Worker /\ w.slot \in Int /\ sessions' \in 0..MaxSessions
      /\ faults' \in 0..MaxFaults
  <2>1. w \in Worker
    BY Facts
  <2> QED
    BY <1>1, <2>1, Facts DEF Worker
<1>3. faults' = 0 => faults = 0
  BY <1>1, Facts
<1>4. \/ /\ worker' = [worker EXCEPT ![t] = back("conflict")]
         /\ UNCHANGED <<run, task>>
      \/ /\ worker' = [worker EXCEPT ![t] = back("error")]
         /\ UNCHANGED <<run, task>>
      \/ worker' = [worker EXCEPT ![t] = posted] /\ inserts
      \/ worker' = [worker EXCEPT ![t] = back("error")] /\ inserts /\ Fault
  BY DEF PostLead, Return
<1>5. \A result \in {"conflict", "error"} :
        back(result) \in Worker /\ back(result).pc = "decide"
  BY <1>2 DEF Worker, Steps, Results
<1> HIDE DEF back
<1>6. CASE worker' = [worker EXCEPT ![t] = back("conflict")] /\ UNCHANGED <<run, task>>
  BY <1>1, <1>2, <1>3, <1>5, <1>6, IdleMove
<1>7. CASE worker' = [worker EXCEPT ![t] = back("error")] /\ UNCHANGED <<run, task>>
  BY <1>1, <1>2, <1>3, <1>5, <1>7, IdleMove
<1>8. ASSUME inserts
      PROVE  \E barring \in SUBSET {Lead(t)} : InsertOnLead(t, w.slot, barring)
  BY <1>8 DEF Accepts
<1>9. CASE worker' = [worker EXCEPT ![t] = posted] /\ inserts
  <2>1. PICK barring \in SUBSET {Lead(t)} : InsertOnLead(t, w.slot, barring)
    BY <1>8, <1>9
  <2> DEFINE id == Len(run) + 1
  <2>2. /\ Rows(run') /\ task' \in Counts /\ Apart(t, run, run')
        /\ id \in Nat /\ DOMAIN run' = DOMAIN run \cup {id} /\ id \notin DOMAIN run
        /\ run'[id] = [task |-> t, start |-> w.slot, held |-> {Lead(t)},
                       barred |-> barring, full |-> {}]
        /\ \A r \in DOMAIN run : run'[r] = run[r]
    BY <1>2, <2>1, Inserted DEF Inv
  <2> HIDE DEF id
  <2>3. /\ run'[id].task = t /\ run'[id].held = {Lead(t)} /\ run'[id].full = {}
    BY <2>2
  <2>4. /\ posted \in Worker /\ posted.id = id /\ posted.posted = {Lead(t)}
        /\ posted.next = 2
        /\ posted.pc = IF Len(Participants[t]) = 1 THEN "gather" ELSE "put"
    <3>1. Lead(t) \in Node
      BY Parties
    <3> QED
      BY <1>2, <2>2, <3>1 DEF Worker, Steps, id
  <2> HIDE DEF posted
  <2>5. /\ Lead(t) \in Party(t)
        /\ Len(Participants[t]) = 1 => Party(t) = {Lead(t)}
        /\ Len(Participants[t]) # 1 => 2 \in DOMAIN Participants[t]
    <3>1. /\ Len(Participants[t]) \in Nat \ {0}
          /\ DOMAIN Participants[t] = 1..Len(Participants[t])
          /\ Lead(t) \in Party(t)
      BY Parties
    <3>2. ASSUME Len(Participants[t]) = 1
          PROVE  Party(t) = {Lead(t)}
      <4>1. DOMAIN Participants[t] = {1}
        BY <3>1, <3>2
      <4> QED
        BY <4>1 DEF Party, Lead
    <3> QED
      BY <3>1, <3>2
  <2>6. WorkerOK(t, posted, run')
    BY <2>2, <2>3, <2>4, <2>5 DEF WorkerOK
  <2>7. ASSUME faults' = 0
        PROVE  Exact(t, posted, run')
    <3>1. Exact(t, w, run)
      BY <1>3, <2>7 DEF Inv
    <3>2. \A r \in DOMAIN run : run[r].task = t => Settled(t, run[r])
      BY <1>1, <3>1 DEF Exact, InHand
    <3>3. \A r \in DOMAIN run' : run'[r].task = t => InHand(posted, r) \/ Settled(t, run'[r])
      BY <2>2, <2>4, <3>2 DEF InHand
    <3> QED
      BY <2>3, <2>4, <3>3 DEF Exact
  <2> QED
    BY <1>1, <1>2, <1>3, <1>9, <2>2, <2>4, <2>6, <2>7, Step
<1>10. CASE worker' = [worker EXCEPT ![t] = back("error")] /\ inserts /\ Fault
  <2>1. PICK barring \in SUBSET {Lead(t)} : InsertOnLead(t, w.slot, barring)
    BY <1>8, <1>10
  <2>2. Rows(run') /\ task' \in Counts /\ Apart(t, run, run')
    BY <1>2, <2>1, Inserted DEF Inv
  <2>3. WorkerOK(t, back("error"), run')
    BY <1>5 DEF WorkerOK
  <2>4. faults' # 0
    BY <1>10, Facts
  <2> QED
    BY <1>1, <1>2, <1>5, <1>10, <2>2, <2>3, <2>4, Step
<1> QED
  BY <1>4, <1>6, <1>7, <1>9, <1>10

\* The row of a run of t, and what Insert, Remove and delivering data make of it.
LEMMA RowOf ==
  ASSUME TypeOK, NEW r \in DOMAIN run
  PROVE  /\ run[r] \in Run
         /\ run[r].held \subseteq Node /\ run[r].barred \subseteq Node
         /\ run[r].full \subseteq Node
         /\ run[r].barred \cup run[r].full \subseteq run[r].held
<1>1. run[r] \in Run
  BY LenProperties DEF TypeOK
<1>2. run[r].held \subseteq Node /\ run[r].barred \subseteq Node /\ run[r].full \subseteq Node
  BY <1>1 DEF Run
<1> QED
  BY <1>1, <1>2 DEF TypeOK

LEMMA InsertedRow ==
  ASSUME TypeOK, NEW t \in Task, NEW r \in DOMAIN run, run[r].task = t,
         NEW n \in Node, NEW barring \in SUBSET {n}, Insert(r, n, barring)
  PROVE  /\ Rows(run') /\ Apart(t, run, run') /\ DOMAIN run' = DOMAIN run
         /\ run'[r].held = run[r].held \cup {n} /\ run'[r].full = run[r].full
         /\ run'[r].barred = run[r].barred \cup barring
         /\ run'[r].task = t
         /\ \A q \in DOMAIN run \ {r} : run'[q] = run[q]
<1> DEFINE row == run[r]
           v == [row EXCEPT !.held = @ \cup {n}, !.barred = @ \cup barring]
<1>1. /\ row \in Run /\ row.held \subseteq Node /\ row.barred \cup row.full \subseteq row.held
      /\ row.barred \subseteq Node /\ row.full \subseteq Node /\ row.task = t
  BY RowOf
<1>2. run' = [run EXCEPT ![r] = v]
  BY DEF Insert
<1>3. /\ v \in Run /\ v.task = t /\ v.barred \cup v.full \subseteq v.held
      /\ v.held = row.held \cup {n} /\ v.full = row.full
      /\ v.barred = row.barred \cup barring
  <2> HIDE DEF row
  <2> QED
    BY <1>1 DEF Run
<1> HIDE DEF v
<1> QED
  BY <1>2, <1>3, Touched

LEMMA RemovedRow ==
  ASSUME TypeOK, NEW t \in Task, NEW r \in DOMAIN run, run[r].task = t,
         NEW n \in Node, Remove(r, n)
  PROVE  /\ Rows(run') /\ Apart(t, run, run') /\ DOMAIN run' = DOMAIN run
         /\ run'[r].held = run[r].held \ {n} /\ run'[r].full = run[r].full \ {n}
         /\ run'[r].barred = run[r].barred \ {n}
         /\ run'[r].task = t
         /\ \A q \in DOMAIN run \ {r} : run'[q] = run[q]
<1> DEFINE row == run[r]
           v == [row EXCEPT !.held = @ \ {n}, !.barred = @ \ {n}, !.full = @ \ {n}]
<1>1. /\ row \in Run /\ row.held \subseteq Node /\ row.barred \cup row.full \subseteq row.held
      /\ row.barred \subseteq Node /\ row.full \subseteq Node /\ row.task = t
  BY RowOf
<1>2. run' = [run EXCEPT ![r] = v]
  BY DEF Remove
<1>3. /\ v \in Run /\ v.task = t /\ v.barred \cup v.full \subseteq v.held
      /\ v.held = row.held \ {n} /\ v.full = row.full \ {n}
      /\ v.barred = row.barred \ {n}
  <2> HIDE DEF row
  <2> QED
    BY <1>1 DEF Run
<1> HIDE DEF v
<1> QED
  BY <1>2, <1>3, Touched

LEMMA DeliveredRow ==
  ASSUME TypeOK, NEW t \in Task, NEW r \in DOMAIN run, run[r].task = t,
         NEW n \in Node, Deliver(r, n)
  PROVE  /\ Rows(run') /\ Apart(t, run, run') /\ DOMAIN run' = DOMAIN run
         /\ run'[r].held = run[r].held /\ run'[r].full = run[r].full \cup {n}
         /\ run'[r].barred = run[r].barred
         /\ run'[r].task = t
         /\ \A q \in DOMAIN run \ {r} : run'[q] = run[q]
<1> DEFINE row == run[r]
           v == [row EXCEPT !.full = @ \cup {n}]
<1>1. /\ row \in Run /\ row.held \subseteq Node /\ row.barred \cup row.full \subseteq row.held
      /\ row.barred \subseteq Node /\ row.full \subseteq Node /\ row.task = t
  BY RowOf
<1>2. run' = [run EXCEPT ![r] = v] /\ n \in row.held
  BY DEF Deliver
<1>3. /\ v \in Run /\ v.task = t /\ v.barred \cup v.full \subseteq v.held
      /\ v.held = row.held /\ v.full = row.full \cup {n}
      /\ v.barred = row.barred
  <2> HIDE DEF row
  <2> QED
    BY <1>1, <1>2 DEF Run
<1> HIDE DEF v
<1> QED
  BY <1>2, <1>3, Touched

\* A worker with a run in its hands knows where the run is.
LEMMA Holding ==
  ASSUME SchedulerAssumption, Inv, NEW t \in Task,
         worker[t].pc \in {"put", "gather", "full", "delete"}
  PROVE  /\ worker[t].id \in DOMAIN run /\ run[worker[t].id].task = t
         /\ worker[t].posted \subseteq Party(t)
         /\ faults = 0 =>
              /\ run[worker[t].id].held = worker[t].posted
              /\ worker[t].pc # "full" => run[worker[t].id].full = {}
              /\ worker[t].pc = "full" =>
                   run[worker[t].id].full = Before(t, worker[t].next)
              /\ \A r \in DOMAIN run \ {worker[t].id} :
                   run[r].task = t => Settled(t, run[r])
<1>1. WorkerOK(t, worker[t], run)
  BY Facts
<1>2. faults = 0 => Exact(t, worker[t], run)
  BY DEF Inv
<1>3. /\ worker[t].id \in DOMAIN run /\ run[worker[t].id].task = t
      /\ worker[t].posted \subseteq Party(t)
  BY <1>1 DEF WorkerOK
<1>4. faults = 0 =>
        /\ run[worker[t].id].held = worker[t].posted
        /\ worker[t].pc # "full" => run[worker[t].id].full = {}
        /\ worker[t].pc = "full" => run[worker[t].id].full = Before(t, worker[t].next)
        /\ \A r \in DOMAIN run \ {worker[t].id} : run[r].task = t => Settled(t, run[r])
  BY <1>2 DEF Exact, InHand
<1> QED
  BY <1>3, <1>4

\* What a worker has to see to for the run in its hands when it goes on.
LEMMA StillExact ==
  ASSUME NEW t \in Task, NEW w \in Worker, NEW s, NEW z,
         DOMAIN z = DOMAIN s, w.id \in DOMAIN s,
         \A r \in DOMAIN s \ {w.id} : z[r] = s[r],
         \A r \in DOMAIN s \ {w.id} : s[r].task = t => Settled(t, s[r]),
         w.pc \in {"put", "gather", "full", "delete"} \/ Settled(t, z[w.id]),
         w.pc \in {"put", "gather", "full", "delete"} => z[w.id].held = w.posted,
         w.pc \in {"put", "gather", "delete"} => z[w.id].full = {},
         w.pc = "full" => z[w.id].full = Before(t, w.next)
  PROVE  Exact(t, w, z)
<1>1. \A r \in DOMAIN z : z[r].task = t => InHand(w, r) \/ Settled(t, z[r])
  BY DEF InHand
<1> QED
  BY <1>1 DEF Exact

\* Where Abort leaves the worker: the run is taken back from where it is.
LEMMA AbortKeeps ==
  ASSUME SchedulerAssumption, Inv, NEW t \in Task,
         worker[t].pc \in {"put", "gather"} \/ Fault,
         worker[t].pc \in {"put", "gather", "full"},
         \E result \in Results : Abort(t, result),
         UNCHANGED <<now, task, sessions>>,
         UNCHANGED faults \/ Fault,
         \/ UNCHANGED run
         \/ Fault /\ \E n \in Node : Deliver(worker[t].id, n)
  PROVE  Inv'
<1> DEFINE w == worker[t]
<1>1. PICK result \in Results : Abort(t, result)
  OBVIOUS
<1> DEFINE back == [w EXCEPT !.pc = "delete", !.result = result]
<1>2. w \in Worker /\ sessions' \in 0..MaxSessions /\ faults' \in 0..MaxFaults
      /\ (faults' = 0 => faults = 0) /\ task' \in Counts
  BY Facts DEF Inv, TypeOK, Counts
<1>3. w.id \in DOMAIN run /\ run[w.id].task = t /\ w.posted \subseteq Party(t)
  BY Holding
<1>4. worker' = [worker EXCEPT ![t] = back]
  BY <1>1 DEF Abort
<1>5. /\ back \in Worker /\ back.pc = "delete" /\ back.id = w.id
      /\ back.posted = w.posted
  <2> HIDE DEF w
  <2> QED
    BY <1>2 DEF Worker, Steps
<1> HIDE DEF back
<1>6. CASE UNCHANGED run
  <2>1. WorkerOK(t, back, run)
    BY <1>3, <1>5 DEF WorkerOK
  <2>2. ASSUME faults' = 0
        PROVE  Exact(t, back, run)
    <3>1. faults = 0 /\ w.pc # "full"
      BY <1>2, <2>2, Facts
    <3>2. /\ run[w.id].held = w.posted /\ run[w.id].full = {}
          /\ \A r \in DOMAIN run \ {w.id} : run[r].task = t => Settled(t, run[r])
      BY <3>1, Holding
    <3> QED
      BY <1>3, <1>5, <3>2, StillExact
  <2> QED
    BY <1>2, <1>4, <1>5, <1>6, <2>1, <2>2, Move
<1>7. CASE Fault /\ \E n \in Node : Deliver(w.id, n)
  <2>1. /\ Rows(run') /\ Apart(t, run, run') /\ DOMAIN run' = DOMAIN run
        /\ run'[w.id].task = t
    BY <1>3, <1>7, DeliveredRow DEF Inv
  <2>2. WorkerOK(t, back, run')
    BY <1>3, <1>5, <2>1 DEF WorkerOK
  <2>3. faults' # 0
    BY <1>7, Facts
  <2> QED
    BY <1>2, <1>4, <1>5, <2>1, <2>2, <2>3, Step
<1> QED
  BY <1>6, <1>7

\* A run the next participant accepted is one more place to take it back from.
LEMMA PutOtherKeeps ==
  ASSUME SchedulerAssumption, Inv, NEW t \in Task, PutOther(t)
  PROVE  Inv'
<1> DEFINE w == worker[t]
           n == Participants[t][w.next]
           done(posted) == Advance([w EXCEPT !.posted = posted, !.result = "error"],
                                   t, AfterPuts(t, posted))
           inserts == \E barring \in Accepts(n, w.slot) : Insert(w.id, n, barring)
<1>1. /\ w.pc = "put" /\ UNCHANGED <<now, task, sessions>>
      /\ UNCHANGED faults \/ Fault
  BY DEF PutOther
<1>2. w \in Worker /\ sessions' \in 0..MaxSessions /\ faults' \in 0..MaxFaults
      /\ (faults' = 0 => faults = 0) /\ task' \in Counts
  BY <1>1, Facts DEF Inv, TypeOK, Counts
<1>3. /\ w.id \in DOMAIN run /\ run[w.id].task = t /\ w.posted \subseteq Party(t)
      /\ w.posted \subseteq run[w.id].held
      /\ faults = 0 => /\ run[w.id].held = w.posted /\ run[w.id].full = {}
                       /\ \A r \in DOMAIN run \ {w.id} :
                            run[r].task = t => Settled(t, run[r])
  BY <1>1, Holding, Facts DEF WorkerOK
<1>4. w.next \in DOMAIN Participants[t] /\ n \in Party(t) /\ n \in Node
  BY <1>1, Facts, Parties DEF WorkerOK
<1>5. \/ Abort(t, "conflict") /\ UNCHANGED run
      \/ /\ worker' = [worker EXCEPT ![t] = done(w.posted \cup {n})]
         /\ inserts
      \/ /\ Fault
         /\ worker' = [worker EXCEPT ![t] = done(w.posted)]
         /\ UNCHANGED run \/ inserts
  BY DEF PutOther
<1>6. CASE Abort(t, "conflict") /\ UNCHANGED run
  BY <1>1, <1>6, AbortKeeps DEF Results
<1>7. ASSUME NEW p \in SUBSET Party(t)
      PROVE  /\ done(p) \in Worker /\ done(p).posted = p /\ done(p).id = w.id
             /\ \/ done(p).pc = "put" /\ done(p).next \in DOMAIN Participants[t]
                \/ done(p).pc = "gather" /\ p = Party(t)
                \/ done(p).pc = "delete"
  <2> DEFINE v == [w EXCEPT !.posted = p, !.result = "error"]
  <2>1. p \in SUBSET Node /\ "error" \in Results
    BY Parties DEF Results
  <2>2. v \in Worker /\ v.posted = p /\ v.id = w.id /\ v.pc = "put" /\ v.next = w.next
    <3> HIDE DEF w
    <3> QED
      BY <1>1, <1>2, <2>1 DEF Worker, w
  <2>3. w.next \in Nat
    BY <1>2 DEF Worker
  <2> HIDE DEF v
  <2>4. CASE w.next < Len(Participants[t])
    <3>1. done(p) = [v EXCEPT !.next = @ + 1]
      BY <2>2, <2>4 DEF Advance, v
    <3>2. w.next + 1 \in Nat /\ w.next + 1 \in DOMAIN Participants[t]
      BY <1>4, <2>3, <2>4, Parties
    <3> DEFINE k == w.next + 1
               d == [v EXCEPT !.next = k]
    <3>3. done(p) = d
      BY <2>2, <3>1
    <3> HIDE DEF k, w
    <3>4. d \in Worker /\ d.posted = p /\ d.id = w.id /\ d.pc = "put" /\ d.next = k
      BY <2>2, <3>2 DEF Worker, k
    <3> HIDE DEF d, done
    <3> QED
      BY <3>2, <3>3, <3>4 DEF k
  <2>5. CASE ~(w.next < Len(Participants[t]))
    <3> DEFINE pc == AfterPuts(t, p)
    <3>1. done(p) = [v EXCEPT !.pc = pc, !.next = 1]
      BY <2>2, <2>5 DEF Advance, v
    <3>2. pc \in Steps /\ ((pc = "gather" /\ p = Party(t)) \/ pc = "delete")
      BY DEF AfterPuts, Steps
    <3> HIDE DEF pc
    <3>3. [v EXCEPT !.pc = pc, !.next = 1] \in Worker
      BY <2>2, <3>2 DEF Worker
    <3>4. LET d == [v EXCEPT !.pc = pc, !.next = 1]
          IN  d.pc = pc /\ d.posted = p /\ d.id = w.id
      BY <2>2 DEF Worker
    <3> QED
      BY <3>1, <3>2, <3>3, <3>4
  <2> QED
    BY <2>4, <2>5
<1> HIDE DEF done
<1>8. ASSUME inserts
      PROVE  /\ Rows(run') /\ Apart(t, run, run') /\ DOMAIN run' = DOMAIN run
             /\ run'[w.id].held = run[w.id].held \cup {n}
             /\ run'[w.id].full = run[w.id].full
             /\ run'[w.id].task = t
             /\ \A q \in DOMAIN run \ {w.id} : run'[q] = run[q]
  <2>1. PICK barring \in SUBSET {n} : Insert(w.id, n, barring)
    BY <1>8 DEF Accepts
  <2> HIDE DEF w, n
  <2> QED
    BY <1>3, <1>4, <2>1, InsertedRow DEF Inv
<1>9. ASSUME NEW p \in SUBSET Party(t), worker' = [worker EXCEPT ![t] = done(p)],
             Rows(run'), Apart(t, run, run'), DOMAIN run' = DOMAIN run,
             run'[w.id].task = t, p \subseteq run'[w.id].held,
             faults' = 0 =>
               /\ run'[w.id].held = p /\ run'[w.id].full = {}
               /\ \A q \in DOMAIN run \ {w.id} : run'[q] = run[q]
      PROVE  Inv'
  <2>1. WorkerOK(t, done(p), run')
    BY <1>3, <1>7, <1>9 DEF WorkerOK
  <2>2. ASSUME faults' = 0
        PROVE  Exact(t, done(p), run')
    BY <1>2, <1>3, <1>7, <1>9, <2>2, StillExact
  <2> QED
    BY <1>1, <1>2, <1>7, <1>9, <2>1, <2>2, Step
<1>10. CASE worker' = [worker EXCEPT ![t] = done(w.posted \cup {n})] /\ inserts
  <2> DEFINE p == w.posted \cup {n}
  <2>1. p \in SUBSET Party(t)
    BY <1>3, <1>4
  <2>2. p \subseteq run'[w.id].held
    BY <1>3, <1>8, <1>10
  <2>3. faults' = 0 => run'[w.id].held = p /\ run'[w.id].full = {}
    BY <1>2, <1>3, <1>8, <1>10
  <2>4. worker' = [worker EXCEPT ![t] = done(p)]
    BY <1>10
  <2> HIDE DEF p
  <2> QED
    BY <1>8, <1>9, <1>10, <2>1, <2>2, <2>3, <2>4
<1>11. CASE /\ Fault
            /\ worker' = [worker EXCEPT ![t] = done(w.posted)]
            /\ UNCHANGED run \/ inserts
  <2>1. faults' # 0
    BY <1>11, Facts
  <2>2. CASE UNCHANGED run
    <3>1. Rows(run') /\ Apart(t, run, run')
      BY <2>2 DEF Inv, TypeOK, Rows, Apart
    <3> QED
      BY <1>3, <1>9, <1>11, <2>1, <2>2, <3>1
  <2>3. CASE inserts
    BY <1>3, <1>8, <1>9, <1>11, <2>1, <2>3
  <2> QED
    BY <1>11, <2>2, <2>3
<1> QED
  BY <1>5, <1>6, <1>10, <1>11

LEMMA GatherKeeps ==
  ASSUME SchedulerAssumption, Inv, NEW t \in Task, Gather(t)
  PROVE  Inv'
<1> DEFINE w == worker[t]
           on == [w EXCEPT !.pc = "full", !.next = 1]
<1>1. /\ w.pc = "gather" /\ UNCHANGED <<now, run, task, sessions>>
      /\ UNCHANGED faults \/ Fault
      /\ worker' = [worker EXCEPT ![t] = on] \/ Abort(t, "error")
  BY DEF Gather
<1>2. CASE Abort(t, "error")
  BY <1>1, <1>2, AbortKeeps DEF Results
<1>3. CASE worker' = [worker EXCEPT ![t] = on]
  <2>1. w \in Worker /\ WorkerOK(t, w, run) /\ sessions' \in 0..MaxSessions
        /\ faults' \in 0..MaxFaults /\ (faults' = 0 => faults = 0)
    BY <1>1, Facts
  <2>2. /\ on \in Worker /\ on.pc = "full" /\ on.next = 1
        /\ on.id = w.id /\ on.posted = w.posted
    <3> HIDE DEF w
    <3> QED
      BY <2>1 DEF Worker, Steps
  <2> HIDE DEF on
  <2>3. 1 \in DOMAIN Participants[t]
    BY Parties
  <2>4. WorkerOK(t, on, run)
    BY <1>1, <2>1, <2>2, <2>3 DEF WorkerOK
  <2>5. ASSUME faults' = 0
        PROVE  Exact(t, on, run)
    <3>1. /\ w.id \in DOMAIN run
          /\ run[w.id].held = w.posted /\ run[w.id].full = {}
          /\ \A r \in DOMAIN run \ {w.id} : run[r].task = t => Settled(t, run[r])
      BY <1>1, <2>1, <2>5, Holding
    <3>2. Before(t, 1) = {}
      BY DEF Before
    <3> QED
      BY <2>2, <3>1, <3>2, StillExact
  <2> QED
    BY <1>1, <1>3, <2>1, <2>2, <2>4, <2>5, Move
<1> QED
  BY <1>1, <1>2, <1>3

\* The last participant to get the data completes the run.
LEMMA PutFullKeeps ==
  ASSUME SchedulerAssumption, Inv, NEW t \in Task, PutFull(t)
  PROVE  Inv'
<1> DEFINE w == worker[t]
           n == Participants[t][w.next]
           on == Advance([w EXCEPT !.result = "scheduled"], t, "decide")
<1>1. /\ w.pc = "full" /\ UNCHANGED <<now, task, sessions>>
      /\ \/ /\ Deliver(w.id, n) /\ UNCHANGED faults
            /\ worker' = [worker EXCEPT ![t] = on]
         \/ /\ Fault /\ Abort(t, "error")
            /\ Deliver(w.id, n) \/ UNCHANGED run
  BY DEF PutFull
<1>2. /\ w \in Worker /\ WorkerOK(t, w, run) /\ sessions' \in 0..MaxSessions
      /\ faults' \in 0..MaxFaults /\ (faults' = 0 => faults = 0) /\ task' \in Counts
  BY <1>1, Facts DEF Inv, TypeOK, Counts
<1>3. w.next \in DOMAIN Participants[t] /\ w.next \in Nat /\ n \in Node
      /\ w.posted = Party(t) /\ w.posted \subseteq run[w.id].held
  <2>1. /\ w.next \in DOMAIN Participants[t]
        /\ w.posted = Party(t) /\ w.posted \subseteq run[w.id].held
    BY <1>1, <1>2 DEF WorkerOK
  <2>2. w.next \in Nat
    BY <1>2 DEF Worker
  <2> QED
    BY <2>1, <2>2, Parties
<1>4. /\ w.id \in DOMAIN run /\ run[w.id].task = t
      /\ faults = 0 => /\ run[w.id].held = Party(t)
                       /\ run[w.id].full = Before(t, w.next)
                       /\ \A r \in DOMAIN run \ {w.id} :
                            run[r].task = t => Settled(t, run[r])
  BY <1>1, <1>3, Holding
<1>5. CASE Fault /\ Abort(t, "error") /\ (Deliver(w.id, n) \/ UNCHANGED run)
  BY <1>1, <1>3, <1>5, AbortKeeps DEF Results
<1>6. CASE /\ Deliver(w.id, n) /\ UNCHANGED faults
           /\ worker' = [worker EXCEPT ![t] = on]
  <2>1. /\ Rows(run') /\ Apart(t, run, run') /\ DOMAIN run' = DOMAIN run
        /\ run'[w.id].held = run[w.id].held
        /\ run'[w.id].full = run[w.id].full \cup {n}
        /\ run'[w.id].task = t
        /\ \A q \in DOMAIN run \ {w.id} : run'[q] = run[q]
    <3> HIDE DEF w, n
    <3> QED
      BY <1>3, <1>4, <1>6, DeliveredRow, SMTT(30) DEF Inv
  <2> DEFINE v == [w EXCEPT !.result = "scheduled"]
  <2>2. /\ v \in Worker /\ v.pc = "full" /\ v.id = w.id /\ v.posted = w.posted
        /\ v.next = w.next
    <3> HIDE DEF w
    <3> QED
      BY <1>1, <1>2 DEF Worker, Results, w
  <2> HIDE DEF v
  <2>3. /\ Len(Participants[t]) \in Nat
        /\ DOMAIN Participants[t] = 1..Len(Participants[t])
    BY Parties
  <2>4. Before(t, w.next + 1) = Before(t, w.next) \cup {n}
    <3>1. 1..w.next = 1..(w.next - 1) \cup {w.next}
      BY <1>3, <2>3
    <3>2. (w.next + 1) - 1 = w.next
      BY <1>3
    <3> QED
      BY <3>1, <3>2 DEF Before
  <2>5. CASE w.next < Len(Participants[t])
    <3> DEFINE k == w.next + 1
               d == [v EXCEPT !.next = k]
    <3>1. on = d
      BY <2>2, <2>5 DEF Advance, v
    <3>2. k \in Nat /\ k \in DOMAIN Participants[t]
      BY <1>3, <2>3, <2>5
    <3>3. Before(t, k) = Before(t, w.next) \cup {n}
      BY <2>4
    <3> HIDE DEF k
    <3>4. /\ d \in Worker /\ d.posted = w.posted /\ d.id = w.id /\ d.pc = "full"
          /\ d.next = k
      <4> HIDE DEF w
      <4> QED
        BY <2>2, <3>2 DEF Worker
    <3> HIDE DEF d
    <3>5. WorkerOK(t, d, run')
      BY <1>3, <1>4, <2>1, <3>2, <3>4 DEF WorkerOK
    <3>6. ASSUME faults' = 0
          PROVE  Exact(t, d, run')
      <4>1. /\ run'[w.id].held = Party(t) /\ run'[w.id].full = Before(t, k)
            /\ \A r \in DOMAIN run \ {w.id} : run[r].task = t => Settled(t, run[r])
        BY <1>2, <1>4, <2>1, <3>3, <3>6
      <4> QED
        BY <1>3, <1>4, <2>1, <3>4, <4>1, StillExact, ZenonT(40)
    <3> QED
      BY <1>1, <1>2, <1>6, <2>1, <3>1, <3>4, <3>5, <3>6, Step
  <2>6. CASE ~(w.next < Len(Participants[t]))
    <3> DEFINE d == [v EXCEPT !.pc = "decide", !.next = 1]
    <3>1. on = d
      BY <2>2, <2>6 DEF Advance, v
    <3>2. d \in Worker /\ d.id = w.id /\ d.pc = "decide"
      <4> HIDE DEF w
      <4> QED
        BY <2>2 DEF Worker, Steps
    <3> HIDE DEF d
    <3>3. WorkerOK(t, d, run')
      BY <3>2 DEF WorkerOK
    <3>4. ASSUME faults' = 0
          PROVE  Exact(t, d, run')
      <4>1. w.next = Len(Participants[t])
        BY <1>3, <2>3, <2>6
      <4>2. Before(t, w.next + 1) = Party(t)
        <5>1. (w.next + 1) - 1 = w.next
          BY <1>3
        <5> QED
          BY <2>3, <4>1, <5>1 DEF Before, Party
      <4>3. /\ run'[w.id].full = Party(t)
            /\ \A r \in DOMAIN run \ {w.id} : run[r].task = t => Settled(t, run[r])
        BY <1>2, <1>4, <2>1, <2>4, <3>4, <4>2
      <4>4. Settled(t, run'[w.id])
        BY <4>3 DEF Settled
      <4> QED
        BY <1>4, <2>1, <3>2, <4>3, <4>4, StillExact
    <3> QED
      BY <1>1, <1>2, <1>6, <2>1, <3>1, <3>2, <3>3, <3>4, Step
  <2> QED
    BY <2>5, <2>6
<1> QED
  BY <1>1, <1>5, <1>6

\* One row less, or none left.
LEMMA DeleteKeeps ==
  ASSUME SchedulerAssumption, Inv, NEW t \in Task, Delete(t)
  PROVE  Inv'
<1> DEFINE w == worker[t]
           done == [w EXCEPT !.pc = "decide"]
           less(n) == [w EXCEPT !.posted = @ \ {n}]
<1>1. /\ w.pc = "delete" /\ UNCHANGED <<now, task, sessions>>
      /\ UNCHANGED faults \/ Fault
      /\ \/ /\ w.posted = {} /\ UNCHANGED <<run, faults>>
            /\ worker' = [worker EXCEPT ![t] = done]
         \/ \E i \in DOMAIN Participants[t] :
              /\ worker' = [worker EXCEPT ![t] = less(Participants[t][i])]
              /\ \/ Remove(w.id, Participants[t][i])
                 \/ Fault /\ UNCHANGED run
  BY DEF Delete, Goto
<1>2. /\ w \in Worker /\ sessions' \in 0..MaxSessions
      /\ faults' \in 0..MaxFaults /\ (faults' = 0 => faults = 0) /\ task' \in Counts
  BY <1>1, Facts DEF Inv, TypeOK, Counts
<1>3. /\ w.id \in DOMAIN run /\ run[w.id].task = t /\ w.posted \subseteq Party(t)
      /\ faults = 0 => /\ run[w.id].held = w.posted /\ run[w.id].full = {}
                       /\ \A r \in DOMAIN run \ {w.id} :
                            run[r].task = t => Settled(t, run[r])
  BY <1>1, Holding
<1>4. CASE /\ w.posted = {} /\ UNCHANGED <<run, faults>>
           /\ worker' = [worker EXCEPT ![t] = done]
  <2>1. done \in Worker /\ done.pc = "decide" /\ done.id = w.id
    <3> HIDE DEF w
    <3> QED
      BY <1>2 DEF Worker, Steps
  <2> HIDE DEF done
  <2>2. WorkerOK(t, done, run)
    BY <2>1 DEF WorkerOK
  <2>3. ASSUME faults' = 0
        PROVE  Exact(t, done, run)
    <3>1. Settled(t, run[w.id])
      BY <1>2, <1>3, <1>4, <2>3 DEF Settled
    <3> QED
      BY <1>2, <1>3, <2>1, <2>3, <3>1, StillExact
  <2> QED
    BY <1>1, <1>2, <1>4, <2>1, <2>2, <2>3, Move
<1>5. ASSUME NEW n \in Party(t), worker' = [worker EXCEPT ![t] = less(n)],
             Remove(w.id, n) \/ (Fault /\ UNCHANGED run)
      PROVE  Inv'
  <2>1. n \in Node
    BY Parties
  <2>2. /\ less(n) \in Worker /\ less(n).pc = "delete" /\ less(n).id = w.id
        /\ less(n).posted = w.posted \ {n}
    <3> HIDE DEF w
    <3> QED
      BY <1>1, <1>2 DEF Worker, w
  <2> HIDE DEF less
  <2>3. CASE Remove(w.id, n)
    <3>1. /\ Rows(run') /\ Apart(t, run, run') /\ DOMAIN run' = DOMAIN run
          /\ run'[w.id].held = run[w.id].held \ {n}
          /\ run'[w.id].full = run[w.id].full \ {n}
          /\ run'[w.id].task = t
          /\ \A q \in DOMAIN run \ {w.id} : run'[q] = run[q]
      <4> HIDE DEF w
      <4> QED
        BY <1>3, <2>1, <2>3, RemovedRow DEF Inv
    <3>2. WorkerOK(t, less(n), run')
      BY <1>3, <2>2, <3>1 DEF WorkerOK
    <3>3. ASSUME faults' = 0
          PROVE  Exact(t, less(n), run')
      <4>1. /\ run'[w.id].held = w.posted \ {n} /\ run'[w.id].full = {}
            /\ \A r \in DOMAIN run \ {w.id} : run[r].task = t => Settled(t, run[r])
        BY <1>2, <1>3, <3>1, <3>3
      <4> QED
        BY <1>3, <2>2, <3>1, <4>1, StillExact
    <3> QED
      BY <1>1, <1>2, <1>5, <2>2, <3>1, <3>2, <3>3, Step
  <2>4. CASE Fault /\ UNCHANGED run
    <3>1. faults' # 0
      BY <2>4, Facts
    <3>2. WorkerOK(t, less(n), run)
      BY <1>3, <2>2 DEF WorkerOK
    <3> QED
      BY <1>1, <1>2, <1>5, <2>2, <2>4, <3>1, <3>2, Move
  <2> QED
    BY <1>5, <2>3, <2>4
<1>6. \A i \in DOMAIN Participants[t] : Participants[t][i] \in Party(t)
  BY Parties
<1> HIDE DEF done, less
<1> QED
  BY <1>1, <1>4, <1>5, <1>6

LEMMA DecideKeeps ==
  ASSUME SchedulerAssumption, Inv, NEW t \in Task, Decide(t)
  PROVE  Inv'
<1> DEFINE w == worker[t]
           again == [w EXCEPT !.pc = "try"]
           off == [w EXCEPT !.pc = "nonstart"]
<1>1. /\ w.pc = "decide" /\ UNCHANGED <<now, run, task, sessions, faults>>
      /\ \/ worker' = [worker EXCEPT ![t] = again] /\ w.left > 0
         \/ worker' = [worker EXCEPT ![t] = off]
         \/ worker' = [worker EXCEPT ![t] = Idle]
  BY DEF Decide, Retry
<1>2. w \in Worker /\ sessions' \in 0..MaxSessions /\ faults' \in 0..MaxFaults
      /\ (faults' = 0 => faults = 0)
  BY <1>1, Facts
<1>3. /\ again \in Worker /\ again.pc = "try" /\ again.left = w.left
      /\ off \in Worker /\ off.pc = "nonstart"
  <2> HIDE DEF w
  <2> QED
    BY <1>2 DEF Worker, Steps
<1>4. Idle \in Worker /\ Idle.pc = "idle"
  BY IdleTyped DEF Idle
<1> HIDE DEF again, off
<1>5. CASE worker' = [worker EXCEPT ![t] = again] /\ w.left > 0
  BY <1>1, <1>2, <1>3, <1>5, IdleMove
<1>6. CASE worker' = [worker EXCEPT ![t] = off]
  BY <1>1, <1>2, <1>3, <1>6, IdleMove
<1>7. CASE worker' = [worker EXCEPT ![t] = Idle]
  BY <1>1, <1>2, <1>4, <1>7, IdleMove
<1> QED
  BY <1>1, <1>5, <1>6, <1>7

LEMMA NonStartKeeps ==
  ASSUME SchedulerAssumption, Inv, NEW t \in Task, NonStart(t)
  PROVE  Inv'
<1> DEFINE w == worker[t]
<1>1. /\ w.pc = "nonstart" /\ UNCHANGED <<now, sessions>>
      /\ worker' = [worker EXCEPT ![t] = Idle]
      /\ \/ InsertOnLead(t, w.wanted, {Lead(t)}) /\ UNCHANGED faults
         \/ Fault /\ UNCHANGED <<run, task>>
  BY DEF NonStart
<1>2. w \in Worker /\ w.wanted \in Int
  <2>1. w \in Worker
    BY Facts
  <2> QED
    BY <2>1 DEF Worker
<1>3. sessions' \in 0..MaxSessions /\ faults' \in 0..MaxFaults
      /\ (faults' = 0 => faults = 0)
  BY <1>1, Facts
<1>4. Idle \in Worker /\ Idle.pc = "idle"
  BY IdleTyped DEF Idle
<1>5. CASE InsertOnLead(t, w.wanted, {Lead(t)}) /\ UNCHANGED faults
  <2> DEFINE id == Len(run) + 1
  <2>1. /\ Rows(run') /\ task' \in Counts /\ Apart(t, run, run')
        /\ DOMAIN run' = DOMAIN run \cup {id}
        /\ run'[id].held = {Lead(t)} /\ run'[id].barred = {Lead(t)}
        /\ \A r \in DOMAIN run : run'[r] = run[r]
    <3> DEFINE lead == {Lead(t)}
    <3>1. lead \in SUBSET {Lead(t)} /\ TypeOK
      BY DEF Inv
    <3>2. InsertOnLead(t, w.wanted, lead)
      BY <1>5
    <3> HIDE DEF w, lead
    <3>3. /\ Rows(run') /\ task' \in Counts /\ Apart(t, run, run')
          /\ DOMAIN run' = DOMAIN run \cup {id}
          /\ run'[id] = [task |-> t, start |-> w.wanted, held |-> {Lead(t)},
                         barred |-> lead, full |-> {}]
          /\ \A r \in DOMAIN run : run'[r] = run[r]
      BY <1>2, <3>1, <3>2, Inserted
    <3> QED
      BY <3>3 DEF lead
  <2> HIDE DEF id
  <2>2. WorkerOK(t, Idle, run')
    BY <1>4 DEF WorkerOK
  <2>3. ASSUME faults' = 0
        PROVE  Exact(t, Idle, run')
    <3>1. Exact(t, w, run)
      BY <1>3, <2>3 DEF Inv
    <3>2. \A r \in DOMAIN run : run[r].task = t => Settled(t, run[r])
      BY <1>1, <3>1 DEF Exact, InHand
    <3>3. Settled(t, run'[id])
      BY <2>1 DEF Settled
    <3> QED
      BY <1>4, <2>1, <3>2, <3>3 DEF Exact
  <2> QED
    BY <1>1, <1>3, <1>4, <2>1, <2>2, <2>3, Step
<1>6. CASE Fault /\ UNCHANGED <<run, task>>
  BY <1>1, <1>3, <1>4, <1>6, IdleMove
<1> QED
  BY <1>1, <1>5, <1>6

\* Workers that die leave their runs as they are, and something has failed.
LEMMA CrashKeeps ==
  ASSUME SchedulerAssumption, Inv, NEW n \in Node, Crash(n)
  PROVE  Inv'
<1>1. /\ Fault /\ UNCHANGED <<now, run, task, sessions>>
      /\ worker' = [t \in Task |-> IF Lead(t) = n THEN Idle ELSE worker[t]]
  BY DEF Crash
<1>2. faults' \in 0..MaxFaults /\ faults' # 0
  BY <1>1 DEF Fault, Inv, TypeOK, SchedulerAssumption
<1>3. \A t \in Task : worker'[t] \in Worker /\ WorkerOK(t, worker'[t], run)
  <2>1. Idle \in Worker /\ Idle.pc = "idle"
    BY IdleTyped DEF Idle
  <2>2. \A t \in Task : WorkerOK(t, Idle, run)
    BY <2>1 DEF WorkerOK
  <2>3. \A t \in Task : worker[t] \in Worker /\ WorkerOK(t, worker[t], run)
    BY DEF Inv, TypeOK
  <2> QED
    BY <1>1, <2>1, <2>2, <2>3
<1>4. worker' \in [Task -> Worker]
  BY <1>1, <1>3
<1> QED
  BY <1>1, <1>2, <1>3, <1>4 DEF Inv, TypeOK

LEMMA TickKeeps ==
  ASSUME SchedulerAssumption, Inv, Tick
  PROVE  Inv'
<1>1. now' \in 0..MaxTime
  BY DEF Tick, Inv, TypeOK, SchedulerAssumption
<1> QED
  BY <1>1 DEF Tick, Inv, TypeOK

LEMMA InitHolds ==
  ASSUME SchedulerAssumption, Init
  PROVE  Inv
<1>1. worker \in [Task -> Worker] /\ \A t \in Task : worker[t].pc = "idle"
  BY IdleTyped DEF Init, Idle
<1>2. run \in Seq(Run) /\ DOMAIN run = {}
  BY EmptySeq DEF Init
<1>3. task \in Counts
  BY DEF Init, Counts
<1>4. now \in 0..MaxTime /\ sessions \in 0..MaxSessions /\ faults \in 0..MaxFaults
  BY DEF Init, SchedulerAssumption
<1>5. TypeOK
  BY <1>1, <1>2, <1>3, <1>4 DEF TypeOK, Counts
<1>6. \A t \in Task : WorkerOK(t, worker[t], run) /\ Exact(t, worker[t], run)
  BY <1>1, <1>2 DEF WorkerOK, Exact
<1> QED
  BY <1>5, <1>6 DEF Inv

LEMMA StutterKeeps ==
  ASSUME Inv, UNCHANGED vars
  PROVE  Inv'
BY DEF Inv, TypeOK, vars

\* Inv is inductive.
LEMMA Inductive == SchedulerAssumption /\ Inv /\ [Next]_vars => Inv'
<1> SUFFICES ASSUME SchedulerAssumption, Inv, [Next]_vars
             PROVE  Inv'
  OBVIOUS
<1>1. CASE UNCHANGED vars
  BY <1>1, StutterKeeps
<1>2. CASE Tick
  BY <1>2, TickKeeps
<1>3. CASE \E n \in Node : Crash(n)
  BY <1>3, CrashKeeps
<1>4. ASSUME NEW t \in Task, Start(t) \/ Work(t)
      PROVE  Inv'
  BY <1>4, StartKeeps, TryKeeps, ProposeKeeps, PostLeadKeeps, PutOtherKeeps,
     GatherKeeps, PutFullKeeps, DeleteKeeps, DecideKeeps, NonStartKeeps DEF Work
<1> QED
  BY <1>1, <1>2, <1>3, <1>4 DEF Next

LEMMA AlwaysInv == Spec => []Inv
<1>1. Init => Inv
  BY SchedulerAssumption, InitHolds
<1>2. Inv /\ [Next]_vars => Inv'
  BY SchedulerAssumption, Inductive
<1> QED
  BY <1>1, <1>2, PTL DEF Spec
-----------------------------------------------------------------------------
\* Every variable keeps its type, and only rows a node holds are non-starters
\* or have data (the steps of schedule_task and run_post, scheduler:205-815).
THEOREM SchedulerTypeCorrect == Spec => []TypeOK
<1>1. Inv => TypeOK
  BY DEF Inv
<1> QED
  BY <1>1, AlwaysInv, PTL

\* While nothing fails, every run is on all of its participants with all data,
\* on none, a non-starter on the lead, or in the hands of its worker
\* (scheduler:604-661), however many tasks compete for the same times.
THEOREM Placement == Spec => []AllOrNothing
<1>1. Inv => AllOrNothing
  <2> SUFFICES ASSUME Inv, faults = 0, NEW r \in DOMAIN run
               PROVE  \/ Busy(run[r].task, r)
                      \/ run[r].held = {}
                      \/ run[r].full = Party(run[r].task)
                      \/ /\ run[r].held = {Lead(run[r].task)}
                         /\ run[r].barred = {Lead(run[r].task)}
    BY DEF AllOrNothing
  <2> DEFINE t == run[r].task
  <2>1. t \in Task
    <3>1. run[r] \in Run
      BY RowOf DEF Inv
    <3> QED
      BY <3>1 DEF Run
  <2>2. InHand(worker[t], r) \/ Settled(t, run[r])
    BY <2>1 DEF Inv, Exact
  <2> QED
    BY <2>2 DEF InHand, Settled, Busy
<1> QED
  BY <1>1, AlwaysInv, PTL

\* What a step of a worker does to the data of a run.
LEMMA DataStep ==
  ASSUME SchedulerAssumption, Inv, NEW t \in Task, Start(t) \/ Work(t),
         NEW r \in DOMAIN run
  PROVE  run'[r].full \subseteq run[r].full \/ Party(run[r].task) \subseteq run[r].held
<1> DEFINE w == worker[t]
<1>1. \A n \in Party(t) : n \in Node
  BY Parties
<1>2. CASE UNCHANGED run
  BY <1>2
<1>3. ASSUME NEW start \in Int, NEW barring \in SUBSET {Lead(t)},
             InsertOnLead(t, start, barring)
      PROVE  run'[r] = run[r]
  BY <1>3, Inserted DEF Inv
<1>4. CASE PostLead(t)
  <2>1. w.slot \in Int
    <3>1. w \in Worker
      BY Facts
    <3> QED
      BY <3>1 DEF Worker
  <2>2. UNCHANGED run \/ \E barring \in SUBSET {Lead(t)} : InsertOnLead(t, w.slot, barring)
    BY <1>4 DEF PostLead, Accepts
  <2> QED
    BY <1>2, <1>3, <2>1, <2>2
<1>5. CASE NonStart(t)
  <2>1. w.wanted \in Int
    <3>1. w \in Worker
      BY Facts
    <3> QED
      BY <3>1 DEF Worker
  <2>2. UNCHANGED run \/ InsertOnLead(t, w.wanted, {Lead(t)})
    BY <1>5 DEF NonStart
  <2> QED
    BY <1>2, <1>3, <2>1, <2>2
<1>6. CASE PutOther(t)
  <2> DEFINE n == Participants[t][w.next]
  <2>1. w.pc = "put"
        /\ (UNCHANGED run \/ \E barring \in Accepts(n, w.slot) : Insert(w.id, n, barring))
    BY <1>6 DEF PutOther
  <2>2. CASE \E barring \in Accepts(n, w.slot) : Insert(w.id, n, barring)
    <3>1. PICK barring \in SUBSET {n} : Insert(w.id, n, barring)
      BY <2>2 DEF Accepts
    <3>2. n \in Node /\ w.id \in DOMAIN run /\ run[w.id].task = t
      BY <1>1, <2>1, Facts, Holding, Parties DEF WorkerOK
    <3>3. /\ run'[w.id].full = run[w.id].full
          /\ \A q \in DOMAIN run \ {w.id} : run'[q] = run[q]
      <4> HIDE DEF w, n
      <4> QED
        BY <3>1, <3>2, InsertedRow DEF Inv
    <3> QED
      BY <3>3
  <2> QED
    BY <1>2, <2>1, <2>2
<1>7. CASE Delete(t)
  <2>1. w.pc = "delete" /\ (UNCHANGED run \/ \E n \in Party(t) : Remove(w.id, n))
    BY <1>7, Parties DEF Delete
  <2>2. ASSUME NEW n \in Party(t), Remove(w.id, n)
        PROVE  run'[r].full \subseteq run[r].full
    <3>1. w.id \in DOMAIN run /\ run[w.id].task = t
      BY <2>1, Holding
    <3>2. /\ run'[w.id].full = run[w.id].full \ {n}
          /\ \A q \in DOMAIN run \ {w.id} : run'[q] = run[q]
      <4> HIDE DEF w
      <4> QED
        BY <1>1, <2>2, <3>1, RemovedRow DEF Inv
    <3> QED
      BY <3>2
  <2> QED
    BY <1>2, <2>1, <2>2
<1>8. CASE PutFull(t)
  <2> DEFINE n == Participants[t][w.next]
  <2>1. w.pc = "full" /\ (UNCHANGED run \/ Deliver(w.id, n))
    BY <1>8 DEF PutFull
  <2>2. CASE Deliver(w.id, n)
    <3>1. /\ w.next \in DOMAIN Participants[t] /\ Party(t) \subseteq run[w.id].held
          /\ w.id \in DOMAIN run /\ run[w.id].task = t
      <4>1. WorkerOK(t, w, run)
        BY Facts
      <4> QED
        BY <2>1, <4>1 DEF WorkerOK
    <3>2. n \in Node
      BY <3>1, Parties
    <3>3. \A q \in DOMAIN run \ {w.id} : run'[q] = run[q]
      <4> HIDE DEF w, n
      <4> QED
        BY <2>2, <3>1, <3>2, DeliveredRow DEF Inv
    <3> QED
      BY <3>1, <3>3
  <2> QED
    BY <1>2, <2>1, <2>2
<1>9. CASE Start(t) \/ Try(t) \/ Propose(t) \/ Gather(t) \/ Decide(t)
  <2>1. UNCHANGED run
    BY <1>9 DEF Start, Try, Propose, Gather, Decide
  <2> QED
    BY <1>2, <2>1
<1> QED
  BY <1>4, <1>5, <1>6, <1>7, <1>8, <1>9 DEF Work

\* No participant gets the data that makes it execute a run before all of them
\* have accepted the run, whatever fails (scheduler:604-661).
THEOREM DataAfterAll == Spec => FullOnlyWhenAllHold
<1>1. Inv /\ [Next]_vars
        => [\A r \in DOMAIN run :
              run'[r].full \subseteq run[r].full
              \/ Party(run[r].task) \subseteq run[r].held]_vars
  <2> SUFFICES ASSUME Inv, Next
               PROVE  \A r \in DOMAIN run :
                        run'[r].full \subseteq run[r].full
                        \/ Party(run[r].task) \subseteq run[r].held
    OBVIOUS
  <2>1. CASE Tick \/ \E n \in Node : Crash(n)
    BY <2>1 DEF Tick, Crash
  <2>2. CASE \E t \in Task : Start(t) \/ Work(t)
    BY <2>2, SchedulerAssumption, DataStep
  <2> QED
    BY <2>1, <2>2 DEF Next
<1> QED
  BY <1>1, AlwaysInv, PTL DEF Spec, FullOnlyWhenAllHold
-----------------------------------------------------------------------------
(***************************************************************************)
(* No task gets more runs that its lead would execute than its limit.      *)
(* That a task is below its limit is looked at once, when its worker is    *)
(* started; the worker may insert any number of runs after that, since it  *)
(* may try again.  What keeps the limit is that a worker gives the lead    *)
(* the data of at most one of them: after that it never tries again.       *)
(***************************************************************************)

\* The runs of t there ever were, and those its lead would execute.
Counted(t, s) == {r \in DOMAIN s : s[r].task = t}
Executed(t, s) == {r \in Counted(t, s) : Lead(t) \in s[r].full \ s[r].barred}

\* A worker that may yet give its lead all data.
Early(w) ==
  \/ w.pc \in {"try", "propose", "lead", "put", "gather"}
  \/ w.pc = "full" /\ w.next = 1
  \/ w.pc \in {"delete", "decide"} /\ w.result = "conflict"

\* What holds of t, w being its worker, s the runs and n its count of runs.
Within(t, w, s, n) ==
  /\ Cardinality(Counted(t, s)) <= n
  /\ Cardinality(Executed(t, s)) <= Limit[t]
  /\ Early(w) => Cardinality(Executed(t, s)) < Limit[t]

LimitInv == \A t \in Task : Within(t, worker[t], run, task[t].runs)

\* There are finitely many runs.
LEMMA Sizes ==
  ASSUME NEW t, NEW s \in Seq(Run)
  PROVE  /\ IsFiniteSet(Counted(t, s)) /\ IsFiniteSet(Executed(t, s))
         /\ Cardinality(Counted(t, s)) \in Nat /\ Cardinality(Executed(t, s)) \in Nat
         /\ Cardinality(Executed(t, s)) <= Cardinality(Counted(t, s))
<1>1. IsFiniteSet(DOMAIN s)
  <2>1. DOMAIN s = 1..Len(s) /\ Len(s) \in Int
    BY LenProperties
  <2> QED
    BY <2>1, FS_Interval
<1>2. IsFiniteSet(Counted(t, s))
  BY <1>1, FS_Subset DEF Counted
<1>3. /\ IsFiniteSet(Executed(t, s))
      /\ Cardinality(Executed(t, s)) <= Cardinality(Counted(t, s))
  BY <1>2, FS_Subset DEF Executed
<1> QED
  BY <1>2, <1>3, FS_CardinalityType

\* A step that leaves the tables alone, and after which no worker may do more.
LEMMA LimitQuiet ==
  ASSUME LimitInv, UNCHANGED <<run, task>>,
         \A t \in Task : Early(worker'[t]) => Early(worker[t])
  PROVE  LimitInv'
BY DEF LimitInv, Within, Counted, Executed

\* A step of t's worker.
LEMMA LimitStep ==
  ASSUME LimitInv, TypeOK, NEW t \in Task, NEW w,
         worker' = [worker EXCEPT ![t] = w],
         Apart(t, run, run'), \A u \in Task \ {t} : task'[u] = task[u],
         Within(t, w, run', task'[t].runs)
  PROVE  LimitInv'
<1>1. worker'[t] = w /\ \A u \in Task \ {t} : worker'[u] = worker[u]
  BY DEF TypeOK
<1>2. ASSUME NEW u \in Task \ {t}
      PROVE  Within(u, worker'[u], run', task'[u].runs)
  <2>1. Within(u, worker[u], run, task[u].runs)
    BY DEF LimitInv
  <2>2. Counted(u, run') = Counted(u, run)
    BY DEF Apart, Counted
  <2>3. Executed(u, run') = Executed(u, run)
    <3>1. \A r \in Counted(u, run) : run'[r] = run[r]
      BY DEF Apart, Counted
    <3> QED
      BY <2>2, <3>1 DEF Executed
  <2> QED
    BY <1>1, <2>1, <2>2, <2>3 DEF Within
<1> QED
  BY <1>1, <1>2 DEF LimitInv

\* One after which the lead would execute no run that it would not before.
LEMMA LimitNarrower ==
  ASSUME LimitInv, TypeOK, TypeOK', NEW t \in Task, NEW w,
         worker' = [worker EXCEPT ![t] = w], UNCHANGED task,
         Apart(t, run, run'), DOMAIN run' = DOMAIN run,
         \A r \in DOMAIN run :
           Lead(t) \in run'[r].full \ run'[r].barred => Lead(t) \in run[r].full \ run[r].barred,
         Early(w) => Early(worker[t])
  PROVE  LimitInv'
<1>1. run \in Seq(Run) /\ run' \in Seq(Run)
  BY DEF TypeOK
<1>2. Counted(t, run') = Counted(t, run)
  BY DEF Apart, Counted
<1>3. Executed(t, run') \subseteq Executed(t, run)
  BY <1>2 DEF Executed, Counted
<1>4. /\ Cardinality(Executed(t, run')) <= Cardinality(Executed(t, run))
      /\ Cardinality(Executed(t, run')) \in Nat /\ Cardinality(Executed(t, run)) \in Nat
  BY <1>1, <1>3, Sizes, FS_Subset
<1>5. Within(t, worker[t], run, task[t].runs) /\ task[t].runs \in Nat
  BY DEF LimitInv, TypeOK
<1>6. Within(t, w, run', task'[t].runs)
  <2>1. Cardinality(Executed(t, run')) <= Limit[t]
    BY <1>4, <1>5, SchedulerAssumption DEF SchedulerAssumption, Within
  <2>2. Early(w) => Cardinality(Executed(t, run')) < Limit[t]
    BY <1>4, <1>5, SchedulerAssumption DEF SchedulerAssumption, Within
  <2> QED
    BY <1>2, <1>5, <2>1, <2>2 DEF Within
<1> QED
  BY <1>6, LimitStep

\* One with a new run on the lead.
LEMMA LimitInserted ==
  ASSUME LimitInv, TypeOK, NEW t \in Task, NEW w,
         worker' = [worker EXCEPT ![t] = w],
         NEW start \in Int, NEW barring \in SUBSET {Lead(t)},
         InsertOnLead(t, start, barring),
         Early(w) => Early(worker[t])
  PROVE  LimitInv'
<1> DEFINE new == Len(run) + 1
<1>1. /\ Apart(t, run, run')
      /\ DOMAIN run' = DOMAIN run \cup {new} /\ new \notin DOMAIN run
      /\ run'[new] = [task |-> t, start |-> start, held |-> {Lead(t)},
                      barred |-> barring, full |-> {}]
      /\ \A r \in DOMAIN run : run'[r] = run[r]
  BY Inserted, SchedulerAssumption
<1> HIDE DEF new
<1>2. run'[new].task = t /\ run'[new].full = {}
  BY <1>1
<1>3. run \in Seq(Run) /\ task[t].runs \in Nat
  BY DEF TypeOK
<1>4. task'[t].runs = task[t].runs + 1 /\ \A u \in Task \ {t} : task'[u] = task[u]
  BY DEF InsertOnLead, TypeOK
<1>5. Counted(t, run') = Counted(t, run) \cup {new} /\ new \notin Counted(t, run)
  BY <1>1, <1>2 DEF Counted
<1>6. Executed(t, run') = Executed(t, run)
  BY <1>1, <1>2, <1>5 DEF Executed, Counted
<1>7. /\ IsFiniteSet(Counted(t, run)) /\ Cardinality(Counted(t, run)) \in Nat
      /\ Cardinality(Counted(t, run')) = Cardinality(Counted(t, run)) + 1
  BY <1>3, <1>5, Sizes, FS_AddElement
<1>8. Within(t, worker[t], run, task[t].runs)
  BY DEF LimitInv
<1>9. Within(t, w, run', task'[t].runs)
  <2>1. Cardinality(Counted(t, run')) <= task'[t].runs
    BY <1>3, <1>4, <1>7, <1>8 DEF Within
  <2> QED
    BY <1>6, <1>8, <2>1 DEF Within
<1> QED
  BY <1>1, <1>4, <1>9, LimitStep

LEMMA StartLimit ==
  ASSUME Inv, LimitInv, NEW t \in Task, Start(t)
  PROVE  LimitInv'
<1>1. /\ UNCHANGED <<run, task>> /\ task[t].runs < Limit[t]
      /\ \E v : worker' = [worker EXCEPT ![t] = v]
  BY DEF Start, Selectable
<1>2. PICK v : worker' = [worker EXCEPT ![t] = v]
  BY <1>1
<1>3. TypeOK /\ run \in Seq(Run) /\ task[t].runs \in Nat /\ Limit[t] \in Nat
  BY SchedulerAssumption DEF Inv, TypeOK, SchedulerAssumption
<1>4. Within(t, v, run, task[t].runs)
  <2>1. Within(t, worker[t], run, task[t].runs)
    BY DEF LimitInv
  <2>2. Cardinality(Executed(t, run)) < Limit[t]
    BY <1>1, <1>3, <2>1, Sizes DEF Within
  <2> QED
    BY <2>1, <2>2 DEF Within
<1>5. Apart(t, run, run')
  BY <1>1 DEF Apart
<1> QED
  BY <1>1, <1>2, <1>3, <1>4, <1>5, LimitStep

\* Steps of a worker that leave the tables alone.
LEMMA QuietLimit ==
  ASSUME Inv, LimitInv, NEW t \in Task, Try(t) \/ Propose(t) \/ Gather(t) \/ Decide(t)
  PROVE  LimitInv'
<1>1. UNCHANGED <<run, task>> /\ \E v : worker' = [worker EXCEPT ![t] = v]
  BY DEF Try, Propose, Gather, Decide, Return, Abort
<1>2. worker \in [Task -> Worker] /\ worker[t] \in Worker
  BY DEF Inv, TypeOK
<1>3. CASE Try(t) \/ Propose(t) \/ Gather(t)
  <2>1. Early(worker[t])
    BY <1>3 DEF Try, Propose, Gather, Early
  <2> QED
    BY <1>1, <1>2, <2>1, LimitQuiet
<1>4. CASE Decide(t)
  <2> DEFINE w == worker[t]
             off == [w EXCEPT !.pc = "nonstart"]
  <2>1. w.pc = "decide" /\ (w.result = "conflict" \/ worker' = [worker EXCEPT ![t] = off]
                            \/ worker' = [worker EXCEPT ![t] = Idle])
    BY <1>4 DEF Decide, Retry
  <2>2. ~Early(off) /\ ~Early(Idle)
    <3>1. off.pc = "nonstart" /\ Idle.pc = "idle"
      <4> HIDE DEF w
      <4> QED
        BY <1>2 DEF Worker, Idle, w
    <3> HIDE DEF off
    <3> QED
      BY <3>1 DEF Early
  <2>3. Early(worker'[t]) => Early(w)
    <3>1. CASE w.result = "conflict"
      BY <2>1, <3>1 DEF Early
    <3>2. CASE worker'[t] = off \/ worker'[t] = Idle
      <4> HIDE DEF off
      <4> QED
        BY <2>2, <3>2
    <3> HIDE DEF off
    <3> QED
      BY <1>2, <2>1, <3>1, <3>2
  <2> QED
    BY <1>1, <1>2, <2>3, LimitQuiet
<1> QED
  BY <1>3, <1>4

LEMMA PostLeadLimit ==
  ASSUME Inv, LimitInv, NEW t \in Task, PostLead(t)
  PROVE  LimitInv'
<1> DEFINE w == worker[t]
<1>1. /\ Early(w) /\ \E v : worker' = [worker EXCEPT ![t] = v]
      /\ \/ UNCHANGED <<run, task>>
         \/ \E barring \in SUBSET {Lead(t)} : InsertOnLead(t, w.slot, barring)
  BY DEF PostLead, Return, Accepts, Early
<1>2. PICK v : worker' = [worker EXCEPT ![t] = v]
  BY <1>1
<1>3. TypeOK /\ w.slot \in Int
  BY DEF Inv, TypeOK, Worker
<1>4. CASE UNCHANGED <<run, task>>
  BY <1>1, <1>2, <1>3, <1>4, LimitQuiet DEF TypeOK
<1>5. CASE \E barring \in SUBSET {Lead(t)} : InsertOnLead(t, w.slot, barring)
  BY <1>1, <1>2, <1>3, <1>5, LimitInserted
<1> QED
  BY <1>1, <1>4, <1>5

LEMMA NonStartLimit ==
  ASSUME Inv, LimitInv, NEW t \in Task, NonStart(t)
  PROVE  LimitInv'
<1> DEFINE w == worker[t]
<1>1. /\ worker' = [worker EXCEPT ![t] = Idle]
      /\ UNCHANGED <<run, task>> \/ InsertOnLead(t, w.wanted, {Lead(t)})
  BY DEF NonStart
<1>2. TypeOK /\ w.wanted \in Int
  BY DEF Inv, TypeOK, Worker
<1>3. ~Early(Idle)
  <2>1. Idle.pc = "idle"
    BY DEF Idle
  <2> QED
    BY <2>1 DEF Early
<1>4. CASE UNCHANGED <<run, task>>
  BY <1>1, <1>2, <1>3, <1>4, LimitQuiet DEF TypeOK
<1>5. CASE InsertOnLead(t, w.wanted, {Lead(t)})
  BY <1>1, <1>2, <1>3, <1>5, LimitInserted
<1> QED
  BY <1>1, <1>4, <1>5

\* Putting a run on a participant gives it no data of others.
LEMMA PutOtherLimit ==
  ASSUME Inv, Inv', LimitInv, NEW t \in Task, PutOther(t)
  PROVE  LimitInv'
<1> DEFINE w == worker[t]
           n == Participants[t][w.next]
<1>1. /\ w.pc = "put" /\ UNCHANGED task /\ \E v : worker' = [worker EXCEPT ![t] = v]
      /\ UNCHANGED run \/ \E barring \in SUBSET {n} : Insert(w.id, n, barring)
  BY DEF PutOther, Abort, Accepts
<1>2. PICK v : worker' = [worker EXCEPT ![t] = v]
  BY <1>1
<1>3. TypeOK /\ TypeOK' /\ Early(w)
  BY <1>1 DEF Inv, Early
<1>4. CASE UNCHANGED run
  BY <1>1, <1>2, <1>3, <1>4, LimitQuiet DEF TypeOK
<1>5. CASE \E barring \in SUBSET {n} : Insert(w.id, n, barring)
  <2>1. PICK barring \in SUBSET {n} : Insert(w.id, n, barring)
    BY <1>5
  <2>2. n \in Node /\ w.id \in DOMAIN run /\ run[w.id].task = t
    BY <1>1, SchedulerAssumption, Facts, Holding, Parties DEF WorkerOK
  <2>3. /\ Apart(t, run, run') /\ DOMAIN run' = DOMAIN run
        /\ run'[w.id].full = run[w.id].full
        /\ run'[w.id].barred = run[w.id].barred \cup barring
        /\ \A q \in DOMAIN run \ {w.id} : run'[q] = run[q]
    <3> HIDE DEF w, n
    <3> QED
      BY <1>3, <2>1, <2>2, InsertedRow
  <2>4. \A r \in DOMAIN run :
          Lead(t) \in run'[r].full \ run'[r].barred => Lead(t) \in run[r].full \ run[r].barred
    <3> HIDE DEF w
    <3> QED
      BY <2>3
  <2> QED
    BY <1>1, <1>2, <1>3, <2>3, <2>4, LimitNarrower
<1> QED
  BY <1>1, <1>4, <1>5

\* After the lead has got the data, there is no way back to trying.
LEMMA PutFullLimit ==
  ASSUME Inv, Inv', LimitInv, NEW t \in Task, PutFull(t)
  PROVE  LimitInv'
<1> DEFINE w == worker[t]
           n == Participants[t][w.next]
           on == Advance([w EXCEPT !.result = "scheduled"], t, "decide")
           off == [w EXCEPT !.pc = "delete", !.result = "error"]
<1>1. /\ w.pc = "full" /\ UNCHANGED task
      /\ worker' = [worker EXCEPT ![t] = on] \/ worker' = [worker EXCEPT ![t] = off]
      /\ UNCHANGED run \/ Deliver(w.id, n)
  BY DEF PutFull, Abort
<1>2. TypeOK /\ TypeOK' /\ w \in Worker
  BY DEF Inv, TypeOK
<1>3. /\ n \in Node /\ w.id \in DOMAIN run /\ run[w.id].task = t
      /\ w.next \in DOMAIN Participants[t] /\ w.next \in Nat /\ w.next >= 1
      /\ n = Lead(t) => w.next = 1
  <2>1. w.next \in DOMAIN Participants[t]
    BY <1>1, SchedulerAssumption, Facts DEF WorkerOK
  <2>2. 1 \in DOMAIN Participants[t] /\ w.next \in Nat /\ w.next >= 1
    BY <2>1, SchedulerAssumption, Parties
  <2>3. n = Lead(t) => w.next = 1
    BY <2>1, <2>2, SchedulerAssumption DEF SchedulerAssumption, Lead
  <2> QED
    BY <1>1, <2>1, <2>2, <2>3, SchedulerAssumption, Holding, Parties
<1>4. ~Early(on) /\ ~Early(off)
  <2> DEFINE v == [w EXCEPT !.result = "scheduled"]
  <2>1. v.pc = "full" /\ v.next = w.next /\ v.result = "scheduled" /\ v \in Worker
    <3> HIDE DEF w
    <3> QED
      BY <1>1, <1>2 DEF Worker, Results, w
  <2>2. off.pc = "delete" /\ off.result = "error"
    <3> HIDE DEF w
    <3> QED
      BY <1>2 DEF Worker, w
  <2> HIDE DEF v
  <2>3. CASE w.next < Len(Participants[t])
    <3> DEFINE d == [v EXCEPT !.next = v.next + 1]
    <3>1. on = d
      BY <2>1, <2>3 DEF Advance, v
    <3>2. d.pc = "full" /\ d.next = w.next + 1
      <4> HIDE DEF w
      <4> QED
        BY <2>1 DEF Worker
    <3> HIDE DEF d, off, on
    <3>3. w.next + 1 # 1
      BY <1>3
    <3> QED
      BY <2>2, <3>1, <3>2, <3>3 DEF Early
  <2>4. CASE ~(w.next < Len(Participants[t]))
    <3> DEFINE d == [v EXCEPT !.pc = "decide", !.next = 1]
    <3>1. on = d
      BY <2>1, <2>4 DEF Advance, v
    <3>2. d.pc = "decide" /\ d.result = "scheduled"
      <4> HIDE DEF w
      <4> QED
        BY <2>1 DEF Worker
    <3> HIDE DEF d, off, on
    <3> QED
      BY <2>2, <3>1, <3>2 DEF Early
  <2> QED
    BY <2>3, <2>4
<1> HIDE DEF on, off
<1>5. PICK v : worker' = [worker EXCEPT ![t] = v] /\ ~Early(v)
  BY <1>1, <1>4
<1>6. CASE UNCHANGED run
  BY <1>1, <1>2, <1>5, <1>6, LimitQuiet DEF TypeOK
<1>7. CASE Deliver(w.id, n)
  <2>1. /\ Apart(t, run, run') /\ DOMAIN run' = DOMAIN run
        /\ run'[w.id].full = run[w.id].full \cup {n}
        /\ run'[w.id].barred = run[w.id].barred
        /\ \A q \in DOMAIN run \ {w.id} : run'[q] = run[q]
    <3> HIDE DEF w, n
    <3> QED
      BY <1>2, <1>3, <1>7, DeliveredRow
  <2>2. CASE n # Lead(t)
    <3>1. \A r \in DOMAIN run :
            Lead(t) \in run'[r].full \ run'[r].barred
              => Lead(t) \in run[r].full \ run[r].barred
      <4> HIDE DEF w, n
      <4> QED
        BY <2>1, <2>2
    <3> QED
      BY <1>1, <1>2, <1>5, <2>1, <3>1, LimitNarrower
  <2>3. CASE n = Lead(t)
    <3>1. Counted(t, run') = Counted(t, run)
      BY <2>1 DEF Apart, Counted
    <3>2. Executed(t, run') \subseteq Executed(t, run) \cup {w.id}
      <4> HIDE DEF w, n
      <4> QED
        BY <2>1, <3>1 DEF Executed, Counted
    <3>3. run \in Seq(Run) /\ run' \in Seq(Run) /\ Limit[t] \in Nat
      BY <1>2, SchedulerAssumption DEF TypeOK, SchedulerAssumption
    <3>4. /\ IsFiniteSet(Executed(t, run)) /\ Cardinality(Executed(t, run)) \in Nat
          /\ Cardinality(Executed(t, run')) \in Nat
      BY <3>3, Sizes
    <3>5. /\ IsFiniteSet(Executed(t, run) \cup {w.id})
          /\ Cardinality(Executed(t, run) \cup {w.id}) <= Cardinality(Executed(t, run)) + 1
          /\ Cardinality(Executed(t, run) \cup {w.id}) \in Nat
      <4> DEFINE some == Executed(t, run)
                 id == w.id
      <4> HIDE DEF some, id
      <4>1. IsFiniteSet(some) /\ Cardinality(some) \in Nat
        BY <3>4 DEF some
      <4>2. /\ IsFiniteSet(some \cup {id})
            /\ Cardinality(some \cup {id}) =
                 IF id \in some THEN Cardinality(some) ELSE Cardinality(some) + 1
        BY <4>1, FS_AddElement
      <4> QED
        BY <4>1, <4>2 DEF some, id
    <3>6. Cardinality(Executed(t, run')) <= Cardinality(Executed(t, run) \cup {w.id})
      BY <3>2, <3>5, FS_Subset
    <3>7. /\ Cardinality(Executed(t, run)) < Limit[t]
          /\ Cardinality(Counted(t, run)) <= task[t].runs
      <4>1. Early(w)
        BY <1>1, <1>3, <2>3 DEF Early
      <4> QED
        BY <4>1 DEF LimitInv, Within
    <3>8. Within(t, v, run', task'[t].runs)
      <4>1. Cardinality(Executed(t, run')) <= Limit[t]
        BY <3>3, <3>4, <3>5, <3>6, <3>7
      <4> QED
        BY <1>1, <1>5, <3>1, <3>7, <4>1 DEF Within
    <3> QED
      BY <1>1, <1>2, <1>5, <2>1, <3>8, LimitStep
  <2> QED
    BY <2>2, <2>3
<1> QED
  BY <1>1, <1>6, <1>7

LEMMA DeleteLimit ==
  ASSUME Inv, Inv', LimitInv, NEW t \in Task, Delete(t)
  PROVE  LimitInv'
<1> DEFINE w == worker[t]
           done == [w EXCEPT !.pc = "decide"]
           less(n) == [w EXCEPT !.posted = @ \ {n}]
<1>1. /\ w.pc = "delete" /\ UNCHANGED task
      /\ \/ UNCHANGED run /\ worker' = [worker EXCEPT ![t] = done]
         \/ \E i \in DOMAIN Participants[t] :
              /\ worker' = [worker EXCEPT ![t] = less(Participants[t][i])]
              /\ Remove(w.id, Participants[t][i]) \/ UNCHANGED run
  BY DEF Delete, Goto
<1>2. TypeOK /\ TypeOK' /\ w \in Worker
  BY DEF Inv, TypeOK
<1>3. w.id \in DOMAIN run /\ run[w.id].task = t
  BY <1>1, SchedulerAssumption, Holding
<1>4. /\ done.pc = "decide" /\ done.result = w.result
      /\ \A n : less(n).pc = "delete" /\ less(n).result = w.result
  <2> HIDE DEF w
  <2> QED
    BY <1>1, <1>2 DEF Worker, w
<1> HIDE DEF done, less
<1>5. (Early(done) => Early(w)) /\ \A n : Early(less(n)) => Early(w)
  BY <1>1, <1>4 DEF Early
<1>6. CASE UNCHANGED run /\ worker' = [worker EXCEPT ![t] = done]
  BY <1>1, <1>2, <1>5, <1>6, LimitQuiet DEF TypeOK
<1>7. ASSUME NEW i \in DOMAIN Participants[t],
             worker' = [worker EXCEPT ![t] = less(Participants[t][i])],
             Remove(w.id, Participants[t][i]) \/ UNCHANGED run
      PROVE  LimitInv'
  <2> DEFINE n == Participants[t][i]
  <2>1. n \in Node
    BY SchedulerAssumption, Parties
  <2>2. CASE UNCHANGED run
    BY <1>1, <1>2, <1>5, <1>7, <2>2, LimitQuiet DEF TypeOK
  <2>3. CASE Remove(w.id, n)
    <3>1. /\ Apart(t, run, run') /\ DOMAIN run' = DOMAIN run
          /\ run'[w.id].full = run[w.id].full \ {n}
          /\ run'[w.id].barred = run[w.id].barred \ {n}
          /\ \A q \in DOMAIN run \ {w.id} : run'[q] = run[q]
      <4> HIDE DEF w, n
      <4> QED
        BY <1>2, <1>3, <2>1, <2>3, RemovedRow
    <3>2. \A r \in DOMAIN run :
            Lead(t) \in run'[r].full \ run'[r].barred
              => Lead(t) \in run[r].full \ run[r].barred
      <4> HIDE DEF w, n
      <4> QED
        BY <3>1
    <3> QED
      BY <1>1, <1>2, <1>5, <1>7, <3>1, <3>2, LimitNarrower
  <2> QED
    BY <1>7, <2>2, <2>3
<1> QED
  BY <1>1, <1>6, <1>7

\* LimitInv is inductive, given Inv.
LEMMA LimitInductive == Inv /\ Inv' /\ LimitInv /\ [Next]_vars => LimitInv'
<1> SUFFICES ASSUME Inv, Inv', LimitInv, [Next]_vars
             PROVE  LimitInv'
  OBVIOUS
<1>1. CASE UNCHANGED vars \/ Tick
  <2>1. UNCHANGED <<run, task, worker>>
    BY <1>1 DEF vars, Tick
  <2> QED
    BY <2>1, LimitQuiet
<1>2. CASE \E n \in Node : Crash(n)
  <2>1. /\ UNCHANGED <<run, task>>
        /\ \A t \in Task : worker'[t] = Idle \/ worker'[t] = worker[t]
    BY <1>2 DEF Crash
  <2>2. ~Early(Idle)
    <3>1. Idle.pc = "idle"
      BY DEF Idle
    <3> QED
      BY <3>1 DEF Early
  <2> QED
    BY <2>1, <2>2, LimitQuiet
<1>3. ASSUME NEW t \in Task, Start(t) \/ Work(t)
      PROVE  LimitInv'
  BY <1>3, StartLimit, QuietLimit, PostLeadLimit, PutOtherLimit, PutFullLimit,
     DeleteLimit, NonStartLimit DEF Work
<1> QED
  BY <1>1, <1>2, <1>3 DEF Next

\* No task gets more runs that its lead would execute than its limit, even if
\* workers die, retry, or do not learn what became of their requests: a worker
\* starts below the limit (schedule.sql:217), and gives the lead the data of at
\* most one run before it ends (scheduler:604-661).
THEOREM LimitRespected == Spec => []LimitKept
<1>1. Init => LimitInv
  <2> SUFFICES ASSUME Init, NEW t \in Task
               PROVE  Within(t, worker[t], run, task[t].runs)
    BY DEF LimitInv
  <2>1. DOMAIN run = {} /\ task[t].runs = 0 /\ worker[t].pc = "idle"
    BY EmptySeq DEF Init, Idle
  <2>2. Counted(t, run) = {} /\ Executed(t, run) = {}
    BY <2>1 DEF Counted, Executed
  <2>3. Limit[t] \in Nat
    BY SchedulerAssumption DEF SchedulerAssumption
  <2> QED
    BY <2>1, <2>2, <2>3, FS_EmptySet DEF Within, Early
<1>2. Inv /\ Inv' /\ LimitInv /\ [Next]_vars => LimitInv'
  BY LimitInductive
<1>3. Inv /\ LimitInv => LimitKept
  <2> SUFFICES ASSUME Inv, LimitInv, NEW t \in Task
               PROVE  Cardinality({r \in OnLead(t) :
                        Lead(t) \in run[r].full \ run[r].barred}) <= Limit[t]
    BY DEF LimitKept
  <2>1. {r \in OnLead(t) : Lead(t) \in run[r].full \ run[r].barred} = Executed(t, run)
    BY DEF OnLead, Executed, Counted, Inv, TypeOK
  <2> QED
    BY <2>1 DEF LimitInv, Within
<1> QED
  BY <1>1, <1>2, <1>3, AlwaysInv, PTL DEF Spec
=============================================================================
