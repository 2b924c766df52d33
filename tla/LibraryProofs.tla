---------------------------- MODULE LibraryProofs ----------------------------
(***************************************************************************)
(* The parts of the library, each in its scene.                            *)
(***************************************************************************)
EXTENDS Library, SequenceTheorems, FiniteSetTheorems, WellFoundedInduction, TLAPS

----------------------------------------------------------------------------
(* A tool and its contexts.                                                *)

Written(n) == stages[n] = Inside!Script(n)
Chained == /\ Len(stages) = calls + 1
           /\ \A n \in 1 .. calls + 1 : Written(n)

\* While the scripts run, those before the one at hand have changed the process.
ChainInv ==
    /\ calls \in Nat /\ script \in Nat
    /\ stages \in Seq([runs : Nat, exec : Nat] \cup {None})
    /\ \A n \in 1 .. Len(stages) : stages[n] = None \/ Written(n)
    /\ phase = "making" => script = 1 /\ applied = <<>> /\ ~errored /\ Len(stages) <= calls + 1
    /\ phase = "running" =>
          /\ Chained /\ ~errored
          /\ script \in 1 .. calls + 1 /\ applied = [n \in 1 .. script - 1 |-> n]
    /\ phase = "tool" => ~errored /\ applied = [n \in 1 .. calls |-> n]
    /\ errored => stages = <<>> /\ applied = <<>> /\ phase = "failed"

LEMMA ChainInit == Inside!ChainInit => ChainInv
  BY LibraryAssumption DEF LibraryAssumption, Inside!ChainInit, ChainInv

LEMMA OneMoreIn ==
    ASSUME NEW k \in Nat \ {0}
    PROVE  Append([n \in 1 .. k - 1 |-> n], k) = [n \in 1 .. (k + 1) - 1 |-> n]
  <1> DEFINE s == [n \in 1 .. k - 1 |-> n]
             t == [n \in 1 .. (k + 1) - 1 |-> n]
  <1>1. s \in Seq(Nat) /\ Len(s) = k - 1 /\ t \in Seq(Nat) /\ Len(t) = k
    <2>1. \A m \in Nat : /\ [n \in 1 .. m |-> n] \in Seq(Nat)
                        /\ Len([n \in 1 .. m |-> n]) = m
      OBVIOUS
    <2>2. k - 1 \in Nat /\ (k + 1) - 1 = k
      OBVIOUS
    <2>3. QED
      BY <2>1, <2>2
  <1>2. /\ Append(s, k) \in Seq(Nat) /\ Len(Append(s, k)) = k
        /\ \A n \in 1 .. k - 1 : Append(s, k)[n] = n
        /\ Append(s, k)[k] = k
    BY <1>1, AppendProperties
  <1>3. \A n \in 1 .. k : Append(s, k)[n] = t[n]
    BY <1>2
  <1> HIDE DEF s, t
  <1>4. Append(s, k) = t
    BY <1>1, <1>2, <1>3, SeqEqual
  <1>5. QED
    BY <1>4 DEF s, t

LEMMA ChainStep == ChainInv /\ (Inside!ChainNext \/ UNCHANGED hvars) => ChainInv'
  <1> SUFFICES ASSUME ChainInv, Inside!ChainNext \/ UNCHANGED hvars PROVE ChainInv'
    OBVIOUS
  <1> DEFINE Stage == [runs : Nat, exec : Nat] \cup {None}
  <1>0. /\ calls \in Nat /\ script \in Nat /\ stages \in Seq(Stage) /\ Len(stages) \in Nat
        /\ DOMAIN stages = 1 .. Len(stages)
    BY LenProperties DEF ChainInv
  <1>1. CASE Inside!Alone
    <2>1. applied = [n \in 1 .. calls |-> n]
      BY <1>1 DEF ChainInv, Inside!Alone
    <2>2. QED
      BY <1>1, <2>1 DEF ChainInv, Inside!Alone, Chained, Written
  <1>2. CASE Inside!Mkstemp
    <2>1. /\ Len(Append(stages, None)) = Len(stages) + 1 /\ Append(stages, None) \in Seq(Stage)
          /\ \A n \in 1 .. Len(stages) : Append(stages, None)[n] = stages[n]
          /\ Append(stages, None)[Len(stages) + 1] = None
      BY <1>0, AppendProperties
    <2>2. QED
      BY <1>0, <1>2, <2>1 DEF ChainInv, Inside!Mkstemp, Chained, Written, Inside!Script
  <1>3. CASE Inside!Write
    <2>1. PICK n : stages' = [stages EXCEPT ![n] = Inside!Script(n)]
      BY <1>3, Zenon DEF Inside!Write
    <2>2. CASE n \in DOMAIN stages
      <3>1. n \in Nat /\ Inside!Script(n) \in Stage
        BY <1>0, <2>2 DEF Inside!Script
      <3> HIDE DEF Stage
      <3>2. /\ stages' \in Seq(Stage) /\ Len(stages') = Len(stages)
            /\ \A m \in 1 .. Len(stages) : stages'[m] =
                   IF m = n THEN Inside!Script(n) ELSE stages[m]
        BY <1>0, <2>1, <2>2, <3>1, ExceptSeq
      <3>3. QED
        BY <1>0, <1>3, <3>2, Zenon DEF ChainInv, Inside!Write, Chained, Written, Inside!Script, Stage
    <2>3. CASE n \notin DOMAIN stages
      <3>1. stages' = stages
        BY <1>0, <2>1, <2>3
      <3>2. QED
        BY <1>3, <3>1, Zenon DEF ChainInv, Inside!Write, Chained, Written, Inside!Script
    <2>4. QED
      BY <2>2, <2>3
  <1>4. CASE Inside!Fail
    BY <1>0, <1>4 DEF ChainInv, Inside!Fail, Chained, Written
  <1>5. CASE Inside!Run
    BY <1>0, <1>5 DEF ChainInv, Inside!Run, Chained, Written, Inside!Unwritten
  <1>6. CASE Inside!Context
    <2>1. /\ Chained /\ ~errored /\ script \in 1 .. calls + 1
          /\ applied = [n \in 1 .. script - 1 |-> n] /\ phase = "running"
          /\ UNCHANGED <<calls, stages, errored>>
      BY <1>6 DEF ChainInv, Inside!Context
    <2>2. stages[script] = Inside!Script(script) /\ script <= calls
          /\ stages[script].runs = script /\ stages[script].exec = script + 1
      BY <1>0, <1>6, <2>1 DEF Chained, Written, Inside!Script, Inside!Context
    <2>3. CASE phase' = "failed" /\ UNCHANGED <<script, applied>>
      BY <1>0, <2>1, <2>3 DEF ChainInv, Chained, Written, Inside!Script
    <2>4. CASE applied' = Append(applied, script) /\ script' = script + 1 /\ UNCHANGED phase
      <3>1. applied' = [n \in 1 .. script' - 1 |-> n]
        BY <1>0, <2>1, <2>4, OneMoreIn
      <3>2. script' \in 1 .. calls + 1
        BY <1>0, <2>1, <2>2, <2>4
      <3>3. QED
        BY <1>0, <2>1, <2>4, <3>1, <3>2 DEF ChainInv, Chained, Written, Inside!Script
    <2>5. QED
      BY <1>6, <2>2, <2>3, <2>4 DEF Inside!Context
  <1>7. CASE Inside!Tool
    BY <1>0, <1>7 DEF ChainInv, Inside!Tool, Chained, Written, Inside!Script
  <1>8. CASE UNCHANGED hvars
    BY <1>8 DEF ChainInv, hvars, Chained, Written
  <1>9. QED
    BY <1>1, <1>2, <1>3, <1>4, <1>5, <1>6, <1>7, <1>8 DEF Inside!ChainNext

\* The tool runs inside all of its contexts, in their order and each changed once, or not
\* at all, for any number of them (program.py, ChainedExecRunner).
THEOREM ToolsAreInside == LibrarySpec => []ToolInsideContexts
  <1>1. LibraryInit => ChainInv
    BY ChainInit DEF LibraryInit
  <1>2. ChainInv /\ [LibraryNext]_vars => ChainInv'
    BY ChainStep DEF LibraryNext, vars, hvars
  <1>3. ChainInv => ToolInsideContexts
    BY DEF ChainInv, ToolInsideContexts, Inside!ToolInsideContexts
  <1>4. QED
    BY <1>1, <1>2, <1>3, PTL DEF LibrarySpec

----------------------------------------------------------------------------
(* The metadata keys of the Esmond archiver.                               *)

At(a) == archiver[a].at

\* As long as the server has forgotten nothing while any was at work: a key that was just
\* made is known, and if the one in the cache is not, a process is about to drop it.
KeyInv ==
    /\ archiver = [a \in Archiver |-> [at |-> At(a), key |-> archiver[a].key]]
    /\ \A a \in Archiver : At(a) = "idle" => archiver[a] = Archive!Idle
    /\ ~forgot =>
          /\ \A a \in Archiver : At(a) = "set" => archiver[a].key \in declared
          /\ \/ mcache \in declared \cup {None}
             \/ \E a \in Archiver : At(a) = "drop" \/ (At(a) = "put" /\ archiver[a].key = mcache)

LEMMA KeyInit == Archive!EsmondInit => KeyInv
  BY DEF Archive!EsmondInit, KeyInv, At, Archive!Idle

\* What a process goes on to.
LEMMA Goes ==
    ASSUME KeyInv, NEW a \in Archiver, NEW to, NEW key, Archive!Goto(a, to, key),
           to = "idle" => key = None
    PROVE  /\ At(a)' = to /\ archiver'[a].key = key
           /\ \A b \in Archiver \ {a} : At(b)' = At(b) /\ archiver'[b].key = archiver[b].key
           /\ archiver' = [b \in Archiver |-> [at |-> At(b)', key |-> archiver'[b].key]]
           /\ \A b \in Archiver : At(b)' = "idle" => archiver'[b] = Archive!Idle
  <1>1. archiver' = [archiver EXCEPT ![a] = [at |-> to, key |-> key]]
    BY DEF Archive!Goto
  <1>2. DOMAIN archiver = Archiver
    BY DEF KeyInv
  <1>3. /\ archiver'[a] = [at |-> to, key |-> key]
        /\ \A b \in Archiver \ {a} : archiver'[b] = archiver[b]
        /\ archiver' = [b \in Archiver |-> archiver'[b]]
    BY <1>1, <1>2, Zenon
  <1>4. \A b \in Archiver : archiver[b] = [at |-> At(b), key |-> archiver[b].key]
    BY DEF KeyInv
  <1>5. \A b \in Archiver : archiver'[b] = [at |-> At(b)', key |-> archiver'[b].key]
    BY <1>3, <1>4, Zenon DEF At
  <1>6. \A b \in Archiver : At(b)' = "idle" => archiver'[b] = Archive!Idle
    BY <1>3 DEF KeyInv, At, Archive!Idle
  <1>7. QED
    BY <1>3, <1>5, <1>6 DEF At

LEMMA KeyStep == KeyInv /\ (Archive!EsmondNext \/ UNCHANGED evars) => KeyInv'
  <1> SUFFICES ASSUME KeyInv, Archive!EsmondNext \/ UNCHANGED evars PROVE KeyInv'
    OBVIOUS
  <1>1. ASSUME NEW a \in Archiver, Archive!Lookup(a) PROVE KeyInv'
    <2>1. archiver[a] = Archive!Idle /\ UNCHANGED <<mcache, declared>>
      BY <1>1 DEF Archive!Lookup
    <2>2. CASE Archive!ClassOf(a) = "none"
      <3>1. Archive!Goto(a, "idle", None) /\ forgot' = forgot
        BY <1>1, <2>2 DEF Archive!Lookup, Archive!Return
      <3>2. archiver' = archiver
        BY <2>1, <3>1 DEF KeyInv, Archive!Goto, Archive!Idle
      <3>3. QED
        BY <2>1, <3>1, <3>2 DEF KeyInv, At
    <2>3. CASE Archive!ClassOf(a) # "none"
      <3> DEFINE to == IF mcache = None THEN "post" ELSE "put"
      <3>1. /\ Archive!Goto(a, to, mcache) /\ to \in {"post", "put"}
            /\ forgot' = (forgot /\ \E b \in Archiver : archiver[b] # Archive!Idle)
        BY <1>1, <2>3 DEF Archive!Lookup
      <3>2. /\ At(a)' = to /\ archiver'[a].key = mcache
            /\ \A b \in Archiver \ {a} : At(b)' = At(b) /\ archiver'[b].key = archiver[b].key
            /\ archiver' = [b \in Archiver |-> [at |-> At(b)', key |-> archiver'[b].key]]
            /\ \A b \in Archiver : At(b)' = "idle" => archiver'[b] = Archive!Idle
        <4> HIDE DEF to
        <4>1. QED
          BY <3>1, Goes
      <3>5. At(a) = "idle"
        BY <2>1 DEF At, Archive!Idle
      <3>6. \A b \in Archiver : archiver[b] = Archive!Idle => At(b) = "idle"
        BY DEF At, Archive!Idle
      <3>7. ~forgot' => \A b \in Archiver : At(b)' = "set" => archiver'[b].key \in declared
        BY <3>1, <3>2, <3>6, Zenon DEF KeyInv
      <3>8. ~forgot' /\ mcache \notin declared \cup {None} =>
                At(a)' = "put" /\ archiver'[a].key = mcache
        BY <3>2
      <3>9. QED
        BY <2>1, <3>2, <3>7, <3>8 DEF KeyInv
    <2>4. QED
      BY <2>2, <2>3
  <1>2. ASSUME NEW a \in Archiver, Archive!create_metadata(a) PROVE KeyInv'
    <2>1. /\ At(a) = "post" /\ UNCHANGED <<mcache, forgot>> /\ declared \subseteq declared'
          /\ \/ /\ declared' = declared \cup {Archive!TypesDeclared(a)}
                /\ Archive!Goto(a, "set", Archive!TypesDeclared(a))
             \/ Archive!Goto(a, "idle", None)
      BY <1>2 DEF Archive!create_metadata, Archive!Return, At
    <2>2. PICK to, key :
             /\ to \in {"set", "idle"} /\ Archive!Goto(a, to, key)
             /\ (to = "set" => key \in declared') /\ (to = "idle" => key = None)
      BY <2>1
    <2>3. /\ At(a)' = to /\ archiver'[a].key = key
          /\ \A b \in Archiver \ {a} : At(b)' = At(b) /\ archiver'[b].key = archiver[b].key
          /\ archiver' = [b \in Archiver |-> [at |-> At(b)', key |-> archiver'[b].key]]
          /\ \A b \in Archiver : At(b)' = "idle" => archiver'[b] = Archive!Idle
      BY <2>2, Goes
    <2>4. QED
      BY <2>1, <2>2, <2>3, Zenon DEF KeyInv
  <1>3. ASSUME NEW a \in Archiver, Archive!SetCache(a) PROVE KeyInv'
    <2>1. /\ At(a) = "set" /\ UNCHANGED <<declared, forgot>>
          /\ mcache' \in {mcache, archiver[a].key}
          /\ Archive!Goto(a, "put", archiver[a].key)
      BY <1>3 DEF Archive!SetCache, At
    <2>2. /\ At(a)' = "put" /\ archiver'[a].key = archiver[a].key
          /\ \A b \in Archiver \ {a} : At(b)' = At(b) /\ archiver'[b].key = archiver[b].key
          /\ archiver' = [b \in Archiver |-> [at |-> At(b)', key |-> archiver'[b].key]]
          /\ \A b \in Archiver : At(b)' = "idle" => archiver'[b] = Archive!Idle
      BY <2>1, Goes
    <2>3. QED
      BY <2>1, <2>2, Zenon DEF KeyInv
  <1>4. ASSUME NEW a \in Archiver, Archive!create_data(a) PROVE KeyInv'
    <2>1. /\ At(a) = "put" /\ UNCHANGED <<mcache, declared, forgot>>
          /\ \/ archiver[a].key \in declared /\ Archive!Goto(a, "idle", None)
             \/ Archive!Goto(a, "drop", archiver[a].key)
      BY <1>4 DEF Archive!create_data, Archive!Return, At
    <2>2. PICK to, key :
             /\ to \in {"drop", "idle"} /\ Archive!Goto(a, to, key) /\ (to = "idle" => archiver[a].key \in declared)
             /\ (to = "idle" => key = None)
      BY <2>1
    <2>3. /\ At(a)' = to /\ archiver'[a].key = key
          /\ \A b \in Archiver \ {a} : At(b)' = At(b) /\ archiver'[b].key = archiver[b].key
          /\ archiver' = [b \in Archiver |-> [at |-> At(b)', key |-> archiver'[b].key]]
          /\ \A b \in Archiver : At(b)' = "idle" => archiver'[b] = Archive!Idle
      BY <2>2, Goes
    <2>4. QED
      BY <2>1, <2>2, <2>3, Zenon DEF KeyInv
  <1>5. ASSUME NEW a \in Archiver, Archive!DropKey(a) PROVE KeyInv'
    <2>1. UNCHANGED <<declared, forgot>> /\ mcache' = None /\ Archive!Goto(a, "idle", None)
      BY <1>5 DEF Archive!DropKey, Archive!Return
    <2>2. /\ At(a)' = "idle" /\ archiver'[a].key = None
          /\ \A b \in Archiver \ {a} : At(b)' = At(b) /\ archiver'[b].key = archiver[b].key
          /\ archiver' = [b \in Archiver |-> [at |-> At(b)', key |-> archiver'[b].key]]
          /\ \A b \in Archiver : At(b)' = "idle" => archiver'[b] = Archive!Idle
      BY <2>1, Goes
    <2>3. QED
      BY <2>1, <2>2 DEF KeyInv
  <1>6. CASE Archive!Expire
    BY <1>6 DEF Archive!Expire, KeyInv, At
  <1>7. CASE Archive!Forget
    BY <1>7 DEF Archive!Forget, KeyInv, At
  <1>8. CASE UNCHANGED evars
    BY <1>8, Zenon DEF evars, KeyInv, At
  <1>9. QED
    BY <1>1, <1>2, <1>3, <1>4, <1>5, <1>6, <1>7, <1>8 DEF Archive!EsmondNext, Archive!archive

\* Once all processes that were at work are done, the cache holds no key that the server
\* does not know, for any number of them, unless the server has forgotten it meanwhile
\* (esmond/archive, archive).
THEOREM StaleKeysGo == LibrarySpec => []StaleKeyDropped
  <1>1. LibraryInit => KeyInv
    BY KeyInit DEF LibraryInit
  <1>2. KeyInv /\ [LibraryNext]_vars => KeyInv'
    BY KeyStep DEF LibraryNext, vars, evars
  <1>3. KeyInv => StaleKeyDropped
    <2> SUFFICES ASSUME KeyInv, \A a \in Archiver : archiver[a] = Archive!Idle, ~forgot
                 PROVE  mcache \in declared \cup {None}
      BY DEF StaleKeyDropped, Archive!StaleKeyDropped
    <2>1. \A a \in Archiver : At(a) = "idle"
      BY DEF At, Archive!Idle
    <2>2. QED
      BY <2>1, Zenon DEF KeyInv
  <1>4. QED
    BY <1>1, <1>2, <1>3, PTL DEF LibrarySpec

----------------------------------------------------------------------------
(* The exit of a daemon.                                                   *)

\* Where a program is that was added to the hash of what is running.
Added == {"running", "over", "dropping", "drop", "ending", "done"}
Before == {"new", "started", "adding", "registering", "add"}

\* What is to be ended, and is not about to be by its own thread.
Due(p) == p \in alive \ Foreign /\ xat[p] # "ending"

\* The exit worker is started once; what was running when it was let go is gone, or still
\* to be ended.
ExitInv ==
    /\ xat \in [Program -> Before \cup Added]
    /\ \A p \in Program : p \in alive \ Foreign => xat[p] # "done"
    /\ running \subseteq {p \in Program : xat[p] \in Added} /\ alive \subseteq Program
    /\ \A p \in Program : xat[p] = "registering" =>
          initialized /\ ~registered /\ \A q \in Program \ {p} : xat[q] # "registering"
    /\ registered => initialized
    /\ ~registered => worker = "none" /\ condemned = {} /\ handler \notin {"barrier", "finish"}
    /\ condemned \subseteq {p \in Program : xat[p] \in Added}
    /\ worker \in {"none", "waiting"} => condemned = {}
    /\ worker \in {"lock", "init", "loop", "first", "end", "forget"} =>
          \A p \in condemned : Due(p) => p \in running
    /\ worker \in {"end", "forget"} => victim \in Program /\ xat[victim] \in Added
    /\ worker = "forget" => ~Due(victim)
    /\ exited => ~registered \/ worker = "done"
    /\ worker \in {"clear", "finish", "done"} => \A p \in condemned : ~Due(p)
    /\ exited => \A p \in condemned : ~Due(p)

LEMMA ExitInit == Leave!Init => ExitInv
  BY DEF Leave!Init, ExitInv, Before, Added, Due

LEMMA ExitStep == ExitInv /\ (Leave!Next \/ UNCHANGED xvars) => ExitInv'
  <1> SUFFICES ASSUME ExitInv, Leave!Next \/ UNCHANGED xvars PROVE ExitInv'
    OBVIOUS
  <1>1. ASSUME NEW p \in Program, Leave!Start(p) PROVE ExitInv'
    BY <1>1 DEF ExitInv, Due, Leave!Start, Leave!Goto, Leave!Runs, Leave!locks, Leave!table,
                Leave!exiting, Before, Added
  <1>2. ASSUME NEW p \in Program, Leave!LockProgram(p) PROVE ExitInv'
    BY <1>2 DEF ExitInv, Due, Leave!LockProgram, Leave!Goto, Leave!Runs, Leave!table,
                Leave!exiting, Before, Added
  <1>3. ASSUME NEW p \in Program, Leave!LockExit(p) PROVE ExitInv'
    BY <1>3 DEF ExitInv, Due, Leave!LockExit, Leave!Goto, Leave!Runs, Leave!exiting, Before, Added
  <1>4. ASSUME NEW p \in Program, Leave!Register(p) PROVE ExitInv'
    BY <1>4 DEF ExitInv, Due, Leave!Register, Leave!Goto, Leave!Runs, Before, Added
  <1>5. ASSUME NEW p \in Program, Leave!Unlock(p) PROVE ExitInv'
    BY <1>5 DEF ExitInv, Due, Leave!Unlock, Leave!Goto, Leave!Runs, Leave!table, Leave!exiting,
                Before, Added
  <1>6. ASSUME NEW p \in Program, Leave!Add(p) PROVE ExitInv'
    BY <1>6 DEF ExitInv, Due, Leave!Add, Leave!Goto, Leave!Runs, Leave!locks, Leave!exiting,
                Before, Added
  <1>7. ASSUME NEW p \in Program, Leave!Over(p) PROVE ExitInv'
    BY <1>7 DEF ExitInv, Due, Leave!Over, Leave!Ended, Leave!Goto, Leave!Runs, Leave!locks, Leave!table,
                Leave!exiting, Before, Added
  <1>8. ASSUME NEW p \in Program, Leave!Drop(p) PROVE ExitInv'
    BY <1>8 DEF ExitInv, Due, Leave!Drop, Leave!Goto, Leave!Runs, Leave!locks, Leave!exiting,
                Before, Added
  <1>14. ASSUME NEW p \in Program, Leave!GiveUp(p) PROVE ExitInv'
    BY <1>14 DEF ExitInv, Leave!GiveUp, Leave!Goto, Leave!Runs, Leave!locks, Leave!table,
                 Leave!exiting, Before, Added, Due
  <1>15. ASSUME NEW p \in Program, Leave!End(p) PROVE ExitInv'
    BY <1>15 DEF ExitInv, Leave!End, Leave!Ended, Leave!Goto, Leave!Runs, Leave!locks,
                 Leave!table, Leave!exiting, Before, Added, Due
  <1>9. CASE Leave!Signal
    BY <1>9 DEF ExitInv, Due, Leave!Signal, Leave!locks, Leave!table
  <1>10. CASE Leave!Exiting
    <2>1. CASE Leave!HandlerStart
      BY <2>1 DEF ExitInv, Due, Leave!HandlerStart, Leave!WorkerStep, Leave!locks, Leave!table
    <2>2. CASE Leave!Meet
      BY <2>2 DEF ExitInv, Due, Leave!Meet, Leave!WorkerStep, Leave!locks, Leave!table
    <2>3. CASE Leave!Exit
      BY <2>3 DEF ExitInv, Due, Leave!Exit, Leave!WorkerStep, Leave!locks, Leave!table
    <2>4. QED
      BY <1>10, <2>1, <2>2, <2>3 DEF Leave!Exiting
  <1>11. CASE Leave!WorkerNext
    <2>1. CASE Leave!WorkerLock
      BY <2>1 DEF ExitInv, Due, Leave!WorkerLock, Leave!WorkerStep, Leave!Others
    <2>2. CASE Leave!WorkerInit
      BY <2>2 DEF ExitInv, Due, Leave!WorkerInit, Leave!WorkerStep, Leave!Others, Leave!locks
    <2>3. CASE Leave!Look
      BY <2>3 DEF ExitInv, Due, Leave!Look, Leave!WorkerStep, Leave!Others, Leave!locks
    <2>4. CASE Leave!First
      BY <2>4 DEF ExitInv, Due, Leave!First, Leave!WorkerStep, Leave!Others
    <2>5. CASE Leave!Terminate
      BY <2>5 DEF ExitInv, Due, Leave!Terminate, Leave!Ended, Leave!WorkerStep, Leave!Others, Leave!locks
    <2>9. CASE Leave!WaitForEver
      BY <2>9 DEF ExitInv, Due, Leave!WaitForEver, Leave!WorkerStep, Leave!Others, Leave!locks
    <2>6. CASE Leave!Forget
      BY <2>6 DEF ExitInv, Due, Leave!Forget, Leave!WorkerStep, Leave!Others, Leave!locks
    <2>7. CASE Leave!Clear
      BY <2>7 DEF ExitInv, Due, Leave!Clear, Leave!WorkerStep, Leave!Others
    <2>8. QED
      BY <1>11, <2>1, <2>2, <2>3, <2>4, <2>5, <2>6, <2>7, <2>9 DEF Leave!WorkerNext
  <1>12. CASE UNCHANGED xvars
    BY <1>12 DEF ExitInv, Due, xvars
  <1>13. QED
    BY <1>1, <1>2, <1>3, <1>4, <1>5, <1>6, <1>7, <1>8, <1>9, <1>10, <1>11, <1>12, <1>14, <1>15
       DEF Leave!Next, Leave!RunProgram

\* The programs that were registered when a daemon began to exit are gone when it is,
\* but for those of another user and those their own threads were about to end,
\* whatever its threads start, end and drop meanwhile, and for any number of programs and
\* signals (program.py, __terminate_running).
THEOREM ProgramsAreKilled == LibrarySpec => []KilledOff
  <1>1. LibraryInit => ExitInv
    BY ExitInit DEF LibraryInit
  <1>2. ExitInv /\ [LibraryNext]_vars => ExitInv'
    BY ExitStep DEF LibraryNext, vars, xvars
  <1>3. ExitInv => KilledOff
    BY DEF ExitInv, KilledOff, Leave!KilledOff, Due
  <1>4. QED
    BY <1>1, <1>2, <1>3, PTL DEF LibrarySpec

----------------------------------------------------------------------------
(* The connections to a message broker.                                    *)

CacheRequest == [at : {"purge", "get", "create", "stamp", "publish", "failed"}, key : Key,
           ttl : CacheTimes, since : Nat]

\* No connection is in the set under two keys, and none that failed but the one that is
\* about to be dropped; all would have been purged that had expired by the last purge.
ItemOK(k) ==
    /\ items[k] \in [item : 1 .. made, expires : Nat]
    /\ items[k].expires >= next_purge - PurgeInterval
    /\ \A l \in DOMAIN items : l # k => items[l].item # items[k].item
    /\ items[k].item \in failed => request.at = "failed" /\ request.key = k

CacheInv ==
    /\ clock \in Nat /\ next_purge \in Nat /\ made \in Nat
    /\ next_purge >= PurgeInterval /\ clock >= next_purge - PurgeInterval
    /\ failed \subseteq 1 .. made
    /\ request \in CacheRequest \cup {[at |-> "none"]}
    /\ request.at # "none" => request \in CacheRequest /\ request.since <= clock
    /\ DOMAIN items \subseteq Key
    /\ \A k \in DOMAIN items : ItemOK(k)
    /\ request.at \in {"get", "create", "stamp", "publish"} => request.since <= next_purge
    /\ request.at = "create" => request.key \notin DOMAIN items
    /\ request.at \in {"stamp", "publish"} => request.key \in DOMAIN items

LEMMA CacheInit == Cache!CacheInit => CacheInv
  BY LibraryAssumption DEF LibraryAssumption, Cache!CacheInit, CacheInv, ItemOK

LEMMA CacheStep == CacheInv /\ (Cache!CacheNext \/ UNCHANGED cvars) => CacheInv'
  <1> SUFFICES ASSUME CacheInv, Cache!CacheNext \/ UNCHANGED cvars PROVE CacheInv'
    OBVIOUS
  <1>0. PurgeInterval \in Nat /\ CacheTimes \subseteq Nat
    BY LibraryAssumption DEF LibraryAssumption
  <1>1. ASSUME NEW k \in Key, NEW ttl \in CacheTimes, Cache!Ask(k, ttl) PROVE CacheInv'
    <2>1. request' \in CacheRequest /\ request'.at = "purge" /\ request'.since = clock
      BY <1>1 DEF Cache!Ask, CacheRequest, CacheInv, ItemOK
    <2>2. request.at = "none" /\ UNCHANGED <<clock, items, next_purge, made, failed>>
      BY <1>1 DEF Cache!Ask
    <2>3. QED
      BY <2>1, <2>2 DEF CacheInv, ItemOK
  <1>2. ASSUME NEW to \in {"get", "create", "stamp", "publish", "failed"}, Cache!Goto(to),
               request.at # "none"
        PROVE  /\ request' \in CacheRequest /\ request'.at = to
               /\ request'.key = request.key /\ request'.ttl = request.ttl
               /\ request'.since = request.since /\ request' # [at |-> "none"]
    BY <1>2 DEF Cache!Goto, CacheRequest, CacheInv, ItemOK
  <1>3. ASSUME NEW keys, items' = Cache!Without(keys)
        PROVE  /\ DOMAIN items' = DOMAIN items \ keys
               /\ \A k \in DOMAIN items' : items'[k] = items[k]
    BY <1>3 DEF Cache!Without
  <1>4. CASE Cache!purge
    <2>1. /\ request.at = "purge" /\ Cache!Goto("get") /\ UNCHANGED <<clock, made, failed>>
          /\ request.since <= clock /\ request \in CacheRequest
      BY <1>4 DEF Cache!purge, CacheInv, ItemOK
    <2>2. /\ request' \in CacheRequest /\ request'.at = "get" /\ request'.since = request.since
      BY <1>2, <2>1
    <2>3. request'.since \in Nat /\ clock \in Nat /\ next_purge \in Nat
      BY <2>2 DEF CacheRequest, CacheInv, ItemOK
    <2>4. CASE clock < next_purge
      BY <1>4, <2>1, <2>2, <2>3, <2>4 DEF Cache!purge, CacheInv, ItemOK
    <2>5. CASE ~(clock < next_purge)
      <3> DEFINE late == {k \in DOMAIN items : Cache!Expired(k)}
      <3>1. items' = Cache!Without(late) /\ next_purge' = clock + PurgeInterval
        BY <1>4, <2>5 DEF Cache!purge
      <3>6. /\ DOMAIN items' = DOMAIN items \ late
            /\ \A k \in DOMAIN items' : items'[k] = items[k]
        <4> HIDE DEF late
        <4>1. QED
          BY <1>3, <3>1
      <3>2. /\ DOMAIN items' \subseteq DOMAIN items
            /\ \A k \in DOMAIN items' : items'[k] = items[k] /\ ~Cache!Expired(k)
        BY <3>6
      <3>3. \A k \in DOMAIN items' : items'[k].expires >= next_purge' - PurgeInterval
        BY <1>0, <2>3, <3>1, <3>2 DEF Cache!Expired, CacheInv, ItemOK
      <3>4. next_purge' \in Nat /\ next_purge' >= PurgeInterval /\ request'.since <= next_purge'
        BY <1>0, <2>1, <2>2, <2>3, <3>1
      <3>5. clock >= next_purge' - PurgeInterval
        BY <1>0, <2>3, <3>1
      <3> HIDE DEF late
      <3>7. QED
        BY <2>1, <2>2, <3>2, <3>3, <3>4, <3>5 DEF CacheInv, ItemOK
    <2>6. QED
      BY <2>4, <2>5
  <1>5. CASE Cache!Get
    <2>1. /\ request.at = "get" /\ UNCHANGED <<clock, next_purge, made, failed>>
          /\ request.since <= next_purge /\ request.since <= clock /\ request \in CacheRequest
      BY <1>5 DEF Cache!Get, CacheInv, ItemOK
    <2>2. CASE request.key \notin DOMAIN items
      <3>1. Cache!Goto("create") /\ items' = items
        BY <1>5, <2>2 DEF Cache!Get
      <3>2. QED
        BY <1>2, <2>1, <2>2, <3>1 DEF CacheInv, ItemOK
    <2>3. CASE request.key \in DOMAIN items /\ Cache!Expired(request.key)
      <3>1. Cache!Goto("create") /\ items' = Cache!Without({request.key})
        BY <1>5, <2>3 DEF Cache!Get
      <3>2. /\ DOMAIN items' = DOMAIN items \ {request.key}
            /\ \A k \in DOMAIN items' : items'[k] = items[k]
        BY <1>3, <3>1, Zenon
      <3>3. /\ request' \in CacheRequest /\ request'.at = "create" /\ request'.key = request.key
            /\ request'.since = request.since
        BY <1>2, <2>1, <3>1
      <3>4. \A k \in DOMAIN items' : k # request.key /\ items[k].item \notin failed
        BY <2>1, <3>2 DEF CacheInv, ItemOK
      <3>5. QED
        BY <2>1, <3>2, <3>3, <3>4 DEF CacheInv, ItemOK
    <2>4. CASE request.key \in DOMAIN items /\ ~Cache!Expired(request.key)
      <3>1. Cache!Goto("stamp") /\ items' = items
        BY <1>5, <2>4 DEF Cache!Get
      <3>2. QED
        BY <1>2, <2>1, <2>4, <3>1 DEF CacheInv, ItemOK
    <2>5. QED
      BY <2>2, <2>3, <2>4
  <1>6. CASE Cache!Create
    <2>1. /\ request.at = "create" /\ UNCHANGED <<clock, next_purge, failed>>
          /\ request.since <= next_purge /\ request.since <= clock /\ request \in CacheRequest
          /\ request.key \notin DOMAIN items /\ request.key \in Key
      BY <1>6 DEF Cache!Create, CacheInv, ItemOK, CacheRequest
    <2>2. CASE Cache!Goto("failed") /\ UNCHANGED <<items, made>>
      BY <1>2, <2>1, <2>2 DEF CacheInv, ItemOK
    <2>3. CASE /\ made' = made + 1 /\ Cache!Goto("stamp")
               /\ items' = Cache!With(request.key, [item |-> made + 1, expires |-> clock])
      <3> DEFINE new == [item |-> made + 1, expires |-> clock]
      <3>1. /\ DOMAIN items' = {request.key} \cup DOMAIN items
            /\ items'[request.key] = new
            /\ \A k \in DOMAIN items : items'[k] = items[k]
        BY <2>1, <2>3 DEF Cache!With
      <3>2. /\ clock \in Nat /\ made \in Nat /\ made' \in Nat /\ next_purge \in Nat
            /\ failed \subseteq 1 .. made' /\ made + 1 \notin failed
            /\ \A k \in DOMAIN items : items[k].item \in 1 .. made
                                       /\ items[k] \in [item : 1 .. made', expires : Nat]
        BY <2>3 DEF CacheInv, ItemOK
      <3>3. new \in [item : 1 .. made', expires : Nat] /\ new.item = made + 1 /\ new.expires = clock
        BY <2>3, <3>2
      <3> HIDE DEF new
      <3>4. clock >= next_purge - PurgeInterval
        BY <2>3 DEF CacheInv, ItemOK
      <3>5. QED
        BY <1>2, <2>1, <2>3, <3>1, <3>2, <3>3, <3>4 DEF CacheInv, ItemOK
    <2>4. QED
      BY <1>6, <2>2, <2>3 DEF Cache!Create
  <1>7. CASE Cache!Stamp
    <2>1. /\ request.at = "stamp" /\ UNCHANGED <<clock, next_purge, made, failed>>
          /\ Cache!Goto("publish") /\ request.since <= next_purge /\ request.since <= clock
          /\ request \in CacheRequest /\ request.key \in DOMAIN items
      BY <1>7 DEF Cache!Stamp, CacheInv, ItemOK
    <2>5. /\ request.ttl \in Nat /\ clock \in Nat /\ next_purge \in Nat
          /\ clock >= next_purge - PurgeInterval
      BY <1>0, <2>1, Zenon DEF CacheInv, ItemOK, CacheRequest
    <2>2. /\ clock + request.ttl \in Nat /\ clock + request.ttl >= next_purge - PurgeInterval
      BY <1>0, <2>5
    <2>3. /\ DOMAIN items' = DOMAIN items
          /\ \A k \in DOMAIN items : /\ items'[k] \in [item : 1 .. made, expires : Nat]
                                     /\ items'[k].item = items[k].item
                                     /\ items'[k].expires >= next_purge - PurgeInterval
      BY <1>7, <2>1, <2>2 DEF Cache!Stamp, CacheInv, ItemOK
    <2>4. QED
      BY <1>2, <2>1, <2>3 DEF CacheInv, ItemOK
  <1>8. CASE Cache!Publish
    <2>1. /\ request.at = "publish" /\ UNCHANGED <<clock, items, next_purge, made>>
          /\ request.since <= clock /\ request \in CacheRequest /\ request.key \in DOMAIN items
      BY <1>8 DEF Cache!Publish, CacheInv, ItemOK
    <2>2. CASE request' = [at |-> "none"] /\ UNCHANGED failed
      BY <2>1, <2>2 DEF CacheInv, ItemOK
    <2>3. CASE Cache!Goto("failed") /\ failed' = failed \cup {items[request.key].item}
      <3>1. /\ items[request.key].item \in 1 .. made
            /\ \A k \in DOMAIN items :
                  /\ items[k].item \notin failed
                  /\ items[k].item = items[request.key].item => k = request.key
        BY <2>1 DEF CacheInv, ItemOK
      <3>2. /\ request' \in CacheRequest /\ request'.at = "failed"
            /\ request'.key = request.key /\ request'.since = request.since
        BY <1>2, <2>1, <2>3
      <3>3. \A k \in DOMAIN items' : ItemOK(k)'
        BY <2>1, <2>3, <3>1, <3>2 DEF CacheInv, ItemOK
      <3>4. failed' \subseteq 1 .. made'
        BY <2>1, <2>3, <3>1, Zenon DEF CacheInv
      <3>5. QED
        BY <2>1, <2>3, <3>2, <3>3, <3>4 DEF CacheInv, CacheRequest
    <2>4. QED
      BY <1>8, <2>2, <2>3 DEF Cache!Publish
  <1>9. CASE Cache!expire
    <2>1. /\ request.at = "failed" /\ UNCHANGED <<clock, next_purge, made, failed>>
          /\ request' = [at |-> "none"] /\ items' = Cache!Without({request.key})
      BY <1>9 DEF Cache!expire
    <2>2. /\ DOMAIN items' = DOMAIN items \ {request.key}
          /\ \A k \in DOMAIN items' : items'[k] = items[k]
      BY <1>3, <2>1, Zenon
    <2>3. \A k \in DOMAIN items' : items'[k].item \notin failed
      BY <2>1, <2>2, Zenon DEF CacheInv, ItemOK
    <2>4. ASSUME NEW k \in DOMAIN items' PROVE ItemOK(k)'
      <3>1. k \in DOMAIN items /\ items'[k] = items[k] /\ items'[k].item \notin failed
        BY <2>2, <2>3, <2>4
      <3>2. ItemOK(k)
        BY <3>1 DEF CacheInv
      <3>3. \A q \in DOMAIN items' : q \in DOMAIN items /\ items'[q].item = items[q].item
        BY <2>2
      <3>4. QED
        BY <2>1, <3>1, <3>2, <3>3, Zenon DEF ItemOK
    <2>5. QED
      BY <2>1, <2>2, <2>4 DEF CacheInv
  <1>10. CASE Cache!Pass
    <2>1. clock' = clock + 1 /\ UNCHANGED <<items, next_purge, request, made, failed>>
      BY <1>10 DEF Cache!Pass
    <2>2. /\ clock' \in Nat /\ clock' >= next_purge - PurgeInterval
          /\ request.at # "none" => request.since <= clock'
      BY <1>0, <2>1 DEF CacheInv, ItemOK, CacheRequest
    <2>3. QED
      BY <2>1, <2>2 DEF CacheInv, ItemOK
  <1>11. CASE UNCHANGED cvars
    BY <1>11 DEF CacheInv, ItemOK, cvars
  <1>12. QED
    BY <1>1, <1>4, <1>5, <1>6, <1>7, <1>8, <1>9, <1>10, <1>11 DEF Cache!CacheNext

----------------------------------------------------------------------------
(* The headers of requests.                                                *)

Requests == [op : Http!Op, brings : BOOLEAN, forms : SUBSET Http!Forms]
Own(s, brings) == IF brings THEN Http!Token(s) ELSE <<>>

\* The headers of a request have the type of one of its forms.
Says(s) ==
    \E f \in sending[s].forms :
        Http!Headers(s, sending[s].op, sending[s].brings) = Http!Said(f, Own(s, sending[s].brings))

HttpInv ==
    /\ \A op \in Http!Op : shared[op] = <<>> \/ \E f \in Http!Forms : shared[op] = Http!Said(f, <<>>)
    /\ DOMAIN shared = Http!Op /\ DOMAIN own = Sender
    /\ \A s \in Sender : own[s] = Http!Token(s) \/ \E x : own[s] = Http!Typed(x, Http!Token(s))
    /\ sending \in [Sender -> {None} \cup Requests]
    /\ \A s \in Sender : sending[s] # None => Says(s)

LEMMA HttpInit == Http!UrlInit => HttpInv
  BY Zenon DEF Http!UrlInit, HttpInv

\* A type takes the place of the one that is there, and nothing else's.
LEMMA Retyped ==
    ASSUME NEW f, NEW x, NEW s
    PROVE  /\ Http!Said(f, Http!Typed(x, <<>>)) = Http!Said(f, <<>>)
           /\ Http!Said(f, Http!Typed(x, Http!Token(s))) = Http!Said(f, Http!Token(s))
  BY DEF Http!Said, Http!Typed, Http!Token

LEMMA HttpStep == HttpInv /\ (Http!UrlNext \/ UNCHANGED uvars) => HttpInv'
  <1> SUFFICES ASSUME HttpInv, Http!UrlNext \/ UNCHANGED uvars PROVE HttpInv'
    OBVIOUS
  <1>1. ASSUME NEW s \in Sender, NEW op \in Http!Op, NEW brings \in BOOLEAN,
               NEW f \in Http!Forms, Http!Prepare(s, op, brings, f)
        PROVE  HttpInv'
    <2> DEFINE q == [op |-> op, brings |-> brings, forms |-> {f}]
               after(t) == IF t = s THEN q
                           ELSE IF ~brings /\ Http!Shares(t, op)
                           THEN [sending[t] EXCEPT !.forms = @ \cup {f}] ELSE sending[t]
    <2>1. sending[s] = None /\ sending' = [t \in Sender |-> after(t)]
      BY <1>1 DEF Http!Prepare
    <2>2. q \in Requests /\ q.op = op /\ q.brings = brings /\ q.forms = {f}
      BY DEF Requests
    <2>3. ASSUME NEW t \in Sender \ {s}, sending[t] # None, ~brings, Http!Shares(t, op)
          PROVE  /\ after(t) \in Requests /\ after(t).forms = sending[t].forms \cup {f}
                 /\ after(t).op = op /\ ~after(t).brings
      <3>1. sending[t] \in Requests /\ sending[t].op = op /\ ~sending[t].brings
        BY <2>3 DEF HttpInv, Http!Shares
      <3>2. QED
        BY <2>3, <3>1 DEF Requests
    <2>4. \A t \in Sender \ {s} : ~(~brings /\ Http!Shares(t, op)) => sending'[t] = sending[t]
      BY <2>1
    <2>5. \A t \in Sender \ {s} : sending[t] = None => sending'[t] = None
      BY <2>1 DEF Http!Shares
    <2>6. \A t \in Sender \ {s} : sending'[t] \in {None} \cup Requests
      BY <2>1, <2>3, <2>4, <2>5 DEF HttpInv
    <2>7. sending'[s] = q
      BY <2>1
    <2>8. sending' \in [Sender -> {None} \cup Requests]
      BY <2>1, <2>2, <2>6, <2>7
    <2>9. \A t \in Sender \ {s} : sending'[t] # None =>
             /\ sending[t] # None /\ sending[t].forms \subseteq sending'[t].forms
             /\ sending'[t].op = sending[t].op /\ sending'[t].brings = sending[t].brings
             /\ ~brings /\ ~sending[t].brings /\ sending[t].op = op => f \in sending'[t].forms
      <3> SUFFICES ASSUME NEW t \in Sender \ {s}, sending'[t] # None
                   PROVE  /\ sending[t] # None /\ sending[t].forms \subseteq sending'[t].forms
                          /\ sending'[t].op = sending[t].op
                          /\ sending'[t].brings = sending[t].brings
                          /\ ~brings /\ ~sending[t].brings /\ sending[t].op = op
                                => f \in sending'[t].forms
        OBVIOUS
      <3>1. sending[t] # None
        BY <2>5
      <3>2. CASE ~brings /\ Http!Shares(t, op)
        <4>1. sending'[t] = after(t) /\ sending[t].op = op /\ ~sending[t].brings
          BY <2>1, <3>1, <3>2 DEF Http!Shares
        <4>2. sending[t].brings \in BOOLEAN /\ after(t).brings \in BOOLEAN
          BY <2>3, <3>1, <3>2 DEF HttpInv, Requests
        <4> HIDE DEF after
        <4>3. QED
          BY <2>3, <3>1, <3>2, <4>1, <4>2
      <3>3. CASE ~(~brings /\ Http!Shares(t, op))
        BY <2>4, <3>1, <3>3 DEF Http!Shares
      <3>4. QED
        BY <3>2, <3>3
    <2> HIDE DEF q, after
    <2>10. CASE brings
      <3>1. own' = [own EXCEPT ![s] = Http!Said(f, own[s])] /\ UNCHANGED shared
        BY <1>1, <2>10 DEF Http!Prepare, Http!Headers, Http!content_type_data, Http!Said
      <3>2. Http!Said(f, own[s]) = Http!Said(f, Http!Token(s))
        BY Retyped DEF HttpInv
      <3>3. /\ DOMAIN own' = Sender /\ own'[s] = Http!Said(f, Http!Token(s))
            /\ \A t \in Sender \ {s} : own'[t] = own[t]
        BY <3>1, <3>2 DEF HttpInv
      <3>4. \A t \in Sender : own'[t] = Http!Token(t) \/ \E x : own'[t] = Http!Typed(x, Http!Token(t))
        BY <3>3 DEF HttpInv, Http!Said
      <3>5. Says(s)'
        BY <2>2, <2>7, <2>10, <3>3 DEF Says, Own, Http!Headers
      <3>6. ASSUME NEW t \in Sender \ {s}, sending'[t] # None PROVE Says(t)'
        BY <2>9, <3>1, <3>3, <3>6 DEF HttpInv, Says, Own, Http!Headers
      <3>7. QED
        BY <2>8, <3>1, <3>3, <3>4, <3>5, <3>6 DEF HttpInv
    <2>11. CASE ~brings
      <3>1. shared' = [shared EXCEPT ![op] = Http!Said(f, shared[op])] /\ UNCHANGED own
        BY <1>1, <2>11 DEF Http!Prepare, Http!Headers, Http!content_type_data, Http!Said
      <3>2. Http!Said(f, shared[op]) = Http!Said(f, <<>>)
        BY Retyped DEF HttpInv, Http!Said
      <3>3. /\ DOMAIN shared' = Http!Op /\ shared'[op] = Http!Said(f, <<>>)
            /\ \A o \in Http!Op \ {op} : shared'[o] = shared[o]
        BY <3>1, <3>2 DEF HttpInv
      <3>4. \A o \in Http!Op : shared'[o] = <<>> \/ \E g \in Http!Forms : shared'[o] = Http!Said(g, <<>>)
        BY <3>3 DEF HttpInv
      <3>5. Says(s)'
        BY <2>2, <2>7, <2>11, <3>3 DEF Says, Own, Http!Headers
      <3>6. ASSUME NEW t \in Sender \ {s}, sending'[t] # None PROVE Says(t)'
        <4>1. sending[t] \in Requests /\ Says(t)
          BY <2>9, <3>6 DEF HttpInv
        <4>2. CASE sending[t].brings \/ sending[t].op # op
          BY <2>9, <3>1, <3>3, <3>6, <4>1, <4>2 DEF Says, Own, Http!Headers, Requests
        <4>3. CASE ~sending[t].brings /\ sending[t].op = op
          BY <2>9, <2>11, <3>3, <3>6, <4>1, <4>3 DEF Says, Own, Http!Headers, Requests
        <4>4. QED
          BY <4>1, <4>2, <4>3
      <3>7. QED
        BY <2>8, <3>1, <3>3, <3>4, <3>5, <3>6 DEF HttpInv
    <2>12. QED
      BY <2>10, <2>11
  <1>2. ASSUME NEW s \in Sender, Http!Perform(s) PROVE HttpInv'
    <2>1. UNCHANGED <<shared, own>> /\ sending' = [sending EXCEPT ![s] = None]
      BY <1>2 DEF Http!Perform
    <2>2. \A t \in Sender : sending'[t] # None => sending'[t] = sending[t]
      BY <2>1 DEF HttpInv
    <2>3. \A t \in Sender : sending'[t] # None => Says(t)'
      BY <2>1, <2>2 DEF HttpInv, Says, Http!Headers
    <2>4. QED
      BY <2>1, <2>3 DEF HttpInv
  <1>3. CASE UNCHANGED uvars
    BY <1>3 DEF HttpInv, uvars, Says, Http!Headers
  <1>4. QED
    BY <1>1, <1>2, <1>3 DEF Http!UrlNext

LEMMA HttpSound == HttpInv => Http!RequestsSound
  BY DEF HttpInv, Says, Own, Http!RequestsSound

----------------------------------------------------------------------------
(* The queries to the database.                                            *)

\* How many connections the queries before the one at hand may have used.
Earlier == (asks.query - 1) * QueryTries

\* The connections that were tried for the query are the last that were made, and all
\* but the one at hand broke.
DbInv ==
    /\ asks \in [at : {"over", "connect", "execute"}, query : 0 .. MaxQueries,
                 onerow : BOOLEAN, tries : 1 .. QueryTries, left : Int,
                 cursor : Database!Connections \cup {None},
                 outcome : {None, "answered", "raised"}]
    /\ connections \in Nat /\ lost \subseteq 1 .. connections
    /\ DOMAIN executed = Database!Connections
    /\ \A c \in Database!Connections :
          /\ executed[c] \in 1 .. asks.query \cup {None}
          /\ c > connections => executed[c] = None
    /\ asks.at = "over" => connections <= asks.query * QueryTries
    /\ asks.at # "over" => asks.query >= 1 /\ asks.outcome = None
    /\ asks.at = "connect" => connections <= Earlier + (QueryTries - asks.tries)
    /\ asks.at = "execute" =>
          /\ connections <= Earlier + (QueryTries - asks.tries) + 1
          /\ asks.cursor = connections /\ connections \in Database!Connections
          /\ connections \notin lost /\ executed[connections] = None
    /\ \A c \in Database!Connections :
          asks.at # "over" /\ executed[c] # None /\ executed[c] = asks.query =>
              /\ c \in lost
              /\ c > (IF asks.at = "execute" THEN connections - 1 ELSE connections)
                        - (QueryTries - asks.tries)
    /\ Database!StatementsSound

LEMMA More == \A a, b, q \in Nat : a <= b => a * q \in Nat /\ b * q \in Nat /\ a * q <= b * q
  OBVIOUS

LEMMA DbInit == Database!DbInit => DbInv
  <1> SUFFICES ASSUME Database!DbInit PROVE DbInv
    OBVIOUS
  <1>1. /\ QueryTries \in 1 .. QueryTries /\ ConnectTries \in Int /\ 0 \in 0 .. MaxQueries
        /\ 0 <= 0 * QueryTries
    BY LibraryAssumption DEF LibraryAssumption
  <1>3. None # "answered"
    BY LibraryAssumption DEF LibraryAssumption
  <1>4. /\ asks = [at |-> "over", query |-> 0, onerow |-> FALSE, tries |-> QueryTries,
                   left |-> ConnectTries, cursor |-> None, outcome |-> None]
        /\ connections = 0 /\ lost = {}
        /\ executed = [c \in Database!Connections |-> None]
    BY DEF Database!DbInit, Database!Asking
  <1>5. QED
    BY <1>1, <1>3, <1>4 DEF DbInv, Database!StatementsSound

\* What follows from one more statement being executed, on the last connection.
LEMMA Once ==
    ASSUME DbInv, asks.at = "execute", connections' = connections,
           \/ executed' = [executed EXCEPT ![asks.cursor] = asks.query]
           \/ executed' = executed,
           lost \subseteq lost'
    PROVE  /\ DOMAIN executed' = Database!Connections
           /\ \A c \in Database!Connections :
                 /\ executed'[c] \in 1 .. asks.query \cup {None}
                 /\ c > connections => executed'[c] = None
                 /\ executed'[c] # None /\ executed'[c] = asks.query =>
                       \/ c = connections
                       \/ c \in lost' /\ c > connections - 1 - (QueryTries - asks.tries)
           /\ \A c, d \in Database!Connections :
                 executed'[c] # None /\ executed'[c] = executed'[d] /\ c < d =>
                     c \in lost' /\ d - c < QueryTries
  <1> DEFINE n == connections
  <1>0. /\ n \in Database!Connections /\ asks.cursor = n /\ executed[n] = None
        /\ asks.query \in 1 .. asks.query /\ Database!Connections \subseteq Nat
        /\ QueryTries \in Nat /\ asks.tries \in 1 .. QueryTries
        /\ DOMAIN executed = Database!Connections /\ n \in Nat
    BY LibraryAssumption DEF LibraryAssumption, DbInv, Database!Connections
  <1>1. /\ DOMAIN executed' = Database!Connections
        /\ \A c \in Database!Connections \ {n} : executed'[c] = executed[c]
        /\ executed'[n] \in {None, asks.query}
    BY <1>0
  <1>2. \A c \in Database!Connections :
           /\ executed'[c] \in 1 .. asks.query \cup {None}
           /\ c > n => executed'[c] = None
    BY <1>0, <1>1 DEF DbInv
  <1>3. \A c \in Database!Connections :
           executed[c] # None /\ executed[c] = asks.query =>
               c \in lost /\ c > n - 1 - (QueryTries - asks.tries)
    BY DEF DbInv
  <1>4. ASSUME NEW c \in Database!Connections, NEW d \in Database!Connections,
               executed'[c] # None, executed'[c] = executed'[d], c < d
        PROVE  c \in lost' /\ d - c < QueryTries
    <2>1. CASE c # n /\ d # n
      BY <1>1, <1>4, <2>1, Zenon DEF DbInv, Database!StatementsSound
    <2>2. CASE c = n
      BY <1>0, <1>2, <1>4, <2>2
    <2>3. CASE d = n /\ c # n
      <3>1. executed[c] = asks.query /\ executed[c] # None
        BY <1>0, <1>1, <1>4, <2>3
      <3>2. c \in lost /\ c > n - 1 - (QueryTries - asks.tries)
        BY <1>3, <3>1
      <3>3. QED
        BY <1>0, <2>3, <3>2
    <2>4. QED
      BY <2>1, <2>2, <2>3
  <1>5. QED
    BY <1>0, <1>1, <1>2, <1>3, <1>4

LEMMA DbStep == DbInv /\ (Database!DbNext \/ UNCHANGED bvars) => DbInv'
  <1> SUFFICES ASSUME DbInv, Database!DbNext \/ UNCHANGED bvars PROVE DbInv'
    OBVIOUS
  <1>0. /\ ConnectTries \in Nat /\ QueryTries \in Nat \ {0} /\ MaxQueries \in Nat
        /\ None # "answered"
    BY LibraryAssumption DEF LibraryAssumption
  <1> DEFINE Asks == [at : {"over", "connect", "execute"}, query : 0 .. MaxQueries,
                      onerow : BOOLEAN, tries : 1 .. QueryTries, left : Int,
                      cursor : Database!Connections \cup {None},
                      outcome : {None, "answered", "raised"}]
             Used == (asks.query - 1) * QueryTries
  <1>1. /\ asks \in Asks /\ asks.query \in Nat /\ asks.tries \in 1 .. QueryTries
        /\ connections \in Nat /\ lost \subseteq 1 .. connections
        /\ asks.query <= MaxQueries
    BY <1>0 DEF DbInv
  <1>2. asks.query >= 1 => /\ Used \in Nat /\ asks.query * QueryTries = Used + QueryTries
                          /\ asks.query * QueryTries <= MaxQueries * QueryTries
                          /\ asks.query * QueryTries \in Nat
    BY <1>0, <1>1, More
  <1>3. ASSUME NEW n \in 1 .. MaxQueries, NEW onerow \in BOOLEAN, Database!Query(n, onerow)
        PROVE  DbInv'
    <2>1. /\ asks.at = "over" /\ n = asks.query + 1 /\ UNCHANGED <<connections, lost, executed>>
          /\ asks' = [at |-> "connect", query |-> n, onerow |-> onerow, tries |-> QueryTries,
                      left |-> ConnectTries, cursor |-> None, outcome |-> None]
      BY <1>3 DEF Database!Query, Database!At, Database!Asking
    <2>2. asks' \in Asks
      BY <1>0, <2>1
    <2>3. (n - 1) * QueryTries + (QueryTries - QueryTries) = asks.query * QueryTries
      <3>1. n - 1 = asks.query /\ asks.query * QueryTries \in Nat
        BY <1>0, <1>1, <2>1, More
      <3>2. QED
        BY <1>0, <3>1
    <2>4. connections <= Earlier' + (QueryTries - asks'.tries)
      BY <2>1, <2>3 DEF Earlier, DbInv
    <2>5. \A c \in Database!Connections :
             /\ executed[c] \in 1 .. n \cup {None}
             /\ ~(executed[c] # None /\ executed[c] = n)
      BY <1>1, <2>1 DEF DbInv
    <2>6. Database!StatementsSound'
      BY <1>0, <2>1 DEF DbInv, Database!StatementsSound
    <2> HIDE DEF Asks
    <2>7. QED
      BY <1>1, <2>1, <2>2, <2>4, <2>5, <2>6 DEF DbInv, Asks
  <1>4. CASE Database!Connect
    <2>1. /\ asks.at = "connect" /\ UNCHANGED <<lost, executed>> /\ asks.query >= 1
          /\ connections <= Earlier + (QueryTries - asks.tries) /\ asks.outcome = None
      BY <1>4 DEF Database!Connect, Database!At, DbInv
    <2>2. CASE /\ connections' = connections + 1
               /\ asks' = [asks EXCEPT !.at = "execute", !.cursor = connections + 1]
      <3>1. connections + 1 \in Database!Connections
        BY <1>0, <1>1, <1>2, <2>1 DEF Earlier, Database!Connections
      <3>2. /\ asks' \in Asks /\ asks'.at = "execute" /\ asks'.query = asks.query
            /\ asks'.tries = asks.tries /\ asks'.cursor = connections + 1
            /\ asks'.outcome = None
        BY <1>1, <2>1, <2>2, <3>1, Zenon
      <3>3. /\ connections' \notin lost /\ executed[connections'] = None
            /\ lost \subseteq 1 .. connections' /\ connections' \in Nat
            /\ \A c \in Database!Connections : c > connections' => executed[c] = None
        BY <1>1, <2>2, <3>1 DEF DbInv, Database!Connections
      <3>4. connections' <= Earlier' + (QueryTries - asks'.tries) + 1
        BY <1>0, <1>1, <1>2, <2>1, <2>2, <3>2 DEF Earlier
      <3>5. \A c \in Database!Connections :
               executed[c] # None /\ executed[c] = asks.query =>
                   c \in lost /\ c > (connections' - 1) - (QueryTries - asks.tries)
        BY <1>1, <2>1, <2>2 DEF DbInv
      <3>6. Database!StatementsSound'
        BY <1>0, <2>1, <3>2 DEF DbInv, Database!StatementsSound
      <3> HIDE DEF Asks
      <3>7. QED
        BY <2>1, <2>2, <3>1, <3>2, <3>3, <3>4, <3>5, <3>6 DEF DbInv, Asks
    <2>3. CASE asks' = [asks EXCEPT !.left = @ - 1] /\ UNCHANGED connections
      <3>1. /\ asks' \in Asks /\ asks'.at = "connect" /\ asks'.query = asks.query
            /\ asks'.tries = asks.tries /\ asks'.outcome = None /\ asks'.cursor = asks.cursor
        BY <1>1, <2>1, <2>3
      <3>2. Database!StatementsSound' /\ Earlier' = Earlier
        BY <2>1, <2>3, <3>1 DEF DbInv, Database!StatementsSound, Earlier
      <3> HIDE DEF Asks
      <3>3. QED
        BY <2>1, <2>3, <3>1, <3>2 DEF DbInv, Asks
    <2>4. CASE Database!Over("raised") /\ UNCHANGED connections
      <3>1. /\ asks' \in Asks /\ asks'.at = "over" /\ asks'.query = asks.query
            /\ asks'.outcome = "raised"
        BY <1>1, <2>4, Zenon DEF Database!Over
      <3>2. Database!StatementsSound'
        BY <2>1, <2>4, <3>1 DEF DbInv, Database!StatementsSound
      <3>3. connections <= asks.query * QueryTries
        BY <1>0, <1>1, <1>2, <2>1 DEF Earlier
      <3> HIDE DEF Asks
      <3>4. QED
        BY <2>1, <2>4, <3>1, <3>2, <3>3 DEF DbInv, Asks
    <2>5. QED
      BY <1>4, <2>2, <2>3, <2>4 DEF Database!Connect
  <1>5. ASSUME asks.at = "execute"
        PROVE  /\ asks.cursor = connections /\ connections \in Database!Connections
               /\ connections \notin lost /\ asks.query >= 1 /\ asks.outcome = None
               /\ connections <= Earlier + (QueryTries - asks.tries) + 1
               /\ connections <= asks.query * QueryTries
    <2>1. /\ asks.cursor = connections /\ connections \in Database!Connections
          /\ connections \notin lost /\ asks.query >= 1 /\ asks.outcome = None
          /\ connections <= Earlier + (QueryTries - asks.tries) + 1
      BY <1>5 DEF DbInv
    <2>2. connections <= asks.query * QueryTries
      BY <1>0, <1>1, <1>2, <2>1 DEF Earlier
    <2>3. QED
      BY <2>1, <2>2
  <1>6. ASSUME NEW rows \in -1 .. 2, Database!Execute(rows) PROVE DbInv'
    <2>1. /\ asks.at = "execute" /\ UNCHANGED <<connections, lost>>
          /\ executed' = [executed EXCEPT ![asks.cursor] = asks.query]
      BY <1>6 DEF Database!Execute, Database!At
    <2>2. PICK outcome \in {"answered", "raised"} : Database!Over(outcome)
      BY <1>6 DEF Database!Execute
    <2>3. /\ asks' \in Asks /\ asks'.at = "over" /\ asks'.query = asks.query
          /\ asks'.cursor = asks.cursor
      BY <1>1, <2>2, Zenon DEF Database!Over
    <2>4. executed'[asks.cursor] = asks.query
      BY <1>5, <2>1 DEF DbInv
    <2>5. /\ DOMAIN executed' = Database!Connections
          /\ \A c \in Database!Connections :
                /\ executed'[c] \in 1 .. asks.query \cup {None}
                /\ c > connections => executed'[c] = None
          /\ \A c, d \in Database!Connections :
                executed'[c] # None /\ executed'[c] = executed'[d] /\ c < d =>
                    c \in lost' /\ d - c < QueryTries
      BY <2>1, Once
    <2>6. Database!StatementsSound'
      BY <1>5, <2>1, <2>3, <2>4, <2>5 DEF Database!StatementsSound
    <2> HIDE DEF Asks
    <2>7. QED
      BY <1>1, <1>5, <2>1, <2>3, <2>5, <2>6 DEF DbInv, Asks
  <1>7. CASE Database!Refuse
    <2>1. /\ asks.at = "execute" /\ UNCHANGED <<connections, lost, executed>>
          /\ Database!Over("raised")
      BY <1>7 DEF Database!Refuse, Database!At
    <2>2. /\ asks' \in Asks /\ asks'.at = "over" /\ asks'.query = asks.query
          /\ asks'.outcome = "raised"
      BY <1>1, <2>1, Zenon DEF Database!Over
    <2>3. Database!StatementsSound'
      BY <2>1, <2>2 DEF DbInv, Database!StatementsSound
    <2> HIDE DEF Asks
    <2>4. QED
      BY <1>5, <2>1, <2>2, <2>3 DEF DbInv, Asks
  <1>8. CASE Database!Retry
    <2>1. /\ asks.at = "execute" /\ connections' = connections
          /\ lost' = lost \cup {connections}
          /\ \/ executed' = [executed EXCEPT ![asks.cursor] = asks.query]
             \/ executed' = executed
      BY <1>5, <1>8 DEF Database!Retry, Database!At
    <2>2. /\ DOMAIN executed' = Database!Connections
          /\ \A c \in Database!Connections :
                /\ executed'[c] \in 1 .. asks.query \cup {None}
                /\ c > connections => executed'[c] = None
                /\ executed'[c] # None /\ executed'[c] = asks.query =>
                      \/ c = connections
                      \/ c \in lost' /\ c > connections - 1 - (QueryTries - asks.tries)
          /\ \A c, d \in Database!Connections :
                executed'[c] # None /\ executed'[c] = executed'[d] /\ c < d =>
                    c \in lost' /\ d - c < QueryTries
      BY <2>1, Once
    <2>3. lost' \subseteq 1 .. connections
      BY <1>1, <1>5, <2>1 DEF Database!Connections
    <2>4. CASE asks.tries > 1
      <3>1. asks' = [asks EXCEPT !.tries = @ - 1, !.at = "connect", !.left = ConnectTries,
                                 !.cursor = None]
        BY <1>8, <2>4 DEF Database!Retry
      <3>7. asks.tries - 1 \in 1 .. QueryTries /\ ConnectTries \in Int /\ asks.outcome = None
        BY <1>0, <1>1, <1>5, <2>1, <2>4
      <3>2. /\ asks' \in Asks /\ asks'.at = "connect" /\ asks'.query = asks.query
            /\ asks'.tries = asks.tries - 1 /\ asks'.outcome = None
        BY <1>1, <3>1, <3>7, Zenon
      <3>3. Database!StatementsSound'
        BY <1>0, <2>2, <3>2 DEF Database!StatementsSound
      <3>4. connections <= Earlier' + (QueryTries - asks'.tries)
        BY <1>0, <1>1, <1>2, <1>5, <2>1, <3>2 DEF Earlier
      <3>5. \A c \in Database!Connections :
               executed'[c] # None /\ executed'[c] = asks.query =>
                   c \in lost' /\ c > connections - (QueryTries - asks'.tries)
        BY <1>0, <1>1, <2>1, <2>2, <3>2, SMTT(30) DEF Database!Connections
      <3> HIDE DEF Asks
      <3>6. QED
        BY <1>1, <1>5, <2>1, <2>2, <2>3, <3>2, <3>3, <3>4, <3>5 DEF DbInv, Asks
    <2>5. CASE ~(asks.tries > 1)
      <3>1. Database!Over("raised")
        BY <1>8, <2>5 DEF Database!Retry
      <3>2. /\ asks' \in Asks /\ asks'.at = "over" /\ asks'.query = asks.query
            /\ asks'.outcome = "raised"
        BY <1>1, <3>1, Zenon DEF Database!Over
      <3>3. Database!StatementsSound'
        BY <2>2, <3>2 DEF Database!StatementsSound
      <3> HIDE DEF Asks
      <3>4. QED
        BY <1>1, <1>5, <2>1, <2>2, <2>3, <3>2, <3>3 DEF DbInv, Asks
    <2>6. QED
      BY <2>4, <2>5
  <1>9. CASE UNCHANGED bvars
    BY <1>9 DEF DbInv, bvars, Database!StatementsSound, Earlier
  <1>10. QED
    BY <1>3, <1>4, <1>6, <1>7, <1>8, <1>9 DEF Database!DbNext

\* A connection that failed is not used again and none is kept long; whoever shares
\* headers, a request goes out with its own token or none, and with its own type or that
\* of data given by others who share them; and an answer comes from the statement
\* that was asked for, executed no more often than it was tried: for any number of keys,
\* threads and queries (expiringset.py, psurl.py, dbcursor.py).
THEOREM ChannelsHold == LibrarySpec => []ChannelsSound
  <1> DEFINE Inv == CacheInv /\ HttpInv /\ DbInv
  <1>1. LibraryInit => Inv
    BY CacheInit, HttpInit, DbInit DEF LibraryInit
  <1>2. Inv /\ [LibraryNext]_vars => Inv'
    BY CacheStep, HttpStep, DbStep DEF LibraryNext, vars, cvars, uvars, bvars
  <1>3. Inv => ChannelsSound
    <2> SUFFICES ASSUME CacheInv PROVE Cache!ChannelsSound
      BY HttpSound DEF DbInv, ChannelsSound
    <2>1. PurgeInterval \in Nat
      BY LibraryAssumption DEF LibraryAssumption
    <2>2. QED
      BY <2>1 DEF CacheInv, ItemOK, CacheRequest, Cache!ChannelsSound
  <1> HIDE DEF Inv
  <1>4. QED
    BY <1>1, <1>2, <1>3, PTL DEF LibrarySpec

----------------------------------------------------------------------------
(* Crashes are spaced.                                                     *)

InRange(backoff) == backoff \in Nat /\ Backoff <= backoff /\ backoff < BackoffMax + Backoff

\* The backoff is in range here and where the next life finds it; each crash that is
\* over has taken a backoff's time.
SpacedInv ==
    /\ InRange(current_backoff)
    /\ run_env # None => InRange(run_env.current_backoff)
    /\ elapsed \in Nat /\ crashes \in Nat
    /\ elapsed >= Backoff * (IF at = "waiting" THEN crashes - 1 ELSE crashes)

LEMMA OneMore == ASSUME NEW b \in Nat, NEW n \in Nat
                 PROVE  /\ b * (n + 1) = b * n + b
                        /\ b * ((n + 1) - 1) = b * n
                        /\ b * n = b * (n - 1) + b
                        /\ b * n \in Nat
  BY SMT

LEMMA SpacedInit == LifeInit => SpacedInv
  BY LifeAssumption DEF LifeInit, SpacedInv, InRange

LEMMA SpacedNext == SpacedInv /\ [LifeNext]_dvars => SpacedInv'
<1> SUFFICES ASSUME SpacedInv, [LifeNext]_dvars PROVE SpacedInv'
  OBVIOUS
<1> USE LifeAssumption DEF InRange
<1>1. ASSUME NEW level \in Levels, NEW debug \in BOOLEAN, MakeLog(level, debug) PROVE SpacedInv'
  BY <1>1 DEF MakeLog, SpacedInv, safe
<1>2. ASSUME NEW debug \in BOOLEAN, Signal(debug) PROVE SpacedInv'
  BY <1>2 DEF Signal, SpacedInv, safe
<1>3. ASSUME NEW ran \in RunTimes, Returns(ran) PROVE SpacedInv'
  <2>1. elapsed' >= elapsed /\ elapsed' \in Nat
    BY <1>3 DEF Returns, SpacedInv
  <2> QED
    BY <1>3, <2>1, OneMore DEF Returns, Restart, SpacedInv
<1>4. ASSUME NEW ran \in RunTimes, Throws(ran) PROVE SpacedInv'
  <2> USE <1>4 DEF Throws
  <2>1. ran \in Nat /\ elapsed' \in Nat /\ crashes' \in Nat /\ InRange(current_backoff')
    BY DEF SpacedInv
  <2>2. elapsed >= Backoff * crashes
    BY DEF SpacedInv
  <2>3. CASE ran > current_backoff /\ runs # 0
    <3>1. elapsed' >= Backoff * crashes + Backoff
      BY <2>1, <2>2, <2>3, OneMore DEF SpacedInv
    <3>2. elapsed' >= Backoff * crashes'
      BY <3>1, OneMore DEF SpacedInv
    <3> QED
      BY <2>1, <2>3, <3>2 DEF SpacedInv, Restart
  <2>4. CASE ~(ran > current_backoff /\ runs # 0)
    <3>1. elapsed' >= Backoff * (crashes' - 1)
      BY <2>1, <2>2, OneMore DEF SpacedInv
    <3> QED
      BY <2>1, <2>4, <3>1 DEF SpacedInv
  <2> QED
    BY <2>3, <2>4
<1>5. ASSUME Wait PROVE SpacedInv'
  <2> USE <1>5 DEF Wait
  <2>1. elapsed >= Backoff * (crashes - 1) /\ elapsed' = elapsed + current_backoff
    BY DEF SpacedInv
  <2>2. elapsed' >= Backoff * crashes /\ elapsed' \in Nat
    BY <2>1, OneMore DEF SpacedInv
  <2> QED
    BY <2>2 DEF SpacedInv, Restart
<1>6. ASSUME Begin PROVE SpacedInv'
  BY <1>6 DEF Begin, SpacedInv
<1>7. ASSUME SignalTooEarly \/ Interrupted \/ Exec PROVE SpacedInv'
  BY <1>7 DEF SignalTooEarly, Interrupted, Exec, SpacedInv, safe
<1>8. ASSUME SetLevel \/ SetForced \/ UpdateEnv PROVE SpacedInv'
  <2>1. UNCHANGED <<safe, at>>
    BY <1>8 DEF SetLevel, SetForced, UpdateEnv
  <2> QED
    BY <2>1 DEF safe, SpacedInv
<1>9. ASSUME UNCHANGED dvars PROVE SpacedInv'
  BY <1>9 DEF dvars, SpacedInv
<1> QED
  BY <1>1, <1>2, <1>3, <1>4, <1>5, <1>6, <1>7, <1>8, <1>9 DEF LifeNext

\* However the daemon fails, whenever signals come and however long its lives are, each
\* crash that is over has been followed, or preceded, by the time of a backoff, and no
\* wait grows past the limit (saferun.py 24-31, 83-101).
THEOREM CrashesAreSpaced == LifeSpec => []CrashesSpaced
<1>1. SpacedInv => CrashesSpaced
  BY DEF SpacedInv, InRange, CrashesSpaced
<1> QED
  BY SpacedInit, SpacedNext, <1>1, PTL DEF LifeSpec

----------------------------------------------------------------------------
(* What the logger does reaches the environment.                           *)

Logger == [last_level : Levels, forced_debug : BOOLEAN, level : Levels]
Told == [forced_debug : BOOLEAN, last_level : Levels]
Handler == [state : BOOLEAN, step : {"level", "force", "env"}]
Consistent == log.level = IF log.forced_debug THEN Debug ELSE log.last_level

\* There is a logger wherever there may be a handler; between a handler's first and
\* second assignment the level is ahead of what is said to be forced.
LogInv ==
    /\ handlers \in Seq(Handler) /\ nested \in BOOLEAN
    /\ log_env = None \/ log_env \in Told
    /\ \/ log = None /\ handlers = <<>> /\ at \in {"started", "ended"}
       \/ /\ log \in Logger /\ at # "started"
          /\ handlers = <<>> => log_env = State(log)
          /\ ~nested =>
                /\ Len(handlers) <= 1
                /\ IF handlers # <<>> /\ Inner.step = "force"
                   THEN log.level = IF Inner.state THEN Debug ELSE log.last_level
                   ELSE Consistent

LEMMA LogInit == LifeInit => LogInv
  BY EmptySeq, Zenon DEF LifeInit, LogInv

\* The handler that runs, what is left without it, and what it is after a step.
LEMMA Handlers ==
    ASSUME handlers \in Seq(Handler), handlers # <<>>
    PROVE  /\ Inner \in Handler
           /\ Outer \in Seq(Handler) /\ Len(Outer) = Len(handlers) - 1
           /\ Len(handlers) <= 1 => Outer = <<>>
<1>1. Len(handlers) \in Nat \ {0}
  BY EmptySeq, LenProperties
<1>2. Inner \in Handler
  BY <1>1, ElementOfSeq DEF Inner
<1>3. Outer \in Seq(Handler) /\ Len(Outer) = Len(handlers) - 1
  <2> DEFINE m == Len(handlers) - 1
  <2>1. \A i \in 1 .. m : handlers[i] \in Handler
    BY <1>1, ElementOfSeq
  <2>2. m \in Nat
    BY <1>1
  <2>3. Outer = SubSeq(handlers, 1, m)
    BY DEF Outer
  <2> HIDE DEF m
  <2>4. /\ SubSeq(handlers, 1, m) \in Seq(Handler)
        /\ Len(SubSeq(handlers, 1, m)) = IF 1 <= m THEN m - 1 + 1 ELSE 0
    BY <2>1, <2>2, SubSeqProperties
  <2>5. (IF 1 <= m THEN m - 1 + 1 ELSE 0) = m
    BY <2>2
  <2> QED
    BY <2>3, <2>4, <2>5 DEF m
<1>4. Len(Outer) = 0 => Outer = <<>>
  BY <1>3, EmptySeq
<1> QED
  BY <1>1, <1>2, <1>3, <1>4

LEMMA HandlerSteps ==
    ASSUME handlers \in Seq(Handler), handlers # <<>>, NEW to \in {"level", "force", "env"},
           Step(to)
    PROVE  /\ handlers' \in Seq(Handler) /\ handlers' # <<>> /\ Len(handlers') = Len(handlers)
           /\ Inner'.step = to /\ Inner'.state = Inner.state
<1> DEFINE next == [Inner EXCEPT !.step = to]
<1>1. next \in Handler /\ next.step = to /\ next.state = Inner.state
  BY Handlers DEF Handler
<1>2. handlers' = Append(Outer, next) /\ Outer \in Seq(Handler) /\ Len(Outer) = Len(handlers) - 1
  BY Handlers DEF Step
<1>3. /\ handlers' \in Seq(Handler) /\ Len(handlers') = Len(Outer) + 1
      /\ handlers'[Len(Outer) + 1] = next
  BY <1>1, <1>2, AppendProperties
<1>4. Len(handlers) \in Nat
  BY LenProperties
<1>5. Inner' = next /\ Len(handlers') = Len(handlers) /\ handlers' # <<>>
  BY <1>2, <1>3, <1>4, EmptySeq DEF Inner
<1> QED
  BY <1>1, <1>3, <1>5

LEMMA LogNext == LogInv /\ [LifeNext]_dvars => LogInv'
<1> SUFFICES ASSUME LogInv, [LifeNext]_dvars PROVE LogInv'
  OBVIOUS
<1> USE LifeAssumption
<1>1. ASSUME NEW level \in Levels, NEW debug \in BOOLEAN, MakeLog(level, debug) PROVE LogInv'
  <2> USE <1>1 DEF MakeLog
  <2>1. log' \in Logger
    BY DEF LogInv, Logger, Told
  <2>2. log'.level = IF log'.forced_debug THEN Debug ELSE log'.last_level
    BY DEF LogInv
  <2>3. handlers = <<>> /\ UNCHANGED <<handlers, nested>> /\ Len(handlers) = 0
    BY EmptySeq DEF LogInv
  <2>4. log_env' \in Told /\ log_env' = State(log')
    BY <2>1 DEF State, Told, Logger
  <2> QED
    BY <2>1, <2>2, <2>3, <2>4 DEF LogInv, Consistent, State
<1>2. ASSUME NEW debug \in BOOLEAN, Signal(debug) PROVE LogInv'
  <2> USE <1>2 DEF Signal
  <2> DEFINE new == [state |-> debug, step |-> "level"]
  <2>1. new \in Handler /\ handlers' = Append(handlers, new)
    BY DEF Handler
  <2>2. /\ handlers' \in Seq(Handler) /\ handlers' # <<>>
        /\ Len(handlers') = Len(handlers) + 1 /\ handlers'[Len(handlers) + 1] = new
    BY <2>1, AppendProperties DEF LogInv
  <2>3. Inner'.step = "level"
    BY <2>2 DEF Inner
  <2>4. log \in Logger /\ UNCHANGED <<log, log_env>> /\ nested' \in BOOLEAN
    BY DEF LogInv
  <2>5. ASSUME ~nested' PROVE Len(handlers') <= 1 /\ Consistent'
    <3>1. ~nested /\ handlers = <<>> /\ Len(handlers) = 0
      BY <2>5, EmptySeq, Zenon DEF LogInv
    <3> QED
      BY <3>1, <2>2, <2>4 DEF LogInv, Consistent
  <2> QED
    BY <2>2, <2>3, <2>4, <2>5 DEF LogInv
<1>3. ASSUME SetLevel PROVE LogInv'
  <2> USE <1>3 DEF SetLevel
  <2>1. log \in Logger /\ handlers # <<>> /\ handlers \in Seq(Handler) /\ UNCHANGED nested
    BY DEF LogInv
  <2>2. Inner.state \in BOOLEAN
    BY <2>1, Handlers DEF Handler
  <2>3. log' \in Logger /\ log'.level = IF Inner.state THEN Debug ELSE log'.last_level
    BY <2>1, <2>2 DEF Logger
  <2>4. log_env' \in Told
    BY <2>3 DEF Logger, Told, State
  <2>5. /\ handlers' \in Seq(Handler) /\ handlers' # <<>> /\ Len(handlers') = Len(handlers)
        /\ Inner'.step = "force" /\ Inner'.state = Inner.state
    BY <2>1, HandlerSteps
  <2> QED
    BY <2>1, <2>3, <2>4, <2>5 DEF LogInv
<1>4. ASSUME SetForced PROVE LogInv'
  <2> USE <1>4 DEF SetForced
  <2>1. log \in Logger /\ handlers # <<>> /\ handlers \in Seq(Handler)
        /\ UNCHANGED <<nested, log_env>>
    BY DEF LogInv
  <2>2. Inner.state \in BOOLEAN
    BY <2>1, Handlers DEF Handler
  <2>3. /\ log' \in Logger /\ log'.forced_debug = Inner.state
        /\ log'.level = log.level /\ log'.last_level = log.last_level
    BY <2>1, <2>2 DEF Logger
  <2>4. /\ handlers' \in Seq(Handler) /\ handlers' # <<>> /\ Len(handlers') = Len(handlers)
        /\ Inner'.step = "env"
    BY <2>1, HandlerSteps
  <2>5. ~nested => log.level = IF Inner.state THEN Debug ELSE log.last_level
    BY <2>1 DEF LogInv
  <2> QED
    BY <2>1, <2>3, <2>4, <2>5 DEF LogInv, Consistent
<1>5. ASSUME UpdateEnv PROVE LogInv'
  <2> USE <1>5 DEF UpdateEnv
  <2>1. log \in Logger /\ handlers # <<>> /\ handlers \in Seq(Handler)
        /\ UNCHANGED <<nested, log>>
    BY DEF LogInv
  <2>2. log_env' \in Told /\ log_env' = State(log')
    BY <2>1 DEF State, Told, Logger
  <2>3. Outer \in Seq(Handler) /\ (Len(handlers) <= 1 => Outer = <<>>)
    BY <2>1, Handlers
  <2>4. ~nested => Consistent' /\ handlers' = <<>> /\ Len(handlers') <= 1
    BY <2>1, <2>3, EmptySeq DEF LogInv, Consistent
  <2> QED
    BY <2>1, <2>2, <2>3, <2>4 DEF LogInv
<1>6. ASSUME UNCHANGED logging, at' = "started" => at = "started",
             at \in {"started", "ended"} => at' \in {"started", "ended"}
      PROVE LogInv'
  <2>1. UNCHANGED <<log, log_env, handlers, nested, Inner, Consistent>>
    BY <1>6 DEF logging, Inner, Consistent
  <2>2. CASE log = None /\ handlers = <<>> /\ at \in {"started", "ended"}
    BY <1>6, <2>1, <2>2 DEF LogInv
  <2>3. CASE log \in Logger /\ at # "started"
    BY <1>6, <2>1, <2>3 DEF LogInv, State
  <2> QED
    BY <2>2, <2>3 DEF LogInv
<1>7. ASSUME NEW ran \in RunTimes, Returns(ran) \/ Throws(ran) PROVE LogInv'
  BY <1>6, <1>7 DEF Returns, Throws, Restart
<1>8. ASSUME SignalTooEarly \/ Begin \/ Wait \/ Interrupted PROVE LogInv'
  BY <1>6, <1>8 DEF SignalTooEarly, Begin, Wait, Interrupted, Restart
<1>9. ASSUME Exec PROVE LogInv'
  BY <1>9, Zenon DEF Exec, LogInv
<1>10. ASSUME UNCHANGED dvars PROVE LogInv'
  BY <1>6, <1>10 DEF dvars, logging
<1> QED
  BY <1>1, <1>2, <1>3, <1>4, <1>5, <1>7, <1>8, <1>9, <1>10 DEF LifeNext

\* However signals come, in this life and those before, what the programs the daemon runs
\* and its next life are told is what the logger was set to, and unless one handler has
\* interrupted another the logger does what it was set to (log.py 59-69, 314-330).
THEOREM LoggingPropagates == LifeSpec => []Propagated
<1>1. LogInv => Propagated
  <2> SUFFICES ASSUME LogInv, log # None, handlers = <<>>
               PROVE  /\ log_env = State(log)
                      /\ ~nested => Consistent
    BY DEF Propagated, Consistent
  <2> QED
    BY DEF LogInv
<1> QED
  BY LogInit, LogNext, <1>1, PTL DEF LifeSpec

----------------------------------------------------------------------------
(* The limits on test parameters.                                          *)

\* The verdict on an address, and on what a host that is named resolves to.
LEMMA VerdictOnOne ==
    ASSUME NEW limit, NEW host, NEW ip, NEW versions, host # None, ip # None
    PROVE  Params!check_ip_limit(limit, host, ip, versions)
             = IF Params!Allows(limit, ip) THEN "passes" ELSE "fails"
  BY DEF Params!check_ip_limit, Params!Verdict

LEMMA VerdictOnAll ==
    ASSUME NEW limit, NEW host, NEW versions, host # None
    PROVE  Params!check_ip_limit(limit, host, None, versions) = "passes"
             <=> /\ \E v \in versions : host[v] # None
                 /\ \A v \in versions : host[v] # None => Params!Allows(limit, host[v])
  <1> DEFINE ips == {host[v] : v \in versions} \ {None}
  <1>1. Params!check_ip_limit(limit, host, None, versions)
          = IF ips = {} THEN "raises"
            ELSE IF \A i \in ips : Params!Allows(limit, i) THEN "passes" ELSE "fails"
    BY DEF Params!check_ip_limit, Params!Verdict
  <1>2. ips # {} <=> \E v \in versions : host[v] # None
    OBVIOUS
  <1>3. (\A i \in ips : Params!Allows(limit, i))
          <=> \A v \in versions : host[v] # None => Params!Allows(limit, host[v])
    OBVIOUS
  <1> HIDE DEF ips
  <1>4. QED
    BY <1>1, <1>2, <1>3

\* A limit on the ends of a test is passed if and only if it holds of every pair of
\* addresses the test may use (limits.py 75-192).
THEOREM EndpointLimitsAgree ==
    ASSUME NEW Ip,
           NEW dest \in [{4, 6} -> Ip \cup {None}], dest # None,
           NEW source \in [{4, 6} -> Ip \cup {None}] \cup {None},
           NEW version \in {4, 6, None},
           NEW limit, DOMAIN limit \subseteq {"source", "dest", "endpoint"}
    PROVE  Params!EndpointsAgree(limit, source, dest, version)
  <1> DEFINE Ok(field, ip) == Params!Allows(limit[field], ip)
             named == IF version = None THEN {4, 6} ELSE {version}
             usable == {v \in named : dest[v] # None /\ (source # None => source[v] # None)}
             verdict == Params!check_endpoint_limits(limit, source, dest, version)
             pairs == Params!Pairs(source, dest, version)
             holds == Params!EndpointsHold(limit, source, dest, version)
             c == Params!ip_normalize_version(source, dest, version)
             common == IF source = None THEN None ELSE c
             Address(host) == IF common = None THEN None ELSE host[common]
             versions == IF source # None THEN {common}
                         ELSE IF version # None THEN {version} ELSE {4, 6}
             Check(field, host) ==
                 Params!check_ip_limit(limit[field], host, Address(host), versions)
             OfSource == IF source = None THEN "fails" ELSE Check("source", source)
             OfEither == IF source # None /\ Check("endpoint", source) = "passes" THEN "passes"
                         ELSE Check("endpoint", dest)
             Of(field) == CASE field = "source" -> OfSource
                            [] field = "dest" -> Check("dest", dest)
                            [] field = "endpoint" -> OfEither
  <1> SUFFICES ASSUME DOMAIN limit # {} PROVE (verdict = "passes") = holds
    BY DEF Params!EndpointsAgree
  <1>1. /\ named \subseteq {4, 6} /\ None \notin {4, 6}
        /\ source = None => versions = named
    BY LibraryAssumption DEF LibraryAssumption
  <1>0. verdict = IF source # None /\ common = None THEN "fails"
                  ELSE IF "raises" \in {Of(field) : field \in DOMAIN limit} THEN "raises"
                  ELSE IF "fails" \in {Of(field) : field \in DOMAIN limit} THEN "fails"
                  ELSE "passes"
    BY Zenon DEF Params!check_endpoint_limits, Params!All, Params!Verdict
  <1>2. CASE source = None
    <2> DEFINE Whole(field) == Params!check_ip_limit(limit[field], dest, None, named)
    <2>1. pairs = {<<None, dest[v]>> : v \in usable}
      BY <1>2 DEF Params!Pairs
    <2>2. usable = {v \in named : dest[v] # None}
      BY <1>2
    <2>3. /\ OfSource = "fails" /\ Check("dest", dest) = Whole("dest")
          /\ OfEither = Whole("endpoint")
      <3>1. Address(dest) = None /\ versions = named
        BY <1>1, <1>2
      <3> HIDE DEF named, versions, Address
      <3>2. QED
        BY <1>2, <3>1
    <2>4. verdict = "passes" <=> /\ "source" \notin DOMAIN limit
                                 /\ "dest" \in DOMAIN limit => Whole("dest") = "passes"
                                 /\ "endpoint" \in DOMAIN limit => Whole("endpoint") = "passes"
      <3>1. \A field : Whole(field) \in {"passes", "fails", "raises"}
        BY DEF Params!check_ip_limit, Params!Verdict
      <3> HIDE DEF Whole, OfSource, OfEither, Check, verdict, common
      <3>2. QED
        BY <1>0, <1>2, <2>3, <3>1
    <2>5. \A field : Whole(field) = "passes"
                       <=> usable # {} /\ \A v \in usable : Ok(field, dest[v])
      <3> TAKE field
      <3>1. Whole(field) = "passes"
              <=> /\ \E v \in named : dest[v] # None
                  /\ \A v \in named : dest[v] # None => Ok(field, dest[v])
        BY VerdictOnAll
      <3> HIDE DEF named, usable, Ok, Whole
      <3>2. QED
        BY <2>2, <3>1
    <2>6. holds = /\ pairs # {}
                  /\ \A p \in pairs :
                       /\ "source" \in DOMAIN limit => p[1] # None /\ Ok("source", p[1])
                       /\ "dest" \in DOMAIN limit => p[2] # None /\ Ok("dest", p[2])
                       /\ "endpoint" \in DOMAIN limit =>
                            \/ p[1] # None /\ Ok("endpoint", p[1])
                            \/ p[2] # None /\ Ok("endpoint", p[2])
      BY DEF Params!EndpointsHold
    <2>7. holds <=> /\ usable # {}
                    /\ "source" \notin DOMAIN limit
                    /\ "dest" \in DOMAIN limit => \A v \in usable : Ok("dest", dest[v])
                    /\ "endpoint" \in DOMAIN limit => \A v \in usable : Ok("endpoint", dest[v])
      <3>1. \A v \in usable : dest[v] # None
        BY <2>2
      <3>2. /\ pairs # {} <=> usable # {}
            /\ \A v \in usable : <<None, dest[v]>> \in pairs
            /\ \A p \in pairs : \E v \in usable : p[1] = None /\ p[2] = dest[v]
        <4> HIDE DEF usable, pairs
        <4>1. \A v \in usable : <<None, dest[v]>> \in pairs
          BY <2>1
        <4>2. \A p \in pairs : \E v \in usable : p = <<None, dest[v]>>
          BY <2>1
        <4>3. \A v \in usable : <<None, dest[v]>>[1] = None /\ <<None, dest[v]>>[2] = dest[v]
          OBVIOUS
        <4>4. pairs # {} <=> usable # {}
          BY <4>1, <4>2, Zenon
        <4>5. \A p \in pairs : \E v \in usable : p[1] = None /\ p[2] = dest[v]
          BY <4>2, <4>3
        <4>6. QED
          BY <4>1, <4>4, <4>5
      <3> HIDE DEF usable, Ok, pairs, holds
      <3>3. ASSUME holds
            PROVE  /\ usable # {} /\ "source" \notin DOMAIN limit
                   /\ \A v \in usable : /\ "dest" \in DOMAIN limit => Ok("dest", dest[v])
                                        /\ "endpoint" \in DOMAIN limit => Ok("endpoint", dest[v])
        BY <2>6, <3>2, <3>3, Zenon
      <3>4. QED
        BY <2>6, <3>1, <3>2, <3>3
    <2>8. holds \in BOOLEAN
      BY <2>6
    <2> HIDE DEF usable, Ok, pairs, holds, verdict, Whole
    <2>9. QED
      BY <2>4, <2>5, <2>7, <2>8
  <1>3. CASE source # None
    <2>1. usable = {v \in named : source[v] # None /\ dest[v] # None}
      BY <1>3
    <2>2. c = None <=> usable = {}
      BY <1>1, <2>1 DEF Params!ip_normalize_version, Params!Both
    <2>3. c # None => c \in usable /\ \A v \in usable : c >= v
      BY <1>1, <2>1 DEF Params!ip_normalize_version, Params!Both
    <2>4. CASE c = None
      <3>1. verdict = "fails"
        BY <1>3, <2>4 DEF Params!check_endpoint_limits
      <3>2. pairs = {}
        BY <1>3, <2>2, <2>4, Zenon DEF Params!Pairs
      <3>3. holds = FALSE
        BY <3>2 DEF Params!EndpointsHold
      <3>4. QED
        BY <3>1, <3>3, Zenon
    <2>5. CASE c # None
      <3>1. pairs = {<<source[c], dest[c]>>}
        <4>1. Params!Max(usable) = c
          <5>1. \A v \in usable : v \in Int
            BY <1>1
          <5> HIDE DEF usable, c
          <5>2. QED
            BY <2>3, <2>5, <5>1 DEF Params!Max
        <4>2. usable # {}
          BY <2>2, <2>5
        <4>3. QED
          BY <1>3, <4>1, <4>2, Zenon DEF Params!Pairs
      <3>2. source[c] # None /\ dest[c] # None
        BY <2>1, <2>3, <2>5
      <3> DEFINE On(field, ip) == IF Ok(field, ip) THEN "passes" ELSE "fails"
                 Either == IF On("endpoint", source[c]) = "passes" THEN "passes"
                           ELSE On("endpoint", dest[c])
      <3>3. /\ OfSource = On("source", source[c]) /\ Check("dest", dest) = On("dest", dest[c])
            /\ OfEither = Either
        <4>1. \A field : /\ Check(field, source) = On(field, source[c])
                         /\ Check(field, dest) = On(field, dest[c])
          <5>1. Address(source) = source[c] /\ Address(dest) = dest[c]
            BY <1>3, <2>5
          <5> HIDE DEF Address, versions, c
          <5>2. QED
            BY <1>3, <3>2, <5>1, VerdictOnOne
        <4> HIDE DEF Check, On, c
        <4>2. QED
          BY <1>3, <4>1
      <3>4. verdict = "passes"
              <=> /\ "source" \in DOMAIN limit => Ok("source", source[c])
                  /\ "dest" \in DOMAIN limit => Ok("dest", dest[c])
                  /\ "endpoint" \in DOMAIN limit =>
                       Ok("endpoint", source[c]) \/ Ok("endpoint", dest[c])
        <4> HIDE DEF Ok, verdict, c, OfSource, Check, OfEither
        <4>1. QED
          BY <1>0, <1>3, <2>5, <3>3
      <3>5. holds = /\ "source" \in DOMAIN limit => Ok("source", source[c])
                    /\ "dest" \in DOMAIN limit => Ok("dest", dest[c])
                    /\ "endpoint" \in DOMAIN limit =>
                         Ok("endpoint", source[c]) \/ Ok("endpoint", dest[c])
        <4> HIDE DEF c
        <4>1. QED
          BY <3>1, <3>2 DEF Params!EndpointsHold
      <3> HIDE DEF Ok, verdict, holds, c
      <3>6. QED
        BY <3>4, <3>5, Zenon
    <2>6. QED
      BY <2>4, <2>5
  <1>4. QED
    BY <1>2, <1>3

\* A limit allows a number, a duration, a range, an element of a list or of an
\* enumeration, or a string, all or none, inverted or not (the inversion of a string's
\* being its match's); a range passes if the limit holds of all that is in it, or goes
\* around what an inverted limit excludes; and what is not limited, or not there, passes
\* (limits.py 142-368).
THEOREM ValueLimitsAgree ==
    ASSUME NEW limit \in [of : Int \X Int, invert : BOOLEAN], NEW x \in Int, NEW y \in Int
    PROVE  Params!ValuesAgree(limit, x, y)
  <1> DEFINE listed == [of |-> limit.of[1] .. limit.of[2], invert |-> limit.invert]
             inside == limit.of[1] <= x /\ x <= limit.of[2]
             verdict == Params!Verdict(inside # limit.invert)
  <1>0. inside \in BOOLEAN /\ limit.invert \in BOOLEAN /\ (x \in listed.of <=> inside)
    OBVIOUS
  <1>1. /\ Params!check("numeric", [f |-> limit], [f |-> x], "f") = verdict
        /\ Params!check("duration", [f |-> limit], [f |-> x], "f") = verdict
    BY DEF Params!check, Params!check_numeric_limit, Params!check_duration_limit,
           Params!InRange
  <1>2. Params!check("range", [f |-> limit], [f |-> <<x, x>>], "f") = verdict
    <2>1. \A n \in {1, 2} : <<x, x>>[n] = x
      OBVIOUS
    <2>2. (\A n \in {1, 2} : Params!InRange(limit.of, <<x, x>>[n]) # limit.invert)
            = (inside # limit.invert)
      BY <2>1, Zenon DEF Params!InRange
    <2>3. QED
      BY <2>2, Zenon DEF Params!check, Params!check_numeric_range_limit
  <1>3. Params!check("list", [f |-> listed], [f |-> x], "f") = verdict
    BY <1>0 DEF Params!check, Params!check_numeric_list_limit, Params!Verdict
  <1>4. Params!check("enum", [f |-> listed], [f |-> <<x>>], "f") = verdict
    <2>1. Params!ToSet(<<x>>) = {x}
      BY DEF Params!ToSet
    <2>2. Params!InEnum(listed.of, <<x>>) = inside
      BY <1>0, <2>1 DEF Params!InEnum
    <2>3. Params!check("enum", [f |-> listed], [f |-> <<x>>], "f")
            = Params!check_enum_limit(listed, <<x>>)
      <3> HIDE DEF listed
      <3>1. QED
        BY DEF Params!check
    <2>4. listed.invert = limit.invert
      OBVIOUS
    <2> HIDE DEF listed, inside
    <2>5. QED
      BY <2>2, <2>3, <2>4 DEF Params!check_enum_limit
  <1>5. Params!check("string", [f |-> [match |-> listed]], [f |-> x], "f") = verdict
    <2> DEFINE string == [match |-> listed]
    <2>1. Params!check("string", [f |-> string], [f |-> x], "f")
            = Params!check_string_limit(string, x)
      <3> HIDE DEF string
      <3>1. ASSUME NEW lim, NEW v, "f" \in DOMAIN lim, "f" \in DOMAIN v
            PROVE  Params!check("string", lim, v, "f")
                     = Params!check_string_limit(lim["f"], v["f"])
        BY <3>1, Zenon DEF Params!check
      <3>2. /\ "f" \in DOMAIN [f |-> string] /\ [f |-> string]["f"] = string
            /\ "f" \in DOMAIN [f |-> x] /\ [f |-> x]["f"] = x
        OBVIOUS
      <3>3. QED
        BY <3>1, <3>2, Zenon
    <2>2. /\ "invert" \notin DOMAIN string
          /\ Params!Matches(string.match, x) = (inside # limit.invert)
      BY <1>0 DEF Params!Matches
    <2>3. Params!check("string", [f |-> string], [f |-> x], "f") = verdict
      <3> HIDE DEF string, listed, inside
      <3>1. QED
        BY <1>0, <2>1, <2>2 DEF Params!check_string_limit
    <2>4. QED
      BY <2>3
  <1>6. \A kind \in {"numeric", "range", "list", "enum", "string", "boolean"} :
          /\ Params!check(kind, <<>>, [f |-> x], "f") = "passes"
          /\ kind # "boolean" =>
               Params!check(kind, [f |-> Params!Listed(limit)], <<>>, "f") = "passes"
    <2>1. "f" \notin DOMAIN <<>>
      OBVIOUS
    <2>2. ASSUME NEW kind, NEW g, "f" \notin DOMAIN g
          PROVE  Params!check(kind, g, [f |-> x], "f") = "passes"
      BY <2>2 DEF Params!check
    <2>3. ASSUME NEW kind, kind # "boolean", NEW g, "f" \notin DOMAIN g
          PROVE  Params!check(kind, [f |-> Params!Listed(limit)], g, "f") = "passes"
      BY <2>3 DEF Params!check
    <2>4. QED
      BY <2>1, <2>2, <2>3
  <1>7. verdict \in {"passes", "fails"}
    BY DEF Params!Verdict
  <1>8. Params!Verdicts(limit, x) = {verdict}
    <2>1. listed = Params!Listed(limit)
      BY DEF Params!Listed
    <2> HIDE DEF verdict, listed
    <2>2. QED
      BY <1>1, <1>2, <1>3, <1>4, <1>5, <2>1 DEF Params!Verdicts
  <1> DEFINE passes == Params!check("range", [f |-> limit], [f |-> <<x, y>>], "f") = "passes"
             In(v) == limit.of[1] <= v /\ v <= limit.of[2]
             around == limit.invert /\ x < limit.of[1] /\ limit.of[2] < y
  <1>9. ASSUME x <= y
        PROVE  passes <=> around \/ \A v \in x .. y : Params!InRange(limit.of, v) # limit.invert
    <2>1. \A v : Params!InRange(limit.of, v) = In(v)
      BY Zenon DEF Params!InRange
    <2>2. passes <=> (In(x) # limit.invert /\ In(y) # limit.invert)
      <3> DEFINE both == \A n \in {1, 2} : Params!InRange(limit.of, <<x, y>>[n]) # limit.invert
      <3>1. <<x, y>>[1] = x /\ <<x, y>>[2] = y
        OBVIOUS
      <3>2. both <=> (In(x) # limit.invert /\ In(y) # limit.invert)
        <4> HIDE DEF In
        <4>1. QED
          BY <2>1, <3>1, Zenon
      <3>3. Params!check("range", [f |-> limit], [f |-> <<x, y>>], "f") = Params!Verdict(both)
        BY Zenon DEF Params!check, Params!check_numeric_range_limit
      <3> HIDE DEF both
      <3>4. passes <=> both
        BY <3>3 DEF Params!Verdict
      <3>5. QED
        BY <3>2, <3>4, Zenon
    <2>3. (In(x) # limit.invert /\ In(y) # limit.invert)
            <=> around \/ \A v \in x .. y : In(v) # limit.invert
      <3>1. limit.of[1] \in Int /\ limit.of[2] \in Int
        OBVIOUS
      <3>2. x \in x .. y /\ y \in x .. y
        BY <1>9
      <3>3. (\A v \in x .. y : In(v) # limit.invert) => In(x) # limit.invert /\ In(y) # limit.invert
        <4> HIDE DEF In
        <4>1. QED
          BY <3>2
      <3>4. CASE limit.invert
        <4>1. ASSUME ~In(x), ~In(y), ~around, NEW v \in x .. y PROVE ~In(v)
          BY <1>9, <3>1, <3>4, <4>1
        <4>2. around => ~In(x) /\ ~In(y)
          BY <1>9, <3>1, <3>4
        <4> HIDE DEF In, around
        <4>3. QED
          BY <3>3, <3>4, <4>1, <4>2
      <3>5. CASE ~limit.invert
        <4>1. ~around
          BY <3>5
        <4>2. ASSUME In(x), In(y), NEW v \in x .. y PROVE In(v)
          BY <1>9, <3>1, <4>2
        <4>3. \A v : In(v) # limit.invert <=> In(v)
          BY <1>0, <3>5
        <4> HIDE DEF In, around
        <4>4. QED
          BY <3>3, <4>1, <4>2, <4>3
      <3>6. QED
        BY <3>4, <3>5
    <2> HIDE DEF In, passes, around
    <2>4. QED
      BY <2>1, <2>2, <2>3, Zenon
  <1> HIDE DEF verdict
  <1>10. QED
    BY <1>6, <1>7, <1>8, <1>9 DEF Params!ValuesAgree

----------------------------------------------------------------------------
(* The scripts of a limit file.  Induction up to a number is by what would be *)
(* the least at which it fails.                                              *)

\* Of numbers of which there is one there is a least.
LEMMA Least ==
    ASSUME NEW T, T \subseteq Nat, T # {}
    PROVE  \E n \in T : \A m \in T : n <= m
  <1>1. IsWellFoundedOn(OpToRel(<, Nat), Nat)
    BY NatLessThanWellFounded, Zenon
  <1>2. PICK n \in T : \A m \in T : ~(<<m, n>> \in OpToRel(<, Nat))
    BY <1>1, WFMin, Zenon
  <1>3. \A m \in T : ~(m < n)
    BY <1>2, Zenon DEF OpToRel
  <1>4. QED
    BY <1>3

\* What holds of 0 and, if of a number, of the next holds of all up to n: the numbers of
\* which it does not have no least.
LEMMA Inductive ==
    ASSUME NEW n \in Nat, NEW Holds, 0 \in Holds,
           \A k \in 0 .. n - 1 : k \in Holds => k + 1 \in Holds
    PROVE  0 .. n \subseteq Holds
  <1> DEFINE Bad == 0 .. n \ Holds
  <1>1. SUFFICES ASSUME Bad # {} PROVE FALSE
    OBVIOUS
  <1>2. Bad \subseteq Nat
    OBVIOUS
  <1>3. PICK k \in Bad : \A m \in Bad : k <= m
    <2> HIDE DEF Bad
    <2>1. QED
      BY <1>1, <1>2, Least, Zenon
  <1>4. k # 0 /\ k - 1 \in 0 .. n - 1 /\ k - 1 \notin Bad
    BY <1>3
  <1>5. QED
    BY <1>4

----------------------------------------------------------------------------
(* Statements one after the other.                                         *)

MadeBy(filter, item, after) ==
    after = [n \in 0 .. Len(filter) |->
               IF n = 0 THEN item ELSE Scripts!Statement(after[n - 1], filter[n])]

MadeUpTo(filter, item, after, k) ==
    after = [n \in 0 .. k |-> IF n = 0 THEN item ELSE Scripts!Statement(after[n - 1], filter[n])]

LEMMA MadeExists ==
    ASSUME NEW filter, Len(filter) \in Nat, NEW item
    PROVE  \E after : MadeBy(filter, item, after)
  <1> DEFINE N == Len(filter)
             Holds == {k \in 0 .. N : \E after : MadeUpTo(filter, item, after, k)}
  <1>1. 0 \in Holds
    <2>1. MadeUpTo(filter, item, [n \in 0 .. 0 |-> item], 0)
      BY DEF MadeUpTo
    <2>2. QED
      BY <2>1
  <1>2. ASSUME NEW k \in 0 .. N - 1, k \in Holds PROVE k + 1 \in Holds
    <2>1. PICK before : MadeUpTo(filter, item, before, k)
      BY <1>2
    <2> DEFINE after == [n \in 0 .. k + 1 |->
                           IF n = 0 THEN item ELSE Scripts!Statement(before[n - 1], filter[n])]
    <2>2. \A n \in 0 .. k : after[n] = before[n]
      BY <2>1 DEF MadeUpTo
    <2>3. \A n \in 0 .. k + 1 : n # 0 => after[n - 1] = before[n - 1]
      <3> HIDE DEF after
      <3>1. QED
        BY <2>2
    <2>4. after = [n \in 0 .. k + 1 |->
                     IF n = 0 THEN item ELSE Scripts!Statement(after[n - 1], filter[n])]
      <3>1. \A n \in 0 .. k + 1 :
               after[n] = IF n = 0 THEN item ELSE Scripts!Statement(after[n - 1], filter[n])
        BY <2>3, Zenon
      <3>2. after = [n \in 0 .. k + 1 |-> after[n]]
        OBVIOUS
      <3> HIDE DEF after
      <3>3. QED
        BY <3>1, <3>2, Zenon
    <2>5. MadeUpTo(filter, item, after, k + 1)
      BY <2>4 DEF MadeUpTo
    <2>6. QED
      BY <2>5
  <1>3. 0 .. N \subseteq Holds
    <2> HIDE DEF Holds
    <2>1. QED
      BY <1>1, <1>2, Inductive, Zenon
  <1>4. QED
    BY <1>3 DEF MadeBy, MadeUpTo

\* What a filter makes is what its statements make one by one.
Makes(filter, item, after) ==
    /\ Scripts!Made(filter, item) = after[Len(filter)]
    /\ after[0] = item
    /\ \A n \in 1 .. Len(filter) : after[n] = Scripts!Statement(after[n - 1], filter[n])

LEMMA MadeIs ==
    ASSUME NEW filter, Len(filter) \in Nat, NEW item
    PROVE  \E after : Makes(filter, item, after)
  <1> DEFINE after == CHOOSE after : MadeBy(filter, item, after)
  <1>1. Scripts!Made(filter, item) = after[Len(filter)]
    BY Zenon DEF Scripts!Made, MadeBy
  <1>2. MadeBy(filter, item, after)
    BY MadeExists, Zenon
  <1> HIDE DEF after
  <1>3. /\ after[0] = item
        /\ \A n \in 1 .. Len(filter) : after[n] = Scripts!Statement(after[n - 1], filter[n])
    BY <1>2 DEF MadeBy
  <1>4. QED
    BY <1>1, <1>3 DEF Makes

\* What it makes is determined by them.
LEMMA MadeOnly ==
    ASSUME NEW filter, Len(filter) \in Nat, NEW item, NEW after,
           after[0] = item,
           \A n \in 1 .. Len(filter) : after[n] = Scripts!Statement(after[n - 1], filter[n])
    PROVE  Scripts!Made(filter, item) = after[Len(filter)]
  <1>0. PICK other : Makes(filter, item, other)
    BY MadeIs, Zenon
  <1>1. /\ Scripts!Made(filter, item) = other[Len(filter)]
        /\ other[0] = item
        /\ \A n \in 1 .. Len(filter) : other[n] = Scripts!Statement(other[n - 1], filter[n])
    BY <1>0 DEF Makes
  <1> DEFINE Holds == {n \in 0 .. Len(filter) : after[n] = other[n]}
  <1>2. 0 \in Holds
    BY <1>1
  <1>3. ASSUME NEW n \in 0 .. Len(filter) - 1, n \in Holds PROVE n + 1 \in Holds
    <2>1. n + 1 \in 1 .. Len(filter) /\ (n + 1) - 1 = n
      OBVIOUS
    <2>2. after[n + 1] = Scripts!Statement(after[n], filter[n + 1])
      BY <2>1
    <2>3. other[n + 1] = Scripts!Statement(other[n], filter[n + 1])
      BY <1>1, <2>1
    <2>4. QED
      BY <1>3, <2>1, <2>2, <2>3
  <1>4. 0 .. Len(filter) \subseteq Holds
    <2> HIDE DEF Holds
    <2>1. QED
      BY <1>2, <1>3, Inductive, Zenon
  <1>5. QED
    BY <1>1, <1>4

\* One more statement.
LEMMA MadeAppend ==
    ASSUME NEW S, NEW filter \in Seq(S), NEW s \in S, NEW item
    PROVE  Scripts!Made(Append(filter, s), item) =
               Scripts!Statement(Scripts!Made(filter, item), s)
  <1> DEFINE more == Append(filter, s)
             N == Len(filter)
  <1>1. /\ N \in Nat /\ Len(more) = N + 1 /\ more[N + 1] = s
        /\ \A n \in 1 .. N : more[n] = filter[n]
    BY AppendProperties, LenProperties
  <1> HIDE DEF more
  <1>n. Len(more) \in Nat
    BY <1>1
  <1>0. PICK after : Makes(more, item, after)
    BY <1>n, MadeIs, Zenon
  <1>2. /\ Scripts!Made(more, item) = after[Len(more)]
        /\ after[0] = item
        /\ \A n \in 1 .. Len(more) : after[n] = Scripts!Statement(after[n - 1], more[n])
    BY <1>0 DEF Makes
  <1>3. Scripts!Made(filter, item) = after[N]
    <2>1. \A n \in 1 .. N : after[n] = Scripts!Statement(after[n - 1], filter[n])
      BY <1>1, <1>2
    <2>2. QED
      BY <1>1, <1>2, <2>1, MadeOnly
  <1>4. after[N + 1] = Scripts!Statement(after[N], s)
    BY <1>1, <1>2
  <1>5. QED
    BY <1>1, <1>2, <1>3, <1>4 DEF more

----------------------------------------------------------------------------
(* Imports.                                                                *)

\* A function whose next value is made of the one before stays in a set if its steps do.
Within(n, V, step) == \A i \in 1 .. n, x \in V : step[i][x] \in V

Recurs(n, V, base, step, f) ==
    f \in [0 .. n -> V] /\ f[0] = base /\ \A i \in 1 .. n : f[i] = step[i][f[i - 1]]

LEMMA Recursion ==
    ASSUME NEW n \in Nat, NEW V, NEW base \in V, NEW step, Within(n, V, step)
    PROVE  \E f : Recurs(n, V, base, step, f)
  <1> DEFINE Good(f, k) == /\ f \in [0 .. k -> V] /\ f[0] = base
                           /\ \A i \in 1 .. k : f[i] = step[i][f[i - 1]]
             Holds == {k \in 0 .. n : \E f : Good(f, k)}
  <1>1. 0 \in Holds
    <2>1. Good([i \in 0 .. 0 |-> base], 0)
      OBVIOUS
    <2> HIDE DEF Good
    <2>2. QED
      BY <2>1
  <1>2. ASSUME NEW k \in 0 .. n - 1, k \in Holds PROVE k + 1 \in Holds
    <2>1. PICK f : Good(f, k)
      BY <1>2
    <2> DEFINE g == [i \in 0 .. k + 1 |-> IF i = k + 1 THEN step[k + 1][f[k]] ELSE f[i]]
    <2>2. k + 1 \in 1 .. n /\ f[k] \in V
      BY <2>1
    <2>3. g \in [0 .. k + 1 -> V] /\ g[0] = base
      BY <2>1, <2>2 DEF Within
    <2>4. ASSUME NEW i \in 1 .. k + 1 PROVE g[i] = step[i][g[i - 1]]
      <3>1. i - 1 \in 0 .. k /\ g[i - 1] = f[i - 1]
        OBVIOUS
      <3>2. CASE i = k + 1
        BY <3>1, <3>2
      <3>3. CASE i # k + 1
        BY <2>1, <3>1, <3>3
      <3>4. QED
        BY <3>2, <3>3
    <2>5. Good(g, k + 1)
      BY <2>3, <2>4, Zenon
    <2> HIDE DEF Good
    <2>6. QED
      BY <2>5
  <1>3. n \in Holds
    <2> HIDE DEF Holds
    <2>1. 0 .. n \subseteq Holds
      BY <1>1, <1>2, Inductive
    <2>2. QED
      BY <2>1
  <1>4. QED
    BY <1>3 DEF Recurs

\* The statements that are taken out one by one.
PartsBy(lines, parts, k) ==
    /\ parts[0] = [imports |-> <<>>, others |-> <<>>]
    /\ \A n \in 1 .. k :
          parts[n] = IF lines[n].does = "import"
                     THEN [parts[n - 1] EXCEPT !.imports = Append(@, lines[n])]
                     ELSE [parts[n - 1] EXCEPT !.others = Append(@, lines[n])]

LEMMA PartsIs ==
    ASSUME NEW S, NEW lines \in Seq(S)
    PROVE  \E parts \in [0 .. Len(lines) -> [imports : Seq(S), others : Seq(S)]] :
               /\ Scripts!Parts(lines) = parts[Len(lines)]
               /\ PartsBy(lines, parts, Len(lines))
  <1> DEFINE N == Len(lines)
             V == [imports : Seq(S), others : Seq(S)]
             base == [imports |-> <<>>, others |-> <<>>]
             Body(x, n) == IF lines[n].does = "import"
                           THEN [x EXCEPT !.imports = Append(@, lines[n])]
                           ELSE [x EXCEPT !.others = Append(@, lines[n])]
             step == [n \in 1 .. N |-> [x \in V |-> Body(x, n)]]
             Is(f) == f = [n \in 0 .. N |-> IF n = 0 THEN base ELSE Body(f[n - 1], n)]
             parts == CHOOSE f : Is(f)
  <1>1. N \in Nat /\ base \in V /\ \A n \in 1 .. N : lines[n] \in S
    BY LenProperties, EmptySeq
  <1>2. \A n \in 1 .. N, x \in V : Body(x, n) \in V
    BY <1>1, AppendProperties, Zenon
  <1>3. \A n \in 1 .. N, x \in V : step[n][x] = Body(x, n)
    <2> HIDE DEF Body, V
    <2>1. QED
      OBVIOUS
  <1>4. \E f : Recurs(N, V, base, step, f)
    <2> HIDE DEF step, V, base, Body, N
    <2>1. Within(N, V, step)
      BY <1>2, <1>3 DEF Within
    <2>2. N \in Nat /\ base \in V
      BY <1>1
    <2>3. QED
      BY <2>1, <2>2, Recursion
  <1>5. PICK f : Recurs(N, V, base, step, f)
    BY <1>4, Zenon
  <1>s. f \in [0 .. N -> V] /\ f[0] = base /\ \A n \in 1 .. N : f[n] = Body(f[n - 1], n)
    <2> HIDE DEF step, V, base, Body, N
    <2>1. f \in [0 .. N -> V] /\ f[0] = base /\ \A n \in 1 .. N : f[n] = step[n][f[n - 1]]
      BY <1>5 DEF Recurs
    <2>2. \A n \in 1 .. N : f[n - 1] \in V
      BY <1>1, <2>1
    <2>3. QED
      BY <1>3, <2>1, <2>2
  <1>6. Is(f)
    <2> HIDE DEF V, base, Body
    <2>1. QED
      BY <1>1, <1>s
  <1>7. Is(parts)
    <2> HIDE DEF Is
    <2>1. QED
      BY <1>6, Zenon
  <1>8. Scripts!Parts(lines) = parts[N]
    BY Zenon DEF Scripts!Parts
  <1>9. parts[0] = base /\ \A n \in 1 .. N : parts[n] = Body(parts[n - 1], n)
    <2> HIDE DEF parts, base, Body, N
    <2>1. \A n \in 0 .. N : parts[n] = IF n = 0 THEN base ELSE Body(parts[n - 1], n)
      BY <1>7, Zenon
    <2>2. 0 \in 0 .. N /\ \A n \in 1 .. N : n \in 0 .. N /\ n # 0
      BY <1>1
    <2>3. QED
      BY <2>1, <2>2
  <1>10. parts \in [0 .. N -> V]
    <2> DEFINE Holds == {n \in 0 .. N : parts[n] \in V}
    <2> HIDE DEF parts
    <2>1. 0 \in Holds
      <3> HIDE DEF V, base, Body
      <3>1. QED
        BY <1>1, <1>9
    <2>2. ASSUME NEW n \in 0 .. N - 1, n \in Holds PROVE n + 1 \in Holds
      <3> HIDE DEF V, Body
      <3>1. n + 1 \in 1 .. N /\ (n + 1) - 1 = n
        BY <1>1
      <3>2. QED
        BY <1>2, <1>9, <2>2, <3>1
    <2>3. 0 .. N \subseteq Holds
      <3> HIDE DEF Holds
      <3>1. QED
        BY <1>1, <2>1, <2>2, Inductive, Zenon
    <2>4. parts = [n \in 0 .. N |-> parts[n]]
      <3> HIDE DEF Body, base
      <3>1. QED
        BY <1>7
    <2>5. QED
      BY <2>3, <2>4
  <1> HIDE DEF parts
  <1>11. PartsBy(lines, parts, N)
    BY <1>9, Zenon DEF PartsBy
  <1>12. QED
    BY <1>8, <1>10, <1>11

LEMMA ConcatAppend ==
    ASSUME NEW S, NEW u \in Seq(S), NEW t \in Seq(S), NEW s \in S
    PROVE  u \o Append(t, s) = Append(u \o t, s)
  <1> DEFINE one == <<s>>
             v == u \o t
  <1>1. one \in Seq(S) /\ v \in Seq(S)
    BY ConcatProperties
  <1>2. Append(t, s) = t \o one /\ Append(v, s) = v \o one
    <2> HIDE DEF v
    <2>1. QED
      BY <1>1, AppendIsConcat
  <1>3. v \o one = u \o (t \o one)
    <2> HIDE DEF one
    <2>1. QED
      BY <1>1, ConcatAssociative
  <1>4. QED
    BY <1>1, <1>2, <1>3

\* What is imported does nothing when a script runs.
NoEffect(s) == \A x : Scripts!Statement(x, s) = x

\* Imports first is a filter that compiles, and that does what the script does.
LEMMA Groomed ==
    ASSUME NEW S, NEW lines \in Seq(S), NEW item,
           \A s \in S : s.does = "import" => NoEffect(s)
    PROVE  /\ Scripts!Compiles(Scripts!groom(lines))
           /\ Scripts!Made(Scripts!groom(lines), item) = Scripts!Made(lines, item)
  <1> DEFINE N == Len(lines)
  <1>1. PICK parts \in [0 .. N -> [imports : Seq(S), others : Seq(S)]] :
               Scripts!Parts(lines) = parts[N] /\ PartsBy(lines, parts, N)
    BY PartsIs
  <1> DEFINE imports(n) == parts[n].imports
             others(n) == parts[n].others
  <1>2. N \in Nat /\ \A n \in 1 .. N : lines[n] \in S
    BY LenProperties
  <1>3. \A n \in 0 .. N : imports(n) \in Seq(S) /\ others(n) \in Seq(S)
    BY <1>1
  <1>4. imports(0) = <<>> /\ others(0) = <<>>
    BY <1>1 DEF PartsBy
  <1>5. ASSUME NEW n \in 0 .. N - 1
        PROVE  LET s == lines[n + 1] IN
               /\ s \in S
               /\ s.does = "import" =>
                     imports(n + 1) = Append(imports(n), s) /\ others(n + 1) = others(n)
               /\ s.does # "import" =>
                     imports(n + 1) = imports(n) /\ others(n + 1) = Append(others(n), s)
    <2>1. n + 1 \in 1 .. N /\ (n + 1) - 1 = n /\ n \in 0 .. N
      BY <1>2
    <2>2. parts[n] \in [imports : Seq(S), others : Seq(S)]
      BY <1>1, <2>1
    <2>3. parts[n + 1] = IF lines[n + 1].does = "import"
                         THEN [parts[n] EXCEPT !.imports = Append(@, lines[n + 1])]
                         ELSE [parts[n] EXCEPT !.others = Append(@, lines[n + 1])]
      BY <1>1, <2>1, Zenon DEF PartsBy
    <2>4. QED
      BY <1>2, <2>1, <2>2, <2>3, Zenon
  <1> HIDE DEF imports, others, N
  <1>6. \A x : Scripts!Made(<<>>, x) = x
    <2>1. Len(<<>>) = 0
      OBVIOUS
    <2>2. QED
      BY <2>1, MadeIs DEF Makes
  <1> DEFINE Imported == {n \in 0 .. N :
                 /\ \A k \in 1 .. Len(imports(n)) : imports(n)[k].does = "import"
                 /\ Scripts!Made(imports(n), item) = item}
             Left == {n \in 0 .. N : \A k \in 1 .. Len(others(n)) : others(n)[k].does # "import"}
  <1>7. 0 .. N \subseteq Imported
    <2>1. 0 \in Imported
      BY <1>2, <1>4, <1>6
    <2>2. ASSUME NEW n \in 0 .. N - 1, n \in Imported PROVE n + 1 \in Imported
      <3>1. n + 1 \in 0 .. N /\ n \in 0 .. N
        BY <1>2
      <3>2. CASE lines[n + 1].does # "import"
        BY <1>5, <2>2, <3>1, <3>2
      <3>3. CASE lines[n + 1].does = "import"
        <4> DEFINE s == lines[n + 1]
                   t == imports(n)
        <4>1. s \in S /\ imports(n + 1) = Append(t, s) /\ NoEffect(s) /\ t \in Seq(S)
          BY <1>3, <1>5, <3>1, <3>3
        <4>2. Scripts!Made(t, item) = item /\ \A k \in 1 .. Len(t) : t[k].does = "import"
          BY <2>2
        <4>3. s.does = "import"
          BY <3>3
        <4> HIDE DEF s, t
        <4>4. Scripts!Made(Append(t, s), item) = item
          BY <4>1, <4>2, MadeAppend DEF NoEffect
        <4>5. \A k \in 1 .. Len(Append(t, s)) : Append(t, s)[k].does = "import"
          BY <4>1, <4>2, <4>3, AppendProperties, LenProperties
        <4>6. QED
          BY <3>1, <4>1, <4>4, <4>5, Zenon
      <3>4. QED
        BY <3>2, <3>3
    <2> HIDE DEF Imported
    <2>3. QED
      BY <1>2, <2>1, <2>2, Inductive, Zenon
  <1>8. 0 .. N \subseteq Left
    <2>1. 0 \in Left
      BY <1>2, <1>4
    <2>2. ASSUME NEW n \in 0 .. N - 1, n \in Left PROVE n + 1 \in Left
      <3>1. n + 1 \in 0 .. N /\ n \in 0 .. N
        BY <1>2
      <3>2. CASE lines[n + 1].does = "import"
        BY <1>5, <2>2, <3>1, <3>2
      <3>3. CASE lines[n + 1].does # "import"
        <4> DEFINE s == lines[n + 1]
                   t == others(n)
        <4>1. s \in S /\ others(n + 1) = Append(t, s) /\ t \in Seq(S)
          BY <1>3, <1>5, <3>1, <3>3
        <4>2. \A k \in 1 .. Len(t) : t[k].does # "import"
          BY <2>2
        <4>3. s.does # "import"
          BY <3>3
        <4> HIDE DEF s, t
        <4>4. \A k \in 1 .. Len(Append(t, s)) : Append(t, s)[k].does # "import"
          BY <4>1, <4>2, <4>3, AppendProperties, LenProperties
        <4>5. QED
          BY <3>1, <4>1, <4>4, Zenon
      <3>4. QED
        BY <3>2, <3>3
    <2> HIDE DEF Left
    <2>3. QED
      BY <1>2, <2>1, <2>2, Inductive, Zenon
  <1> DEFINE first == imports(N)
  <1>9. first \in Seq(S) /\ others(N) \in Seq(S) /\ N \in 0 .. N
    BY <1>2, <1>3
  <1>10. /\ \A k \in 1 .. Len(first) : first[k].does = "import"
         /\ Scripts!Made(first, item) = item
         /\ \A k \in 1 .. Len(others(N)) : others(N)[k].does # "import"
    BY <1>7, <1>8, <1>9
  <1>11. Scripts!groom(lines) = first \o others(N)
    BY <1>1 DEF Scripts!groom, imports, others
  <1> HIDE DEF first
  <1>12. Scripts!Compiles(first \o others(N))
    <2> DEFINE all == first \o others(N)
    <2>1. /\ all \in Seq(S) /\ Len(all) = Len(first) + Len(others(N))
          /\ DOMAIN all = 1 .. Len(first) + Len(others(N))
          /\ \A i \in 1 .. Len(first) + Len(others(N)) :
                all[i] = IF i <= Len(first) THEN first[i] ELSE others(N)[i - Len(first)]
      BY <1>9, ConcatProperties, LenProperties
    <2>2. Len(first) \in Nat /\ Len(others(N)) \in Nat
      BY <1>9, LenProperties
    <2> HIDE DEF all
    <2>3. \A i \in DOMAIN all : all[i].does = "import" => i <= Len(first)
      BY <1>10, <2>1, <2>2
    <2>4. \A i \in DOMAIN all : i <= Len(first) => all[i].does = "import"
      BY <1>10, <2>1, <2>2
    <2>5. Scripts!Compiles(all)
      BY <2>1, <2>2, <2>3, <2>4 DEF Scripts!Compiles
    <2>6. QED
      BY <2>5 DEF all
  <1>m. PICK after : Makes(lines, item, after)
    BY <1>2, MadeIs, Zenon DEF N
  <1>13. /\ Scripts!Made(lines, item) = after[N]
         /\ after[0] = item
         /\ \A n \in 1 .. N : after[n] = Scripts!Statement(after[n - 1], lines[n])
    BY <1>m DEF N, Makes
  <1> DEFINE Made == {n \in 0 .. N : Scripts!Made(first \o others(n), item) = after[n]}
  <1>14. 0 .. N \subseteq Made
    <2>1. 0 \in Made
      <3>1. first \o <<>> = first
        BY <1>9, ConcatEmptySeq
      <3>2. Scripts!Made(first \o others(0), item) = after[0]
        BY <1>4, <1>10, <1>13, <3>1, Zenon
      <3>3. QED
        BY <1>2, <3>2
    <2>2. ASSUME NEW n \in 0 .. N - 1, n \in Made PROVE n + 1 \in Made
      <3>1. n + 1 \in 1 .. N /\ n + 1 \in 0 .. N /\ n \in 0 .. N /\ (n + 1) - 1 = n
        BY <1>2
      <3>2. after[n + 1] = Scripts!Statement(after[n], lines[n + 1])
        BY <1>13, <3>1
      <3>3. CASE lines[n + 1].does = "import"
        <4>1. lines[n + 1] \in S /\ others(n + 1) = others(n)
          BY <1>5, <3>3
        <4>2. after[n + 1] = after[n]
          BY <3>2, <3>3, <4>1 DEF NoEffect
        <4>3. QED
          BY <2>2, <3>1, <4>1, <4>2
      <3>4. CASE lines[n + 1].does # "import"
        <4> DEFINE s == lines[n + 1]
                   t == others(n)
        <4>1. s \in S /\ others(n + 1) = Append(t, s) /\ t \in Seq(S)
          BY <1>3, <1>5, <3>1, <3>4
        <4>2. Scripts!Made(first \o t, item) = after[n] /\ after[n + 1] = Scripts!Statement(after[n], s)
          BY <2>2, <3>2
        <4> HIDE DEF s, t
        <4>3. first \o t \in Seq(S) /\ first \o Append(t, s) = Append(first \o t, s)
          <5>1. first \in Seq(S) /\ t \in Seq(S) /\ s \in S
            BY <1>9, <4>1
          <5>2. first \o t \in Seq(S)
            BY <5>1, ConcatProperties
          <5>3. first \o Append(t, s) = Append(first \o t, s)
            BY <5>1, ConcatAppend
          <5>4. QED
            BY <5>2, <5>3
        <4> DEFINE v == first \o t
        <4>4. v \in Seq(S) /\ Scripts!Made(v, item) = after[n]
          BY <4>2, <4>3
        <4> HIDE DEF v
        <4>5. Scripts!Made(Append(v, s), item) = Scripts!Statement(Scripts!Made(v, item), s)
          BY <4>1, <4>4, MadeAppend
        <4>6. QED
          BY <3>1, <4>1, <4>2, <4>3, <4>4, <4>5, Zenon DEF v
      <3>5. QED
        BY <3>3, <3>4
    <2> HIDE DEF Made
    <2>3. QED
      BY <1>2, <2>1, <2>2, Inductive, Zenon
  <1>15. QED
    BY <1>9, <1>11, <1>12, <1>13, <1>14

----------------------------------------------------------------------------
(* What a script leaves of its changes and its priority.                   *)

LEMMA StatementIs ==
    ASSUME NEW item, NEW s
    PROVE  /\ s.does = "change" => Scripts!Statement(item, s) = Scripts!change(item, s)
           /\ s.does = "set" => Scripts!Statement(item, s) = Scripts!set(item, s)
           /\ s.does = "adjust" => Scripts!Statement(item, s) = Scripts!adjust(item, s)
           /\ s.does = "type" =>
                 Scripts!Statement(item, s) = [item EXCEPT !.task.type = s.with]
           /\ s.does = "spec" =>
                 Scripts!Statement(item, s) = [item EXCEPT !.task.spec = s.with]
           /\ s.does = "del" => Scripts!Statement(item, s) = [item EXCEPT !.private = <<>>]
           /\ s.does = "import" => Scripts!Statement(item, s) = item
           /\ s.does = "def" => Scripts!Statement(item, s) = item
  BY DEF Scripts!Statement

Changed(item) == Scripts!Having("changed", item.private, FALSE)
Priority(item) == Scripts!Having("priority", item.private, 0)

\* What a statement does to the two fields that are looked at.
LEMMA Effects ==
    ASSUME NEW item, "private" \in DOMAIN item, NEW s, s.does \in Scripts!Kinds
    PROVE  LET after == Scripts!Statement(item, s) IN
           /\ "private" \in DOMAIN after
           /\ Changed(after) = IF s.does = "change" THEN TRUE
                               ELSE IF s.does = "del" THEN FALSE ELSE Changed(item)
           /\ Priority(after) = IF s.does = "set" THEN s.with
                                ELSE IF s.does = "del" THEN 0
                                ELSE IF s.does = "adjust" THEN Priority(item) + s.with
                                ELSE Priority(item)
  <1> DEFINE after == Scripts!Statement(item, s)
  <1>1. CASE s.does = "change"
    <2> DEFINE changed == Scripts!With(item.private, "changed", TRUE)
    <2>1. after = [item EXCEPT !.private = IF s.with = None THEN changed
                                           ELSE Scripts!Noted(changed, s.with)]
      BY <1>1, StatementIs, Zenon DEF Scripts!change
    <2>2. PICK p \in {changed, Scripts!Noted(changed, s.with)} : after = [item EXCEPT !.private = p]
      BY <2>1, Zenon
    <2>3. /\ "private" \in DOMAIN after /\ after.private = p
      BY <2>2
    <2>4. Scripts!Having("changed", p, FALSE) = TRUE
      BY <2>2, Zenon DEF Scripts!Having, Scripts!With, Scripts!Noted
    <2>5. Scripts!Having("priority", p, 0) = Priority(item)
      BY <2>2, Zenon DEF Scripts!Having, Scripts!With, Scripts!Noted, Priority
    <2>6. QED
      BY <1>1, <2>3, <2>4, <2>5, Zenon DEF Changed, Priority
  <1>2. CASE s.does = "set"
    <2> DEFINE p == Scripts!Noted(Scripts!With(item.private, "priority", s.with), s)
    <2>1. after = [item EXCEPT !.private = p]
      BY <1>2, StatementIs DEF Scripts!set
    <2>2. /\ "private" \in DOMAIN after /\ after.private = p
      BY <2>1
    <2>3. Scripts!Having("changed", p, FALSE) = Changed(item)
      BY DEF Scripts!Having, Scripts!With, Scripts!Noted, Changed
    <2>4. Scripts!Having("priority", p, 0) = s.with
      BY DEF Scripts!Having, Scripts!With, Scripts!Noted
    <2> HIDE DEF p
    <2>5. QED
      BY <1>2, <2>2, <2>3, <2>4, Zenon DEF Changed, Priority
  <1>3. CASE s.does = "adjust"
    <2> DEFINE n == Scripts!Having("priority", item.private, 0) + s.with
               p == Scripts!Noted(Scripts!With(item.private, "priority", n), s)
    <2>1. after = [item EXCEPT !.private = p]
      BY <1>3, StatementIs DEF Scripts!adjust
    <2> HIDE DEF n
    <2>2. /\ "private" \in DOMAIN after /\ after.private = p
      BY <2>1
    <2>3. Scripts!Having("changed", p, FALSE) = Changed(item)
      BY DEF Scripts!Having, Scripts!With, Scripts!Noted, Changed
    <2>4. Scripts!Having("priority", p, 0) = n
      BY DEF Scripts!Having, Scripts!With, Scripts!Noted
    <2> HIDE DEF p
    <2>5. QED
      BY <1>3, <2>2, <2>3, <2>4, Zenon DEF Changed, Priority, n
  <1>4. CASE s.does \in {"type", "spec", "import", "def"}
    <2>1. "private" \in DOMAIN after /\ after.private = item.private
      <3>1. CASE s.does = "type"
        <4>1. after = [item EXCEPT !.task.type = s.with]
          BY <3>1, StatementIs
        <4> HIDE DEF after
        <4>2. QED
          BY <4>1
      <3>2. CASE s.does = "spec"
        <4>1. after = [item EXCEPT !.task.spec = s.with]
          BY <3>2, StatementIs
        <4> HIDE DEF after
        <4>2. QED
          BY <4>1
      <3>3. CASE s.does \in {"import", "def"}
        BY <3>3, StatementIs
      <3>4. QED
        BY <1>4, <3>1, <3>2, <3>3
    <2>2. QED
      BY <1>4, <2>1, Zenon DEF Changed, Priority
  <1>5. CASE s.does = "del"
    <2>1. after = [item EXCEPT !.private = <<>>]
      BY <1>5, StatementIs
    <2>2. "private" \in DOMAIN after /\ after.private = <<>>
      BY <2>1
    <2>3. Changed(after) = FALSE /\ Priority(after) = 0
      BY <2>2 DEF Changed, Priority, Scripts!Having
    <2>4. QED
      BY <1>5, <2>2, <2>3, Zenon
  <1>6. QED
    BY <1>1, <1>2, <1>3, <1>4, <1>5, Zenon DEF Scripts!Kinds

\* The filter of a script compiles, and does what the script does.
LEMMA FilterMade ==
    ASSUME NEW lines, lines \in Seq(Range(lines)), NEW item
    PROVE  /\ Scripts!Compiles(Scripts!Filter(lines))
           /\ Scripts!Made(Scripts!Filter(lines), item) = Scripts!Made(lines, item)
  <1> DEFINE def == [does |-> "def", with |-> None]
             S == Range(lines) \cup {def}
             all == Scripts!Functions \o lines
             N == Len(lines)
  <1>1. lines \in Seq(S) /\ Scripts!Functions \in Seq(S) /\ Len(Scripts!Functions) = 1
        /\ Scripts!Functions[1] = def
    <2>1. Range(lines) \subseteq S
      OBVIOUS
    <2>2. lines \in Seq(S)
      <3> HIDE DEF S
      <3>1. QED
        BY <2>1, SeqMonotonic
    <2>3. QED
      BY <2>2 DEF Scripts!Functions
  <1>2. def.does = "def"
    OBVIOUS
  <1> HIDE DEF S, def
  <1>3. /\ all \in Seq(S) /\ Len(all) = N + 1 /\ N \in Nat
        /\ all[1] = def /\ \A n \in 1 .. N : all[n + 1] = lines[n]
    <2> DEFINE f == Scripts!Functions
    <2>1. N \in Nat
      BY <1>1, LenProperties
    <2>2. Len(f) = 1 /\ f[1] = def /\ f \in Seq(S) /\ lines \in Seq(S)
      BY <1>1
    <2> HIDE DEF f
    <2>3. /\ f \o lines \in Seq(S) /\ Len(f \o lines) = Len(f) + N
          /\ \A i \in 1 .. Len(f) + N : (f \o lines)[i] =
                IF i <= Len(f) THEN f[i] ELSE lines[i - Len(f)]
      BY <2>2, ConcatProperties, Zenon
    <2> DEFINE both == f \o lines
    <2>4. /\ both \in Seq(S) /\ Len(both) = 1 + N
          /\ \A i \in 1 .. 1 + N : both[i] = IF i <= 1 THEN f[i] ELSE lines[i - 1]
      BY <2>2, <2>3
    <2>5. both = all
      BY DEF f
    <2> HIDE DEF both, N, all
    <2>6. all[1] = def
      BY <2>1, <2>2, <2>4, <2>5
    <2>7. ASSUME NEW n \in 1 .. N PROVE all[n + 1] = lines[n]
      <3>1. n + 1 \in 1 .. 1 + N /\ ~(n + 1 <= 1) /\ (n + 1) - 1 = n
        BY <2>1
      <3>2. QED
        BY <2>4, <2>5, <3>1
    <2>8. QED
      BY <2>1, <2>4, <2>5, <2>6, <2>7
  <1> HIDE DEF all, N
  <1>4. \A s \in S : s.does = "import" => NoEffect(s)
    BY StatementIs DEF NoEffect
  <1>5. /\ Scripts!Compiles(Scripts!groom(all))
        /\ Scripts!Made(Scripts!groom(all), item) = Scripts!Made(all, item)
    BY <1>3, <1>4, Groomed
  <1>6. Scripts!Made(all, item) = Scripts!Made(lines, item)
    <2>a. Len(all) \in Nat /\ Len(all) = N + 1
      BY <1>3
    <2>b. PICK after : Makes(all, item, after)
      BY <2>a, MadeIs, Zenon
    <2>1. /\ Scripts!Made(all, item) = after[N + 1]
          /\ after[0] = item
          /\ \A n \in 1 .. N + 1 : after[n] = Scripts!Statement(after[n - 1], all[n])
      BY <2>a, <2>b DEF Makes
    <2>n. N \in Nat
      BY <1>3
    <2> DEFINE later == [n \in 0 .. N |-> after[n + 1]]
    <2>2. later[0] = item
      <3>1. after[1] = Scripts!Statement(item, def)
        BY <1>3, <2>1
      <3>2. QED
        BY <1>2, <1>3, <3>1, StatementIs
    <2>3. ASSUME NEW n \in 1 .. N
          PROVE  later[n] = Scripts!Statement(later[n - 1], lines[n])
      <3>1. later[n] = after[n + 1] /\ later[n - 1] = after[n]
        BY <1>3
      <3>2. n + 1 \in 1 .. N + 1 /\ (n + 1) - 1 = n
        BY <2>n
      <3>3. QED
        BY <1>3, <2>1, <3>1, <3>2
    <2>4. later[N] = after[N + 1]
      BY <1>3
    <2> HIDE DEF later
    <2>5. Scripts!Made(lines, item) = later[N]
      BY <1>3, <2>2, <2>3, MadeOnly, Zenon DEF N
    <2>6. QED
      BY <2>1, <2>4, <2>5
  <1>7. QED
    BY <1>5, <1>6 DEF Scripts!Filter, all

\* Sums of one more number, and of nothing but zeros.
LEMMA SumIs ==
    ASSUME NEW s, Len(s) \in Nat, \A n \in 1 .. Len(s) : s[n] \in Int
    PROVE  \E sum : /\ Scripts!Sum(s) = sum[Len(s)] /\ sum[0] = 0
                    /\ \A n \in 1 .. Len(s) : sum[n] = sum[n - 1] + s[n]
                    /\ \A n \in 0 .. Len(s) : sum[n] \in Int
  <1> DEFINE N == Len(s)
             step == [n \in 1 .. N |-> [x \in Int |-> x + s[n]]]
             Is(f) == f = [n \in 0 .. N |-> IF n = 0 THEN 0 ELSE f[n - 1] + s[n]]
             sum == CHOOSE f : Is(f)
  <1>1. Within(N, Int, step) /\ 0 \in Int /\ \A n \in 1 .. N, x \in Int : step[n][x] = x + s[n]
    BY DEF Within
  <1>2. PICK f : Recurs(N, Int, 0, step, f)
    <2> HIDE DEF step, N
    <2>1. QED
      BY <1>1, Recursion DEF N
  <1>3. Is(f)
    <2> HIDE DEF step
    <2>1. f \in [0 .. N -> Int] /\ f[0] = 0 /\ \A n \in 1 .. N : f[n] = step[n][f[n - 1]]
      BY <1>2 DEF Recurs
    <2> HIDE DEF N
    <2>n. N \in Nat
      BY DEF N
    <2>i. \A n \in 1 .. N : f[n - 1] \in Int
      BY <2>n, <2>1
    <2>2. \A n \in 1 .. N : f[n] = f[n - 1] + s[n]
      BY <1>1, <2>1, <2>i, Zenon
    <2>3. f = [n \in 0 .. N |-> f[n]]
      BY <2>1
    <2>4. \A n \in 0 .. N : f[n] = IF n = 0 THEN 0 ELSE f[n - 1] + s[n]
      BY <2>n, <2>1, <2>2
    <2>5. QED
      BY <2>3, <2>4, Zenon
  <1>4. Is(sum)
    <2> HIDE DEF Is
    <2>1. QED
      BY <1>3, Zenon
  <1>5. Scripts!Sum(s) = sum[N]
    BY Zenon DEF Scripts!Sum
  <1> HIDE DEF sum
  <1>6. /\ sum[0] = 0 /\ \A n \in 1 .. N : sum[n] = sum[n - 1] + s[n]
    <2>1. \A n \in 0 .. N : sum[n] = IF n = 0 THEN 0 ELSE sum[n - 1] + s[n]
      BY <1>4, Zenon
    <2>2. QED
      BY <2>1
  <1>7. \A n \in 0 .. N : sum[n] \in Int
    <2> DEFINE Holds == {n \in 0 .. N : sum[n] \in Int}
    <2>1. 0 \in Holds
      BY <1>6
    <2>2. ASSUME NEW n \in 0 .. N - 1, n \in Holds PROVE n + 1 \in Holds
      <3>1. sum[n + 1] = sum[n] + s[n + 1]
        BY <1>6
      <3>2. QED
        BY <2>2, <3>1
    <2>3. 0 .. N \subseteq Holds
      <3> HIDE DEF Holds
      <3>1. QED
        BY <2>1, <2>2, Inductive, Zenon
    <2>4. QED
      BY <2>3
  <1>8. QED
    BY <1>5, <1>6, <1>7

LEMMA SumSame ==
    ASSUME NEW s, NEW t, Len(s) \in Nat, Len(t) \in Nat, NEW N \in Nat, N <= Len(s), N <= Len(t),
           NEW f, NEW g, f[0] = 0, g[0] = 0,
           \A n \in 1 .. N : f[n] = f[n - 1] + s[n] /\ g[n] = g[n - 1] + t[n],
           \A n \in 1 .. N : s[n] = t[n]
    PROVE  f[N] = g[N]
  <1> DEFINE Holds == {n \in 0 .. N : f[n] = g[n]}
  <1>1. 0 \in Holds
    OBVIOUS
  <1>2. ASSUME NEW n \in 0 .. N - 1, n \in Holds PROVE n + 1 \in Holds
    <2>1. n + 1 \in 1 .. N /\ (n + 1) - 1 = n
      OBVIOUS
    <2>2. f[n + 1] = f[n] + s[n + 1] /\ g[n + 1] = g[n] + t[n + 1] /\ s[n + 1] = t[n + 1]
      BY <2>1
    <2>3. QED
      BY <1>2, <2>1, <2>2
  <1>3. 0 .. N \subseteq Holds
    <2> HIDE DEF Holds
    <2>1. QED
      BY <1>1, <1>2, Inductive, Zenon
  <1>4. QED
    BY <1>3

Listed(s) == Len(s) \in Nat /\ DOMAIN s = 1 .. Len(s) /\ \A n \in 1 .. Len(s) : s[n] \in Int

LEMMA SumMore ==
    ASSUME NEW s, NEW t, Listed(s), Listed(t), Len(t) = Len(s) + 1,
           \A n \in 1 .. Len(s) : t[n] = s[n]
    PROVE  Scripts!Sum(t) = Scripts!Sum(s) + t[Len(t)]
  <1> DEFINE N == Len(s)
  <1>1. N \in Nat /\ Len(t) = N + 1 /\ N <= Len(t)
    BY DEF Listed
  <1>2. PICK f : /\ Scripts!Sum(s) = f[N] /\ f[0] = 0
                 /\ \A n \in 1 .. N : f[n] = f[n - 1] + s[n]
                 /\ \A n \in 0 .. N : f[n] \in Int
    BY SumIs DEF Listed
  <1>3. PICK g : /\ Scripts!Sum(t) = g[Len(t)] /\ g[0] = 0
                 /\ \A n \in 1 .. Len(t) : g[n] = g[n - 1] + t[n]
                 /\ \A n \in 0 .. Len(t) : g[n] \in Int
    BY SumIs, Zenon DEF Listed
  <1>4. f[N] = g[N]
    <2> HIDE DEF N
    <2>1. \A n \in 1 .. N : f[n] = f[n - 1] + s[n] /\ g[n] = g[n - 1] + t[n]
      BY <1>1, <1>2, <1>3
    <2>2. \A n \in 1 .. N : s[n] = t[n]
      BY DEF N
    <2>3. Len(s) \in Nat /\ Len(t) \in Nat /\ N <= Len(s)
      BY <1>1 DEF N
    <2>4. QED
      BY <1>1, <1>2, <1>3, <2>1, <2>2, <2>3, SumSame
  <1>5. g[N + 1] = g[N] + t[N + 1]
    BY <1>1, <1>3
  <1>6. QED
    BY <1>1, <1>2, <1>3, <1>4, <1>5

LEMMA SumZero ==
    ASSUME NEW s, Listed(s), \A n \in 1 .. Len(s) : s[n] = 0
    PROVE  Scripts!Sum(s) = 0
  <1> DEFINE N == Len(s)
  <1>1. N \in Nat
    BY DEF Listed
  <1>2. PICK f : /\ Scripts!Sum(s) = f[N] /\ f[0] = 0
                 /\ \A n \in 1 .. N : f[n] = f[n - 1] + s[n]
                 /\ \A n \in 0 .. N : f[n] \in Int
    BY SumIs DEF Listed
  <1> DEFINE Holds == {n \in 0 .. N : f[n] = 0}
  <1>3. 0 \in Holds
    BY <1>1, <1>2
  <1>4. ASSUME NEW n \in 0 .. N - 1, n \in Holds PROVE n + 1 \in Holds
    <2>1. n + 1 \in 1 .. N /\ (n + 1) - 1 = n
      BY <1>1
    <2>2. f[n + 1] = f[n] + s[n + 1] /\ s[n + 1] = 0
      BY <1>2, <2>1
    <2>3. QED
      BY <1>4, <2>1, <2>2
  <1>5. 0 .. N \subseteq Holds
    <2> HIDE DEF Holds
    <2>1. QED
      BY <1>1, <1>3, <1>4, Inductive, Zenon
  <1>6. QED
    BY <1>1, <1>2, <1>5

\* What is left after n statements of those that change, and of those that set or adjust.
Weight(lines, n, m) ==
    IF /\ lines[m].does \in {"set", "adjust"}
       /\ \A k \in m + 1 .. n : lines[k].does \notin {"set", "del"}
    THEN lines[m].with ELSE 0
Weights(lines, n) == [m \in 1 .. n |-> Weight(lines, n, m)]

ChangedBy(lines, n) ==
    \E m \in 1 .. n : lines[m].does = "change" /\ \A k \in m + 1 .. n : lines[k].does # "del"

AreLines(lines, kinds) ==
    /\ lines \in Seq(Range(lines)) /\ Len(lines) \in Nat /\ DOMAIN lines = 1 .. Len(lines)
    /\ \A n \in 1 .. Len(lines) :
          /\ lines[n].does \in kinds
          /\ lines[n].does \in {"set", "adjust"} => lines[n].with \in Int

LEMMA WeightsListed ==
    ASSUME NEW lines, AreLines(lines, Scripts!Kinds), NEW n \in 0 .. Len(lines)
    PROVE  Listed(Weights(lines, n)) /\ Len(Weights(lines, n)) = n
  <1>1. n \in Nat /\ 1 .. n \subseteq 1 .. Len(lines)
    BY DEF AreLines
  <1>2. \A m \in 1 .. n : Weight(lines, n, m) \in Int
    BY <1>1 DEF AreLines, Weight
  <1>3. Len(Weights(lines, n)) = n /\ DOMAIN Weights(lines, n) = 1 .. n
    BY <1>1 DEF Weights
  <1>4. \A m \in 1 .. n : Weights(lines, n)[m] = Weight(lines, n, m)
    BY DEF Weights
  <1>5. QED
    BY <1>1, <1>2, <1>3, <1>4 DEF Listed

\* What one more statement leaves of them.
LEMMA WeightsStep ==
    ASSUME NEW lines, AreLines(lines, Scripts!Kinds), NEW n \in 0 .. Len(lines) - 1
    PROVE  LET s == lines[n + 1]
               before == Scripts!Sum(Weights(lines, n))
           IN  Scripts!Sum(Weights(lines, n + 1)) =
                   IF s.does = "set" THEN s.with
                   ELSE IF s.does = "del" THEN 0
                   ELSE IF s.does = "adjust" THEN before + s.with
                   ELSE before
  <1> DEFINE s == lines[n + 1]
             u == Weights(lines, n)
             v == Weights(lines, n + 1)
             zeros == [m \in 1 .. n |-> 0]
  <1>1. /\ n \in Nat /\ n \in 0 .. Len(lines) /\ n + 1 \in 0 .. Len(lines)
        /\ n + 1 \in 1 .. Len(lines)
    BY DEF AreLines
  <1>2. Listed(u) /\ Len(u) = n /\ Listed(v) /\ Len(v) = n + 1
    BY <1>1, WeightsListed
  <1>3. \A m \in 1 .. n : u[m] = Weight(lines, n, m) /\ v[m] = Weight(lines, n + 1, m)
    BY <1>1 DEF Weights
  <1>4. v[n + 1] = IF s.does \in {"set", "adjust"} THEN s.with ELSE 0
    <2>1. v[n + 1] = Weight(lines, n + 1, n + 1)
      BY <1>1 DEF Weights
    <2>2. (n + 1) + 1 .. n + 1 = {}
      BY <1>1
    <2>3. QED
      BY <2>1, <2>2 DEF Weight
  <1>5. s.does \in Scripts!Kinds /\ (s.does \in {"set", "adjust"} => s.with \in Int)
    BY <1>1 DEF AreLines
  <1>6. CASE s.does \in {"set", "del"}
    <2>1. \A m \in 1 .. n : v[m] = 0
      <3>1. \A m \in 1 .. n : n + 1 \in m + 1 .. n + 1
        BY <1>1
      <3>2. QED
        BY <1>3, <1>6, <3>1 DEF Weight
    <2>2. Listed(zeros) /\ Len(zeros) = n /\ \A m \in 1 .. n : zeros[m] = 0
      <3>1. DOMAIN zeros = 1 .. n /\ Len(zeros) = n
        BY <1>1
      <3>2. QED
        BY <1>1, <3>1 DEF Listed
    <2> HIDE DEF u, v, zeros, s
    <2>3. Scripts!Sum(zeros) = 0
      BY <2>2, SumZero
    <2>4. Scripts!Sum(v) = Scripts!Sum(zeros) + v[Len(v)]
      <3>1. Len(v) = Len(zeros) + 1 /\ \A m \in 1 .. Len(zeros) : v[m] = zeros[m]
        BY <1>2, <2>1, <2>2
      <3>2. QED
        BY <1>2, <2>2, <3>1, SumMore
    <2>5. Scripts!Sum(v) = IF s.does = "set" THEN s.with ELSE 0
      BY <1>2, <1>4, <1>5, <1>6, <2>3, <2>4
    <2>6. QED
      BY <1>6, <2>5 DEF v, s
  <1>7. CASE s.does \notin {"set", "del"}
    <2>1. \A m \in 1 .. n : v[m] = u[m]
      <3>1. ASSUME NEW m \in 1 .. n
            PROVE  (\A k \in m + 1 .. n + 1 : lines[k].does \notin {"set", "del"})
                     <=> \A k \in m + 1 .. n : lines[k].does \notin {"set", "del"}
        <4>1. \A k : k \in m + 1 .. n + 1 <=> k \in m + 1 .. n \/ k = n + 1
          BY <1>1
        <4>2. QED
          BY <1>7, <4>1
      <3>2. QED
        BY <1>3, <3>1 DEF Weight
    <2> HIDE DEF u, v, s
    <2>2. Scripts!Sum(v) = Scripts!Sum(u) + v[Len(v)]
      <3>1. Len(v) = Len(u) + 1 /\ \A m \in 1 .. Len(u) : v[m] = u[m]
        BY <1>2, <2>1
      <3>2. QED
        BY <1>2, <3>1, SumMore
    <2>3. Scripts!Sum(u) \in Int
      <3>1. PICK sum : /\ Scripts!Sum(u) = sum[Len(u)]
                       /\ \A k \in 0 .. Len(u) : sum[k] \in Int
        BY <1>2, SumIs DEF Listed
      <3>2. QED
        BY <1>1, <1>2, <3>1
    <2>4. Scripts!Sum(v) = IF s.does = "adjust" THEN Scripts!Sum(u) + s.with ELSE Scripts!Sum(u)
      BY <1>2, <1>4, <1>5, <1>7, <2>2, <2>3
    <2>5. QED
      BY <1>7, <2>4 DEF u, v, s
  <1>8. QED
    BY <1>6, <1>7

LEMMA ChangedStep ==
    ASSUME NEW lines, NEW n \in Nat
    PROVE  ChangedBy(lines, n + 1) =
             IF lines[n + 1].does = "change" THEN TRUE
             ELSE IF lines[n + 1].does = "del" THEN FALSE
             ELSE ChangedBy(lines, n)
  <1> DEFINE s == lines[n + 1]
             Stays(m, k) == lines[m].does = "change"
                              /\ \A j \in m + 1 .. k : lines[j].does # "del"
  <1>1. /\ ChangedBy(lines, n) <=> \E m \in 1 .. n : Stays(m, n)
        /\ ChangedBy(lines, n + 1) <=> \E m \in 1 .. n + 1 : Stays(m, n + 1)
    BY DEF ChangedBy
  <1>2. ChangedBy(lines, n) \in BOOLEAN /\ ChangedBy(lines, n + 1) \in BOOLEAN
    BY DEF ChangedBy
  <1>3. Stays(n + 1, n + 1) <=> s.does = "change"
    <2>1. (n + 1) + 1 .. n + 1 = {}
      OBVIOUS
    <2>2. QED
      BY <2>1
  <1>4. ASSUME NEW m \in 1 .. n PROVE Stays(m, n + 1) <=> Stays(m, n) /\ s.does # "del"
    <2>1. \A k : k \in m + 1 .. n + 1 <=> k \in m + 1 .. n \/ k = n + 1
      OBVIOUS
    <2>2. QED
      BY <2>1
  <1>5. \A m : m \in 1 .. n + 1 <=> m \in 1 .. n \/ m = n + 1
    OBVIOUS
  <1> HIDE DEF Stays, s
  <1>6. ChangedBy(lines, n + 1) <=>
            (s.does = "change" \/ (ChangedBy(lines, n) /\ s.does # "del"))
    BY <1>1, <1>3, <1>4, <1>5
  <1>7. QED
    BY <1>2, <1>6, Zenon DEF s

\* What a script makes has been changed, and is of the priority, that are left.
LEMMA ScriptMakes ==
    ASSUME NEW lines, AreLines(lines, Scripts!Kinds), NEW item, "private" \in DOMAIN item,
           Changed(item) = FALSE, Priority(item) = 0
    PROVE  LET x == Scripts!Made(lines, item) IN
           /\ Changed(x) = ChangedBy(lines, Len(lines))
           /\ Priority(x) = Scripts!Sum(Weights(lines, Len(lines)))
  <1> DEFINE N == Len(lines)
  <1>1. N \in Nat
    BY DEF AreLines
  <1>2. PICK after : Makes(lines, item, after)
    BY <1>1, MadeIs
  <1>3. /\ Scripts!Made(lines, item) = after[N] /\ after[0] = item
        /\ \A n \in 1 .. N : after[n] = Scripts!Statement(after[n - 1], lines[n])
    BY <1>2 DEF Makes
  <1> DEFINE Holds == {n \in 0 .. N : /\ "private" \in DOMAIN after[n]
                                      /\ Changed(after[n]) = ChangedBy(lines, n)
                                      /\ Priority(after[n]) = Scripts!Sum(Weights(lines, n))}
  <1>4. 0 \in Holds
    <2>1. ChangedBy(lines, 0) = FALSE
      BY DEF ChangedBy
    <2>2. Listed(Weights(lines, 0)) /\ Len(Weights(lines, 0)) = 0
      BY <1>1, WeightsListed
    <2>3. Scripts!Sum(Weights(lines, 0)) = 0
      BY <2>2, SumZero
    <2>4. "private" \in DOMAIN after[0] /\ Changed(after[0]) = FALSE /\ Priority(after[0]) = 0
      BY <1>3
    <2>5. 0 \in 0 .. N
      BY <1>1
    <2> HIDE DEF N
    <2>6. QED
      BY <2>1, <2>3, <2>4, <2>5, Zenon
  <1>5. ASSUME NEW n \in 0 .. N - 1, n \in Holds PROVE n + 1 \in Holds
    <2> DEFINE s == lines[n + 1]
               x == after[n]
               y == after[n + 1]
    <2>1. n + 1 \in 1 .. N /\ n + 1 \in 0 .. N /\ (n + 1) - 1 = n /\ n \in Nat
      BY <1>1
    <2>2. y = Scripts!Statement(x, s)
      BY <1>3, <2>1
    <2>3. s.does \in Scripts!Kinds
      BY <2>1 DEF AreLines
    <2>4. /\ "private" \in DOMAIN x
          /\ Changed(x) = ChangedBy(lines, n)
          /\ Priority(x) = Scripts!Sum(Weights(lines, n))
      BY <1>5
    <2>5. ChangedBy(lines, n + 1) =
             IF s.does = "change" THEN TRUE
             ELSE IF s.does = "del" THEN FALSE ELSE ChangedBy(lines, n)
      BY <2>1, ChangedStep, Zenon
    <2>6. Scripts!Sum(Weights(lines, n + 1)) =
             IF s.does = "set" THEN s.with
             ELSE IF s.does = "del" THEN 0
             ELSE IF s.does = "adjust" THEN Scripts!Sum(Weights(lines, n)) + s.with
             ELSE Scripts!Sum(Weights(lines, n))
      BY <2>1, WeightsStep, Zenon
    <2> HIDE DEF s, x
    <2>7. /\ "private" \in DOMAIN y
          /\ Changed(y) = IF s.does = "change" THEN TRUE
                          ELSE IF s.does = "del" THEN FALSE ELSE Changed(x)
          /\ Priority(y) = IF s.does = "set" THEN s.with
                           ELSE IF s.does = "del" THEN 0
                           ELSE IF s.does = "adjust" THEN Priority(x) + s.with
                           ELSE Priority(x)
      <3> HIDE DEF y
      <3>1. QED
        BY <2>2, <2>3, <2>4, Effects, Zenon
    <2>8. QED
      BY <2>1, <2>4, <2>5, <2>6, <2>7, Zenon
  <1>6. 0 .. N \subseteq Holds
    <2> HIDE DEF Holds
    <2>1. QED
      BY <1>1, <1>4, <1>5, Inductive, Zenon
  <1>7. QED
    BY <1>1, <1>3, <1>6

\* Whatever a script says, its filter compiles, the type of the test stays, and the changes
\* and the priority are those that no later statement undoes (rewriter.py, prioritizer.py).
LEMMA ScriptsAgree ==
    ASSUME NEW lines, AreLines(lines, Scripts!Kinds \cup {"reject", "empty"}), NEW task
    PROVE  Scripts!ScriptsSound(lines, task)
  <1> DEFINE N == Len(lines)
             rewritten == Scripts!Rewriter(lines, task)
             priority == Scripts!Prioritizer(lines, task)
             p == [changed |-> FALSE, diags |-> <<>>]
             q == [priority |-> 0, diags |-> <<>>]
             Item(private) == [task |-> task, private |-> private]
             throws == \E n \in DOMAIN lines : lines[n].does \in {"reject", "empty"}
  <1>1. N \in Nat /\ DOMAIN lines = 1 .. N
    BY DEF AreLines
  <1>2. lines \in Seq(Range(lines))
    BY DEF AreLines
  <1>3. Scripts!Compiles(Scripts!Filter(lines))
    BY <1>2, FilterMade
  <1>4. \A private : Scripts!First(lines, task, private) =
            IF throws THEN Scripts!Raised ELSE Scripts!Made(lines, Item(private))
    BY <1>2, FilterMade DEF Scripts!First
  <1>5. CASE throws
    <2>1. \A private : Scripts!First(lines, task, private) = Scripts!Raised
      BY <1>4, <1>5, Zenon
    <2>2. rewritten = Scripts!Raised /\ priority = Scripts!Raised
      BY <2>1 DEF Scripts!Rewriter, Scripts!Prioritizer
    <2>3. QED
      BY <1>3, <2>2 DEF Scripts!ScriptsSound
  <1>6. CASE ~throws
    <2>1. AreLines(lines, Scripts!Kinds)
      BY <1>1, <1>6 DEF AreLines
    <2> DEFINE x == Scripts!Made(lines, Item(p))
               y == Scripts!Made(lines, Item(q))
    <2>2. Scripts!First(lines, task, p) = x /\ Scripts!First(lines, task, q) = y
      BY <1>4, <1>6, Zenon
    <2>3. /\ Changed(x) = ChangedBy(lines, N)
          /\ Priority(y) = Scripts!Sum(Weights(lines, N))
      <3>1. \A private : "private" \in DOMAIN Item(private) /\ Item(private).private = private
        OBVIOUS
      <3>2. /\ Changed(Item(p)) = FALSE /\ Priority(Item(p)) = 0
            /\ Changed(Item(q)) = FALSE /\ Priority(Item(q)) = 0
        BY <3>1 DEF Changed, Priority, Scripts!Having
      <3> HIDE DEF Item, p, q
      <3>3. QED
        BY <2>1, <3>1, <3>2, ScriptMakes, Zenon
    <2> HIDE DEF x, y
    <2>4. ASSUME rewritten # Scripts!Raised
          PROVE  /\ rewritten.task.type = task.type
                 /\ rewritten.changed = ChangedBy(lines, N)
      <3>1. /\ x.task.type = task.type /\ {"changed", "diags"} \subseteq DOMAIN x.private
            /\ rewritten = [changed |-> x.private["changed"], task |-> x.task,
                            diags |-> x.private["diags"]]
        BY <2>2, <2>4 DEF Scripts!Rewriter
      <3>2. Changed(x) = x.private["changed"]
        BY <3>1, Zenon DEF Changed, Scripts!Having
      <3> HIDE DEF rewritten
      <3>3. QED
        BY <2>3, <3>1, <3>2
    <2>5. ASSUME priority # Scripts!Raised
          PROVE  priority.priority = Scripts!Sum(Weights(lines, N))
      <3>1. /\ {"priority", "diags"} \subseteq DOMAIN y.private
            /\ priority = [priority |-> y.private["priority"], diags |-> y.private["diags"]]
        BY <2>2, <2>5 DEF Scripts!Prioritizer
      <3>2. Priority(y) = y.private["priority"]
        BY <3>1 DEF Priority, Scripts!Having
      <3> HIDE DEF priority
      <3>3. QED
        BY <2>3, <3>1, <3>2
    <2>6. ChangedBy(lines, N) =
              \E n \in DOMAIN lines :
                  lines[n].does = "change" /\ Scripts!Lasts(lines, n, {"del"})
      BY <1>1 DEF ChangedBy, Scripts!Lasts
    <2>7. Weights(lines, N) = [n \in DOMAIN lines |->
              IF lines[n].does \in {"set", "adjust"} /\ Scripts!Lasts(lines, n, {"set", "del"})
              THEN lines[n].with ELSE 0]
      <3>1. \A n \in 1 .. N :
              Weight(lines, N, n) =
                IF lines[n].does \in {"set", "adjust"}
                   /\ Scripts!Lasts(lines, n, {"set", "del"})
                THEN lines[n].with ELSE 0
        BY DEF Weight, Scripts!Lasts
      <3>2. QED
        BY <1>1, <3>1 DEF Weights
    <2> HIDE DEF rewritten, priority
    <2>8. QED
      BY <1>3, <2>4, <2>5, <2>6, <2>7, Zenon DEF Scripts!ScriptsSound, rewritten, priority
  <1>7. QED
    BY <1>5, <1>6

\* Whatever the input of a part that has no steps is, it is one of those there are.
LEMMA AskedStays == LibrarySpec => [](asked \in Asked)
  <1>1. LibraryInit => asked \in Asked
    BY AskedAssumption DEF LibraryInit, AnAsked
  <1>2. asked \in Asked /\ [LibraryNext]_vars => (asked \in Asked)'
    BY DEF LibraryNext, vars
  <1>3. QED
    BY <1>1, <1>2, PTL DEF LibrarySpec

\* Whatever the limits on a test's hosts and values are, they pass what meets them, and a
\* limit file's script does to a task what its statements say, for every input of the
\* assumed form (limits.py 18-368, rewriter.py 74-113, prioritizer.py 91-119).
THEOREM LimitsDoAgree == LibrarySpec => []LimitsAgree
  <1>1. ASSUME asked \in Asked PROVE LimitsAgree
    <2>1. asked.of = "endpoints" =>
             Params!EndpointsAgree(asked.limit, asked.source, asked.dest, asked.version)
      <3> SUFFICES ASSUME asked.of = "endpoints"
                   PROVE  Params!EndpointsAgree(asked.limit, asked.source, asked.dest, asked.version)
        OBVIOUS
      <3> DEFINE source == asked.source
                 dest == asked.dest
                 Ip == {dest[4], dest[6], source[4], source[6]}
      <3>1. Params!AreEnds(asked.limit, source, dest, asked.version)
        BY <1>1, AskedAssumption DEF AskedAssumption
      <3> HIDE DEF source, dest
      <3>2. /\ dest \in [{4, 6} -> Ip \cup {None}] /\ dest # None
            /\ source \in [{4, 6} -> Ip \cup {None}] \cup {None}
            /\ asked.version \in {4, 6, None}
            /\ DOMAIN asked.limit \subseteq {"source", "dest", "endpoint"}
        BY <3>1 DEF Params!AreEnds, Params!IsHost
      <3>3. Params!EndpointsAgree(asked.limit, source, dest, asked.version)
        <4> HIDE DEF Ip
        <4>1. QED
          BY <3>2, EndpointLimitsAgree
      <3>4. QED
        BY <3>3 DEF source, dest
    <2>2. asked.of = "value" => Params!ValuesAgree(asked.limit, asked.value, asked.upper)
      BY <1>1, AskedAssumption, ValueLimitsAgree DEF AskedAssumption
    <2>3. asked.of = "script" => Scripts!ScriptsSound(asked.script, asked.task)
      <3> SUFFICES ASSUME asked.of = "script"
                   PROVE  Scripts!ScriptsSound(asked.script, asked.task)
        OBVIOUS
      <3> DEFINE lines == asked.script
      <3>1. Scripts!IsScript(lines)
        BY <1>1, AskedAssumption DEF AskedAssumption
      <3> HIDE DEF lines
      <3>2. lines \in Seq(Range(lines))
        BY <3>1 DEF Scripts!IsScript, Range
      <3>3. AreLines(lines, Scripts!Kinds \cup {"reject", "empty"})
        BY <3>1, <3>2, LenProperties DEF Scripts!IsScript, AreLines
      <3>4. QED
        BY <3>3, ScriptsAgree DEF lines
    <2>4. QED
      BY <2>1, <2>2, <2>3 DEF LimitsAgree
  <1>2. QED
    BY <1>1, AskedStays, PTL

----------------------------------------------------------------------------
(* What the Esmond archiver archives.                                      *)

\* What only TCP has, and is never declared; and what a test of throughput may have.
TcpTypes == {"packet-rtt", "packet-rtt-subintervals", "streams-packet-rtt",
             "streams-packet-rtt-subintervals", "tcp-windowsize", "tcp-windowsize-subintervals",
             "streams-tcp-windowsize", "streams-tcp-windowsize-subintervals"}
OfThroughput(test) == Archive!ThroughputTypes(test) \cup IF test.udp THEN {} ELSE TcpTypes

LEMMA PointsOf ==
    /\ \A x, value : DOMAIN Archive!Only(x, value) = {x}
    /\ \A cond, points : DOMAIN Archive!If(cond, points) \subseteq DOMAIN points
    /\ \A points : DOMAIN Archive!If(FALSE, points) = {}
    /\ \A type, obj, field :
          DOMAIN Archive!add_data_if_exists(type, obj, field) \subseteq {type}
    /\ \A type, obj, num, den :
          DOMAIN Archive!add_data_rate(type, obj, num, den) \subseteq {type}
    /\ \A type, field, parts :
          /\ DOMAIN Archive!Series(type, field, parts) \subseteq {type}
          /\ DOMAIN Archive!StreamSeries(type, field, parts) \subseteq {type}
          /\ DOMAIN Archive!StreamSeries(type, field, {}) = {}
  BY DEF Archive!Only, Archive!If, Archive!add_data_if_exists, Archive!add_data_rate,
         Archive!Series, Archive!StreamSeries

LEMMA Joined ==
    \A f, g, T : DOMAIN f \subseteq T /\ DOMAIN g \subseteq T => DOMAIN Archive!++(f, g) \subseteq T
  BY DEF Archive!++

\* The values of a function are of T.
Into(f, T) == \A k \in DOMAIN f : f[k] \in T

LEMMA IntoJoined ==
    /\ \A x, y, T : y \in T => Into(Archive!Only(x, y), T)
    /\ \A f, g, T : Into(f, T) /\ Into(g, T) => Into(Archive!++(f, g), T)
  BY DEF Into, Archive!Only, Archive!++

LEMMA MappedPoints ==
    ASSUME NEW map, NEW res
    PROVE  DOMAIN Archive!AddMapped(map, res) \subseteq {map[f] : f \in DOMAIN map}
  BY DEF Archive!AddMapped

LEMMA LatencyPoints ==
    ASSUME NEW res
    PROVE  DOMAIN Archive!LatencyData(res) \subseteq Archive!LatencyTypes
  <1>1. Into(Archive!LatencyMap, Archive!LatencyTypes)
    <2>1. /\ {"histogram-owdelay", "packet-count-sent", "packet-count-lost", "packet-reorders",
              "packet-duplicates", "time-error-estimates"} \subseteq Archive!LatencyTypes
          /\ "histogram-ttl" \in Archive!LatencyTypes
      BY DEF Archive!LatencyTypes
    <2>2. QED
      BY <2>1, IntoJoined DEF Archive!LatencyMap
  <1>2. DOMAIN Archive!AddMapped(Archive!LatencyMap, res) \subseteq Archive!LatencyTypes
    BY <1>1, MappedPoints DEF Into
  <1>3. QED
    BY <1>2, PointsOf DEF Archive!LatencyData, Archive!++, Archive!LatencyTypes

LEMMA RTTPoints ==
    ASSUME NEW res
    PROVE  DOMAIN Archive!RTTData(res) \subseteq Archive!RTTTypes
  <1>1. \A f \in DOMAIN Archive!RTTMap : Archive!RTTMap[f] \in Archive!RTTTypes
    BY DEF Archive!RTTMap, Archive!Only, Archive!++, Archive!RTTTypes
  <1>2. DOMAIN Archive!AddMapped(Archive!RTTMap, res) \subseteq Archive!RTTTypes
    BY <1>1, MappedPoints
  <1>3. QED
    BY <1>2, PointsOf DEF Archive!RTTData, Archive!++, Archive!RTTTypes, Archive!If, Archive!Only

LEMMA TracePoints ==
    ASSUME NEW test, NEW res
    PROVE  DOMAIN Archive!TraceData(test, res) \subseteq Archive!TraceTypes(test)
  BY DEF Archive!TraceData, Archive!TraceTypes, Archive!If, Archive!Only, Archive!++

LEMMA OfThroughputIs ==
    ASSUME NEW test
    PROVE  LET T == OfThroughput(test) IN
           /\ {"throughput", "throughput-subintervals"} \subseteq T
           /\ test.parallel > 1 =>
                {"streams-throughput", "streams-throughput-subintervals"} \subseteq T
           /\ test.udp => {"packet-count-sent", "packet-count-lost", "packet-loss-rate"} \subseteq T
           /\ ~test.udp => TcpTypes \cup {"packet-retransmits", "packet-retransmits-subintervals"}
                            \subseteq T
           /\ ~test.udp /\ test.parallel > 1 =>
                {"streams-packet-retransmits", "streams-packet-retransmits-subintervals"} \subseteq T
  BY DEF OfThroughput, Archive!ThroughputTypes

LEMMA SummaryPoints ==
    ASSUME NEW test, NEW sum
    PROVE  DOMAIN Archive!SummaryData(test, sum) \subseteq OfThroughput(test)
  <1> DEFINE T == OfThroughput(test)
             Of(type, field) == Archive!add_data_if_exists(type, sum, field)
  <1>1. \A type \in T : \A field : DOMAIN Of(type, field) \subseteq T
    BY PointsOf
  <1>2. "packet-loss-rate" \in T =>
           DOMAIN Archive!add_data_rate("packet-loss-rate", sum, "lost", "sent") \subseteq T
    BY PointsOf
  <1>3. "packet-rtt" \in TcpTypes /\ "tcp-windowsize" \in TcpTypes
    BY DEF TcpTypes
  <1>4. CASE test.udp
    BY <1>1, <1>2, <1>4, OfThroughputIs, Joined DEF Archive!SummaryData
  <1>5. CASE ~test.udp
    <2> DEFINE bits == Of("throughput", "throughput-bits")
               retransmits == Of("packet-retransmits", "retransmits")
               rtt == Of("packet-rtt", "rtt")
               window == Of("tcp-windowsize", "tcp-window-size")
    <2>1. Archive!SummaryData(test, sum)
            = Archive!++(bits, Archive!++(Archive!++(retransmits, rtt), window))
      BY <1>5, Zenon DEF Archive!SummaryData
    <2>2. /\ "throughput" \in T /\ "packet-retransmits" \in T
          /\ "packet-rtt" \in T /\ "tcp-windowsize" \in T
      BY <1>3, <1>5, OfThroughputIs
    <2>3. /\ DOMAIN bits \subseteq T /\ DOMAIN retransmits \subseteq T
          /\ DOMAIN rtt \subseteq T /\ DOMAIN window \subseteq T
      <3> HIDE DEF T, Of
      <3>1. QED
        BY <1>1, <2>2
    <2> HIDE DEF bits, retransmits, rtt, window
    <2>4. QED
      BY <2>1, <2>3, Joined
  <1>6. QED
    BY <1>4, <1>5

LEMMA StreamPoints ==
    ASSUME NEW test, NEW streams
    PROVE  DOMAIN Archive!StreamData(test, streams) \subseteq OfThroughput(test)
  <1> DEFINE T == OfThroughput(test)
             parts == Archive!ToSet(streams)
             Of(type, field) == Archive!Series(type, field,
                 {part \in parts : Archive!Has(part, field) => part[field] # 0})
             each == Archive!Only("streams-throughput", parts)
             tcp == Archive!++(Archive!++(Of("streams-packet-retransmits", "retransmits"),
                                          Of("streams-packet-rtt", "rtt")),
                               Of("streams-tcp-windowsize", "tcp-window-size"))
             all == Archive!++(each, Archive!If(~test.udp, tcp))
             many == test.parallel > 1 /\ parts # {}
  <1>1. Archive!StreamData(test, streams) = Archive!If(many, all)
    BY Zenon DEF Archive!StreamData
  <1>2. \A type \in T : \A field : DOMAIN Of(type, field) \subseteq T
    BY PointsOf
  <1>3. "streams-packet-rtt" \in TcpTypes /\ "streams-tcp-windowsize" \in TcpTypes
    BY DEF TcpTypes
  <1> HIDE DEF Of
  <1>4. ASSUME many PROVE DOMAIN all \subseteq T
    <2>1. DOMAIN each \subseteq T
      <3>1. "streams-throughput" \in T
        BY <1>4, OfThroughputIs
      <3>2. DOMAIN each = {"streams-throughput"}
        <4> HIDE DEF parts
        <4>1. QED
          BY PointsOf, Zenon
      <3> HIDE DEF each, T
      <3>3. QED
        BY <3>1, <3>2
    <2>2. CASE test.udp
      <3>1. DOMAIN Archive!If(~test.udp, tcp) = {}
        BY <2>2 DEF Archive!If
      <3> HIDE DEF each, tcp
      <3>2. QED
        BY <2>1, <3>1, Joined
    <2>3. CASE ~test.udp
      <3>1. DOMAIN tcp \subseteq T
        BY <1>2, <1>3, <1>4, <2>3, OfThroughputIs, Joined
      <3> HIDE DEF each, tcp
      <3>2. QED
        BY <2>1, <3>1, PointsOf, Joined
    <2>4. QED
      BY <2>2, <2>3
  <1> HIDE DEF all, many
  <1>5. QED
    BY <1>1, <1>4 DEF Archive!If

LEMMA IntervalPoints ==
    ASSUME NEW test, NEW intervals
    PROVE  DOMAIN Archive!IntervalData(test, intervals) \subseteq OfThroughput(test)
  <1> DEFINE T == OfThroughput(test)
             parts == Archive!WholeParts(intervals)
             streams == Archive!StreamParts(test, intervals)
             Of(type, field) == Archive!Series(type, field, parts)
             OfStreams(type, field) == Archive!StreamSeries(type, field, streams)
             whole == Of("throughput-subintervals", "throughput-bits")
             each == OfStreams("streams-throughput-subintervals", "throughput-bits")
             tcp1 == Archive!++(Archive!++(Of("packet-retransmits-subintervals", "retransmits"),
                         Of("packet-rtt-subintervals", "rtt")),
                         Of("tcp-windowsize-subintervals", "tcp-window-size"))
             retransmits == OfStreams("streams-packet-retransmits-subintervals", "retransmits")
             rtt == OfStreams("streams-packet-rtt-subintervals", "rtt")
             window == OfStreams("streams-tcp-windowsize-subintervals", "tcp-window-size")
             tcp == Archive!++(Archive!++(Archive!++(tcp1, retransmits), rtt), window)
  <1>1. Archive!IntervalData(test, intervals)
          = Archive!++(Archive!++(whole, each), Archive!If(~test.udp, tcp))
    BY Zenon DEF Archive!IntervalData
  <1>2. streams # {} => test.parallel > 1
    BY DEF Archive!StreamParts
  <1>3. /\ \A type \in T : \A field : DOMAIN Of(type, field) \subseteq T
        /\ \A type, field : type \in T \/ streams = {} => DOMAIN OfStreams(type, field) \subseteq T
    <2> HIDE DEF parts, streams, T
    <2>1. ASSUME NEW type, NEW field, type \in T PROVE DOMAIN Of(type, field) \subseteq T
      <3>1. DOMAIN Of(type, field) \subseteq {type}
        BY PointsOf, Zenon
      <3>2. QED
        BY <2>1, <3>1
    <2>2. ASSUME NEW type, NEW field PROVE DOMAIN OfStreams(type, field) \subseteq {type}
      BY PointsOf, Zenon
    <2>3. ASSUME NEW type, NEW field, streams = {} PROVE DOMAIN OfStreams(type, field) = {}
      BY <2>3, PointsOf, Zenon
    <2> HIDE DEF Of, OfStreams
    <2>4. QED
      BY <2>1, <2>2, <2>3
  <1>4. /\ "packet-rtt-subintervals" \in TcpTypes /\ "tcp-windowsize-subintervals" \in TcpTypes
        /\ "streams-packet-rtt-subintervals" \in TcpTypes
        /\ "streams-tcp-windowsize-subintervals" \in TcpTypes
    BY DEF TcpTypes
  <1> HIDE DEF Of, OfStreams, streams
  <1>5. DOMAIN whole \subseteq T /\ DOMAIN each \subseteq T
    BY <1>2, <1>3, OfThroughputIs
  <1>6. ASSUME ~test.udp PROVE DOMAIN tcp \subseteq T
    <2>1. DOMAIN tcp1 \subseteq T
      BY <1>3, <1>4, <1>6, OfThroughputIs, Joined
    <2>2. DOMAIN retransmits \subseteq T
      BY <1>2, <1>3, <1>6, OfThroughputIs
    <2>3. DOMAIN rtt \subseteq T /\ DOMAIN window \subseteq T
      BY <1>3, <1>4, <1>6, OfThroughputIs
    <2> HIDE DEF tcp1, retransmits, rtt, window
    <2>4. QED
      BY <2>1, <2>2, <2>3, Joined
  <1> HIDE DEF whole, each, tcp
  <1>7. DOMAIN Archive!If(~test.udp, tcp) \subseteq T
    BY <1>6 DEF Archive!If
  <1>8. QED
    BY <1>1, <1>5, <1>7, Joined

LEMMA ThroughputPoints ==
    ASSUME NEW test, NEW res
    PROVE  DOMAIN Archive!ThroughputData(test, res) \subseteq OfThroughput(test)
  BY SummaryPoints, StreamPoints, IntervalPoints, Joined DEF Archive!ThroughputData

LEMMA ClassIs ==
    ASSUME NEW class, NEW test, NEW res
    PROVE  /\ class \in {"latency", "latencybg"} =>
                /\ Archive!TypesOf(class, test) = Archive!LatencyTypes
                /\ Archive!AdditionalData(class, test, res) = Archive!LatencyData(res)
           /\ class = "rtt" =>
                /\ Archive!TypesOf(class, test) = Archive!RTTTypes
                /\ Archive!AdditionalData(class, test, res) = Archive!RTTData(res)
           /\ class = "trace" =>
                /\ Archive!TypesOf(class, test) = Archive!TraceTypes(test)
                /\ Archive!AdditionalData(class, test, res) = Archive!TraceData(test, res)
           /\ class = "throughput" =>
                /\ Archive!TypesOf(class, test) = Archive!ThroughputTypes(test)
                /\ Archive!AdditionalData(class, test, res)
                     = Archive!ThroughputData(test, res)
           /\ class = "disk-to-disk" =>
                /\ Archive!TypesOf(class, test) = {"failures", "throughput"}
                /\ Archive!AdditionalData(class, test, res)
                     = Archive!add_data_if_exists("throughput", res, "throughput")
           /\ class = "raw" =>
                /\ Archive!TypesOf(class, test) = {"pscheduler-raw"}
                /\ Archive!AdditionalData(class, test, res)
                     = Archive!Only("pscheduler-raw", res)
  BY DEF Archive!TypesOf, Archive!AdditionalData

Classes == Archive!Mapped \cup {"raw"}

\* What is not declared: the types only TCP has, and the failure of a raw record.
Missing(class, test) ==
    IF class = "raw" THEN {"failures"}
    ELSE IF class = "throughput" /\ ~test.udp THEN TcpTypes ELSE {}

LEMMA AdditionalPoints ==
    ASSUME NEW class \in Classes, NEW test, NEW res
    PROVE  DOMAIN Archive!AdditionalData(class, test, res)
             \subseteq Archive!TypesOf(class, test) \cup Missing(class, test)
  <1>1. CASE class \in {"latency", "latencybg"}
    BY <1>1, ClassIs, LatencyPoints
  <1>2. CASE class = "rtt"
    BY <1>2, ClassIs, RTTPoints
  <1>3. CASE class = "trace"
    BY <1>3, ClassIs, TracePoints
  <1>4. CASE class = "throughput"
    BY <1>4, ClassIs, ThroughputPoints DEF OfThroughput, Missing
  <1>5. CASE class = "disk-to-disk"
    BY <1>5, ClassIs, PointsOf
  <1>6. CASE class = "raw"
    <2>1. DOMAIN Archive!Only("pscheduler-raw", res) = {"pscheduler-raw"}
      BY DEF Archive!Only
    <2>2. QED
      BY <1>6, <2>1, ClassIs
  <1>7. QED
    BY <1>1, <1>2, <1>3, <1>4, <1>5, <1>6 DEF Classes, Archive!Mapped

\* A failure is declared but for what is stored raw.
LEMMA FailuresDeclared ==
    ASSUME NEW class \in Archive!Mapped, NEW test
    PROVE  "failures" \in Archive!TypesOf(class, test)
  <1>1. CASE class = "throughput"
    BY <1>1, ClassIs DEF Archive!ThroughputTypes
  <1>2. CASE class \in {"latency", "latencybg"}
    BY <1>2, ClassIs DEF Archive!LatencyTypes
  <1>3. CASE class = "rtt"
    BY <1>3, ClassIs DEF Archive!RTTTypes
  <1>4. CASE class = "trace"
    BY <1>4, ClassIs DEF Archive!TraceTypes
  <1>5. CASE class = "disk-to-disk"
    BY <1>5, ClassIs
  <1>6. QED
    BY <1>1, <1>2, <1>3, <1>4, <1>5 DEF Archive!Mapped

LEMMA DataPoints ==
    ASSUME NEW class \in Classes, NEW test, NEW res, NEW raw
    PROVE  DOMAIN Archive!Data(class, test, res, raw)
             \subseteq Archive!Declared(class, test, raw) \cup Missing(class, test)
  <1> DEFINE data == IF Archive!Succeeded(res) THEN Archive!AdditionalData(class, test, res)
                     ELSE Archive!Only("failures", None)
             types == Archive!TypesOf(class, test) \cup Missing(class, test)
  <1>1. DOMAIN data \subseteq types
    <2>1. DOMAIN Archive!Only("failures", None) = {"failures"}
      BY DEF Archive!Only
    <2>2. class = "raw" \/ "failures" \in Archive!TypesOf(class, test)
      BY FailuresDeclared DEF Classes
    <2>3. DOMAIN Archive!AdditionalData(class, test, res) \subseteq types
      BY AdditionalPoints
    <2>4. QED
      BY <2>1, <2>2, <2>3 DEF Missing
  <1>2. DOMAIN Archive!Data(class, test, res, raw)
          \subseteq DOMAIN data \cup {"pscheduler-run-href"}
                      \cup IF raw THEN {"pscheduler-raw"} ELSE {}
    BY DEF Archive!Data, Archive!++, Archive!Only, Archive!If
  <1> HIDE DEF data
  <1>3. QED
    BY <1>1, <1>2 DEF Archive!Declared

LEMMA DataTyped ==
    ASSUME NEW a \in Archiver, Archive!ClassOf(a) # "none"
    PROVE  DOMAIN Archive!DataOf(a) \subseteq Archive!TypesDeclared(a) \cup Archive!Undeclared(a)
  <1>1. Archive!ClassOf(a) \in Classes
    BY DEF Archive!ClassOf, Archive!Class, Classes
  <1>2. QED
    BY <1>1, DataPoints DEF Archive!DataOf, Archive!TypesDeclared, Archive!Undeclared, Missing,
       TcpTypes

\* What has been declared, and put under what was declared, is of some process; what is
\* answered to a process that could not store is what its failure is.
StoredInv ==
    /\ DOMAIN archiver = Archiver /\ DOMAIN answer = Archiver
    /\ \A a \in Archiver : archiver[a] # Archive!Idle => Archive!ClassOf(a) # "none"
    /\ \A k \in declared : \E a \in Archiver : k = Archive!TypesDeclared(a)
    /\ \A x \in stored : \E a, b \in Archiver :
          /\ x[1] = Archive!TypesDeclared(a)
          /\ x[2] \in DOMAIN Archive!DataOf(b) /\ Archive!ClassOf(b) # "none"
    /\ \A a \in Archiver :
          \/ answer[a] = None \/ answer[a].succeeded
          \/ answer[a] = Archive!Failure \/ Archive!ClassOf(a) = "none"

LEMMA StoredInit == Archive!EsmondInit => StoredInv
  BY DEF Archive!EsmondInit, StoredInv, Archive!Idle

LEMMA StoredStep == StoredInv /\ (Archive!EsmondNext \/ UNCHANGED evars) => StoredInv'
  <1> SUFFICES ASSUME StoredInv, Archive!EsmondNext \/ UNCHANGED evars PROVE StoredInv'
    OBVIOUS
  <1>0. /\ given' = given
        /\ \A a : /\ Archive!ClassOf(a)' = Archive!ClassOf(a)
                  /\ Archive!TypesDeclared(a)' = Archive!TypesDeclared(a)
                  /\ Archive!DataOf(a)' = Archive!DataOf(a)
        /\ Archive!Failure' = Archive!Failure
    <2>1. given' = given
      BY DEF Archive!EsmondNext, Archive!archive, Archive!Expire, Archive!Forget,
             Archive!Lookup, Archive!create_metadata, Archive!SetCache, Archive!create_data,
             Archive!DropKey, evars
    <2>2. QED
      BY <2>1 DEF Archive!ClassOf, Archive!TypesDeclared, Archive!DataOf, Archive!Failure
  <1> DEFINE Known(set) == \A k \in set : \E a \in Archiver : k = Archive!TypesDeclared(a)
             Put(set) == \A x \in set : \E a, b \in Archiver :
                            /\ x[1] = Archive!TypesDeclared(a)
                            /\ x[2] \in DOMAIN Archive!DataOf(b) /\ Archive!ClassOf(b) # "none"
             Answer(a, ans) == \/ ans = None \/ ans.succeeded
                               \/ ans = Archive!Failure \/ Archive!ClassOf(a) = "none"
  <1>1. ASSUME DOMAIN archiver' = Archiver, DOMAIN answer' = Archiver,
               \A a \in Archiver : archiver'[a] # Archive!Idle => Archive!ClassOf(a) # "none",
               Known(declared'), Put(stored'), \A a \in Archiver : Answer(a, answer'[a])
        PROVE  StoredInv'
    BY <1>0, <1>1 DEF StoredInv, Archive!Idle
  <1>2. /\ DOMAIN archiver = Archiver /\ DOMAIN answer = Archiver
        /\ \A a \in Archiver : archiver[a] # Archive!Idle => Archive!ClassOf(a) # "none"
        /\ Known(declared) /\ Put(stored) /\ \A a \in Archiver : Answer(a, answer[a])
    BY DEF StoredInv
  <1>3. ASSUME NEW a \in Archiver, NEW to, NEW key, Archive!Goto(a, to, key),
               Archive!ClassOf(a) # "none"
        PROVE  /\ DOMAIN archiver' = Archiver
               /\ \A b \in Archiver : archiver'[b] # Archive!Idle => Archive!ClassOf(b) # "none"
    BY <1>2, <1>3 DEF Archive!Goto
  <1>4. ASSUME NEW a \in Archiver, NEW ans, Archive!Return(a, ans), Answer(a, ans)
        PROVE  /\ DOMAIN archiver' = Archiver /\ DOMAIN answer' = Archiver
               /\ \A b \in Archiver : archiver'[b] # Archive!Idle => Archive!ClassOf(b) # "none"
               /\ \A b \in Archiver : Answer(b, answer'[b])
    <2> HIDE DEF Answer
    <2>1. QED
      BY <1>2, <1>4 DEF Archive!Return, Archive!Goto, Archive!Idle
  <1>5. \A a : Archive!ClassOf(a) = "none" => \A ans : Answer(a, ans)
    OBVIOUS
  <1>6. \A a : Answer(a, Archive!Done) /\ Answer(a, Archive!Failure) /\ Answer(a, None)
    BY DEF Archive!Done
  <1> HIDE DEF Answer
  <1>7. ASSUME NEW a \in Archiver, Archive!Lookup(a) PROVE StoredInv'
    <2>1. UNCHANGED <<declared, stored>>
      BY <1>7 DEF Archive!Lookup
    <2>2. CASE Archive!ClassOf(a) = "none"
      <3>1. Archive!Return(a, Archive!Refusal)
        BY <1>7, <2>2 DEF Archive!Lookup
      <3>2. QED
        BY <1>1, <1>2, <1>4, <1>5, <2>1, <2>2, <3>1
    <2>3. CASE Archive!ClassOf(a) # "none"
      <3>1. PICK to, key : Archive!Goto(a, to, key)
        BY <1>7, <2>3 DEF Archive!Lookup
      <3>2. answer' = [answer EXCEPT ![a] = None]
        BY <1>7, <2>3 DEF Archive!Lookup
      <3>3. DOMAIN answer' = Archiver /\ \A b \in Archiver : Answer(b, answer'[b])
        BY <1>2, <1>6, <3>2
      <3>4. QED
        BY <1>1, <1>2, <1>3, <2>1, <2>3, <3>1, <3>3
    <2>4. QED
      BY <2>2, <2>3
  <1>8. ASSUME NEW a \in Archiver, Archive!create_metadata(a) PROVE StoredInv'
    <2>1. archiver[a] # Archive!Idle /\ Archive!ClassOf(a) # "none" /\ UNCHANGED stored
      BY <1>2, <1>8 DEF Archive!create_metadata, Archive!Idle
    <2>2. Known(declared')
      BY <1>2, <1>8 DEF Archive!create_metadata
    <2>3. CASE \E to, key : Archive!Goto(a, to, key) /\ UNCHANGED answer
      BY <1>1, <1>2, <1>3, <2>1, <2>2, <2>3
    <2>4. CASE Archive!Return(a, Archive!Failure)
      BY <1>1, <1>2, <1>4, <1>6, <2>1, <2>2, <2>4
    <2>5. QED
      BY <1>8, <2>3, <2>4 DEF Archive!create_metadata
  <1>9. ASSUME NEW a \in Archiver, Archive!SetCache(a) PROVE StoredInv'
    <2>1. archiver[a] # Archive!Idle /\ Archive!ClassOf(a) # "none"
      BY <1>2, <1>9 DEF Archive!SetCache, Archive!Idle
    <2>2. UNCHANGED <<declared, stored, answer>> /\ Archive!Goto(a, "put", archiver[a].key)
      BY <1>9 DEF Archive!SetCache
    <2>3. QED
      BY <1>1, <1>2, <1>3, <2>1, <2>2
  <1>10. ASSUME NEW a \in Archiver, Archive!create_data(a) PROVE StoredInv'
    <2>1. archiver[a] # Archive!Idle /\ Archive!ClassOf(a) # "none" /\ UNCHANGED declared
      BY <1>2, <1>10 DEF Archive!create_data, Archive!Idle
    <2>2. CASE /\ archiver[a].key \in declared
               /\ stored' = {archiver[a].key} \X DOMAIN Archive!DataOf(a)
               /\ Archive!Return(a, Archive!Done)
      <3>1. Put(stored')
        BY <1>2, <2>1, <2>2
      <3>2. QED
        BY <1>1, <1>2, <1>4, <1>6, <2>1, <2>2, <3>1
    <2>3. CASE Archive!Goto(a, "drop", archiver[a].key) /\ UNCHANGED <<stored, answer>>
      BY <1>1, <1>2, <1>3, <2>1, <2>3
    <2>4. QED
      BY <1>10, <2>2, <2>3 DEF Archive!create_data
  <1>11. ASSUME NEW a \in Archiver, Archive!DropKey(a) PROVE StoredInv'
    BY <1>1, <1>2, <1>4, <1>6, <1>11 DEF Archive!DropKey
  <1>12. CASE Archive!Expire \/ Archive!Forget \/ UNCHANGED evars
    <2>1. UNCHANGED <<archiver, answer, stored>> /\ declared' \in {declared, {}}
      BY <1>12 DEF Archive!Expire, Archive!Forget, evars
    <2>2. QED
      BY <1>1, <1>2, <2>1
  <1>13. QED
    BY <1>7, <1>8, <1>9, <1>10, <1>11, <1>12 DEF Archive!EsmondNext, Archive!archive

\* What is archived has been declared.
LEMMA TypesDoFit == StoredInv => Archive!TypesFit
  <1> SUFFICES ASSUME StoredInv PROVE Archive!TypesFit
    OBVIOUS
  <1>1. \A a \in Archiver : Archive!ClassOf(a) # "none" =>
          DOMAIN Archive!DataOf(a) \subseteq Archive!TypesDeclared(a) \cup Archive!Undeclared(a)
    BY DataTyped
  <1>2. ASSUME NEW a \in Archiver, \A b, c \in Archiver : given.policy[b] = given.policy[c],
               NEW x \in stored
        PROVE  x[2] \in x[1] \cup Archive!Undeclared(a)
    <2>1. PICK b, c \in Archiver : /\ x[1] = Archive!TypesDeclared(b)
                                   /\ x[2] \in DOMAIN Archive!DataOf(c)
                                   /\ Archive!ClassOf(c) # "none"
      BY DEF StoredInv
    <2>2. Archive!ClassOf(a) = Archive!ClassOf(c) /\ Archive!TypesDeclared(b) = Archive!TypesDeclared(c)
      BY <1>2 DEF Archive!ClassOf, Archive!TypesDeclared
    <2>3. Archive!Undeclared(a) = Archive!Undeclared(c)
      BY <2>2 DEF Archive!Undeclared
    <2>4. QED
      BY <1>1, <2>1, <2>2, <2>3
  <1>3. QED
    BY <1>1, <1>2 DEF Archive!TypesFit

----------------------------------------------------------------------------
(* The waits of a retry policy.                                            *)

IsPolicy(policy) ==
    /\ Len(policy) \in Nat /\ DOMAIN policy = 1 .. Len(policy)
    /\ \A n \in 1 .. Len(policy) : policy[n].attempts \in Nat

AttemptsAre(policy, f) ==
    /\ f \in [0 .. Len(policy) -> Nat] /\ f[0] = 0
    /\ \A n \in 1 .. Len(policy) : f[n] = f[n - 1] + policy[n].attempts

LEMMA AttemptsIs ==
    ASSUME NEW policy, IsPolicy(policy)
    PROVE  AttemptsAre(policy, Archive!Attempts(policy))
  <1> DEFINE N == Len(policy)
             step == [n \in 1 .. N |-> [x \in Nat |-> x + policy[n].attempts]]
             Is(f) == f = [n \in 0 .. N |-> IF n = 0 THEN 0 ELSE f[n - 1] + policy[n].attempts]
             sum == CHOOSE f : Is(f)
  <1>1. N \in Nat /\ \A n \in 1 .. N : policy[n].attempts \in Nat
    BY DEF IsPolicy
  <1>2. Within(N, Nat, step) /\ 0 \in Nat
        /\ \A n \in 1 .. N, x \in Nat : step[n][x] = x + policy[n].attempts
    BY <1>1 DEF Within
  <1> HIDE DEF N
  <1>3. PICK f : Recurs(N, Nat, 0, step, f)
    <2> HIDE DEF step
    <2>1. QED
      BY <1>1, <1>2, Recursion
  <1>4. Is(f)
    <2> HIDE DEF step
    <2>1. f \in [0 .. N -> Nat] /\ f[0] = 0 /\ \A n \in 1 .. N : f[n] = step[n][f[n - 1]]
      BY <1>3 DEF Recurs
    <2>2. \A n \in 1 .. N : f[n - 1] \in Nat
      BY <1>1, <2>1
    <2>3. \A n \in 1 .. N : f[n] = f[n - 1] + policy[n].attempts
      BY <1>2, <2>1, <2>2
    <2>4. f = [n \in 0 .. N |-> f[n]]
      BY <2>1
    <2>5. \A n \in 0 .. N : f[n] = IF n = 0 THEN 0 ELSE f[n - 1] + policy[n].attempts
      BY <1>1, <2>1, <2>3
    <2>6. QED
      BY <2>4, <2>5, Zenon
  <1>5. Is(sum)
    <2> HIDE DEF Is
    <2>1. QED
      BY <1>4, Zenon
  <1>6. Archive!Attempts(policy) = sum
    BY Zenon DEF Archive!Attempts, N
  <1> HIDE DEF sum
  <1>7. sum[0] = 0 /\ \A n \in 1 .. N : sum[n] = sum[n - 1] + policy[n].attempts
    <2>1. \A n \in 0 .. N : sum[n] = IF n = 0 THEN 0 ELSE sum[n - 1] + policy[n].attempts
      BY <1>5, Zenon
    <2>2. 0 \in 0 .. N /\ \A n \in 1 .. N : n \in 0 .. N /\ n # 0
      BY <1>1
    <2>3. QED
      BY <2>1, <2>2
  <1> DEFINE Holds == {n \in 0 .. N : sum[n] \in Nat}
  <1>8. 0 \in Holds
    BY <1>1, <1>7
  <1>9. ASSUME NEW n \in 0 .. N - 1, n \in Holds PROVE n + 1 \in Holds
    <2>1. n + 1 \in 1 .. N /\ (n + 1) - 1 = n /\ n + 1 \in 0 .. N
      BY <1>1
    <2>2. sum[n + 1] = sum[n] + policy[n + 1].attempts
      BY <1>7, <2>1
    <2>3. QED
      BY <1>1, <1>9, <2>1, <2>2
  <1>10. 0 .. N \subseteq Holds
    <2> HIDE DEF Holds
    <2>1. QED
      BY <1>1, <1>8, <1>9, Inductive
  <1>11. sum = [n \in 0 .. N |-> sum[n]]
    BY <1>5
  <1>12. sum \in [0 .. N -> Nat]
    BY <1>10, <1>11
  <1>13. QED
    BY <1>6, <1>7, <1>12 DEF AttemptsAre, N

\* The waits of the first segments, up to each: those of every segment are where its
\* attempts are.
WaitsAre(policy, A, n, w) ==
    /\ w[n] \in Seq({policy[m].wait : m \in 1 .. Len(policy)}) /\ Len(w[n]) = A[n]
    /\ \A m \in 0 .. n : A[m] <= A[n]
    /\ \A m \in 1 .. n : \A i \in A[m - 1] + 1 .. A[m] : w[n][i] = policy[m].wait

LEMMA WaitsOf ==
    ASSUME NEW policy, IsPolicy(policy)
    PROVE  \E w : /\ Archive!Waits(policy) = w[Len(policy)]
                  /\ WaitsAre(policy, Archive!Attempts(policy), Len(policy), w)
  <1> DEFINE N == Len(policy)
             A == Archive!Attempts(policy)
             W == {policy[m].wait : m \in 1 .. N}
             V == Seq(W)
             New(n) == [i \in 1 .. policy[n].attempts |-> policy[n].wait]
             step == [n \in 1 .. N |-> [x \in V |-> x \o New(n)]]
             Is(f) == f = [n \in 0 .. N |-> IF n = 0 THEN <<>> ELSE f[n - 1] \o New(n)]
             waits == CHOOSE f : Is(f)
  <1>1. N \in Nat /\ \A n \in 1 .. N : policy[n].attempts \in Nat /\ policy[n].wait \in W
    BY DEF IsPolicy
  <1>2. AttemptsAre(policy, A)
    BY AttemptsIs
  <1> HIDE DEF A
  <1>3. A \in [0 .. N -> Nat] /\ A[0] = 0 /\ \A n \in 1 .. N : A[n] = A[n - 1] + policy[n].attempts
    BY <1>2 DEF AttemptsAre
  <1>4. \A n \in 1 .. N : New(n) \in V /\ Len(New(n)) = policy[n].attempts
    <2> HIDE DEF W
    <2>1. QED
      BY <1>1
  <1>5. Within(N, V, step) /\ <<>> \in V
    <2>1. ASSUME NEW n \in 1 .. N, NEW x \in V PROVE step[n][x] \in V
      <3> HIDE DEF New, W
      <3>1. x \o New(n) \in V
        BY <1>4, ConcatProperties
      <3>2. QED
        BY <3>1
    <2>2. <<>> \in V
      OBVIOUS
    <2> HIDE DEF V, step
    <2>3. QED
      BY <2>1, <2>2 DEF Within
  <1>6. \A n \in 1 .. N, x \in V : step[n][x] = x \o New(n)
    <2> HIDE DEF New, V
    <2>1. QED
      OBVIOUS
  <1> HIDE DEF N, V, New
  <1>7. PICK f : Recurs(N, V, <<>>, step, f)
    <2> HIDE DEF step
    <2>1. QED
      BY <1>1, <1>5, Recursion
  <1>8. Is(f)
    <2> HIDE DEF step
    <2>1. f \in [0 .. N -> V] /\ f[0] = <<>> /\ \A n \in 1 .. N : f[n] = step[n][f[n - 1]]
      BY <1>7 DEF Recurs
    <2>2. \A n \in 1 .. N : f[n - 1] \in V
      BY <1>1, <2>1
    <2>3. \A n \in 1 .. N : f[n] = f[n - 1] \o New(n)
      BY <1>6, <2>1, <2>2, Zenon
    <2>4. f = [n \in 0 .. N |-> f[n]]
      BY <2>1
    <2>5. \A n \in 0 .. N : f[n] = IF n = 0 THEN <<>> ELSE f[n - 1] \o New(n)
      BY <1>1, <2>1, <2>3
    <2>6. QED
      BY <2>4, <2>5, Zenon
  <1>9. Is(waits)
    <2> HIDE DEF Is
    <2>1. QED
      BY <1>8, Zenon
  <1>10. Archive!Waits(policy) = waits[N]
    BY Zenon DEF Archive!Waits, N, New
  <1> HIDE DEF waits
  <1>11. waits[0] = <<>> /\ \A n \in 1 .. N : waits[n] = waits[n - 1] \o New(n)
    <2>1. \A n \in 0 .. N : waits[n] = IF n = 0 THEN <<>> ELSE waits[n - 1] \o New(n)
      BY <1>9, Zenon
    <2>2. 0 \in 0 .. N /\ \A n \in 1 .. N : n \in 0 .. N /\ n # 0
      BY <1>1
    <2>3. QED
      BY <2>1, <2>2, Zenon
  <1> DEFINE Good(n) == /\ waits[n] \in V /\ Len(waits[n]) = A[n]
                        /\ \A m \in 0 .. n : A[m] <= A[n]
                        /\ \A m \in 1 .. n : \A i \in A[m - 1] + 1 .. A[m] :
                              waits[n][i] = policy[m].wait
             Holds == {n \in 0 .. N : Good(n)}
  <1>12. 0 \in Holds
    <2>1. Len(waits[0]) = 0 /\ waits[0] \in V
      BY <1>5, <1>11
    <2>2. QED
      BY <1>1, <1>3, <2>1
  <1>13. ASSUME NEW n \in 0 .. N - 1, n \in Holds PROVE n + 1 \in Holds
    <2>1. n + 1 \in 1 .. N /\ (n + 1) - 1 = n /\ n + 1 \in 0 .. N /\ n \in 0 .. N
      BY <1>1
    <2>2. waits[n + 1] = waits[n] \o New(n + 1) /\ A[n + 1] = A[n] + policy[n + 1].attempts
      BY <1>3, <1>11, <2>1, Zenon
    <2>3. waits[n] \in V /\ Len(waits[n]) = A[n] /\ A[n] \in Nat /\ policy[n + 1].attempts \in Nat
      BY <1>1, <1>3, <1>13, <2>1
    <2>4. New(n + 1) \in V /\ Len(New(n + 1)) = policy[n + 1].attempts
      BY <1>4, <2>1
    <2>5. /\ waits[n + 1] \in V /\ Len(waits[n + 1]) = A[n + 1]
          /\ \A i \in 1 .. A[n] : waits[n + 1][i] = waits[n][i]
          /\ \A i \in A[n] + 1 .. A[n + 1] : waits[n + 1][i] = New(n + 1)[i - A[n]]
      <3>1. /\ waits[n] \o New(n + 1) \in V
            /\ Len(waits[n] \o New(n + 1)) = Len(waits[n]) + Len(New(n + 1))
            /\ \A i \in 1 .. Len(waits[n]) + Len(New(n + 1)) :
                 (waits[n] \o New(n + 1))[i] = IF i <= Len(waits[n]) THEN waits[n][i]
                                              ELSE New(n + 1)[i - Len(waits[n])]
        BY <2>3, <2>4, ConcatProperties, Zenon DEF V
      <3> DEFINE both == waits[n] \o New(n + 1)
      <3>2. waits[n + 1] = both
        BY <2>2
      <3>3. /\ both \in V /\ Len(both) = A[n + 1]
            /\ \A i \in 1 .. A[n + 1] : both[i] = IF i <= A[n] THEN waits[n][i] ELSE New(n + 1)[i - A[n]]
        BY <2>2, <2>3, <2>4, <3>1, Zenon
      <3> HIDE DEF both
      <3>4. 1 .. A[n] \subseteq 1 .. A[n + 1] /\ A[n] + 1 .. A[n + 1] \subseteq 1 .. A[n + 1]
            /\ \A i \in A[n] + 1 .. A[n + 1] : ~(i <= A[n])
        <4>1. A[n + 1] = A[n] + policy[n + 1].attempts
          BY <2>2
        <4>2. QED
          BY <2>3, <4>1
      <3>5. QED
        BY <3>2, <3>3, <3>4
    <2>6. \A i \in A[n] + 1 .. A[n + 1] : waits[n + 1][i] = policy[n + 1].wait
      <3>1. A[n + 1] = A[n] + policy[n + 1].attempts
        BY <2>2
      <3>2. \A i \in A[n] + 1 .. A[n + 1] : i - A[n] \in 1 .. policy[n + 1].attempts
        BY <2>3, <3>1
      <3>3. \A i \in 1 .. policy[n + 1].attempts : New(n + 1)[i] = policy[n + 1].wait
        BY DEF New
      <3>4. QED
        BY <2>5, <3>2, <3>3
    <2>7. \A m \in 0 .. n + 1 : A[m] <= A[n + 1]
      <3>1. \A m \in 0 .. n : A[m] <= A[n] /\ A[m] \in Nat
        BY <1>1, <1>3, <1>13
      <3>2. QED
        BY <2>1, <2>2, <2>3, <3>1
    <2>8. ASSUME NEW m \in 1 .. n + 1, NEW i \in A[m - 1] + 1 .. A[m]
          PROVE  waits[n + 1][i] = policy[m].wait
      <3>1. CASE m = n + 1
        BY <2>1, <2>6, <3>1
      <3>2. CASE m \in 1 .. n
        <4>1. waits[n][i] = policy[m].wait
          BY <1>13, <3>2
        <4>2. A[m] <= A[n] /\ A[m] \in Nat /\ A[m - 1] \in Nat
          <5>1. m \in 0 .. n /\ m \in 0 .. N /\ m - 1 \in 0 .. N
            BY <1>1, <3>2
          <5>2. QED
            BY <1>3, <1>13, <5>1
        <4>3. i \in 1 .. A[n]
          BY <2>3, <4>2
        <4>4. QED
          BY <2>5, <4>1, <4>3
      <3>3. QED
        BY <2>1, <3>1, <3>2
    <2>9. QED
      BY <2>1, <2>5, <2>7, <2>8
  <1>14. 0 .. N \subseteq Holds
    <2> HIDE DEF Holds
    <2>1. QED
      BY <1>1, <1>12, <1>13, Inductive, Zenon
  <1>15. Good(N)
    BY <1>1, <1>14
  <1>16. QED
    BY <1>10, <1>15, Zenon DEF WaitsAre, A, N, V

LEMMA WaitIs ==
    ASSUME NEW policy, IsPolicy(policy), NEW k \in Nat
    PROVE  LET past == {n \in 1 .. Len(policy) : Archive!Attempts(policy)[n] > k} IN
           Archive!WaitAfter(policy, k) = IF past = {} THEN None ELSE policy[Archive!Min(past)].wait
  <1> DEFINE N == Len(policy)
             A == Archive!Attempts(policy)
             past == {n \in 1 .. N : A[n] > k}
             waits == Archive!Waits(policy)
  <1>1. N \in Nat
    BY DEF IsPolicy
  <1>2. A \in [0 .. N -> Nat] /\ A[0] = 0
    BY AttemptsIs DEF AttemptsAre
  <1>3. /\ Len(waits) = A[N]
        /\ \A m \in 0 .. N : A[m] <= A[N]
        /\ \A m \in 1 .. N : \A i \in A[m - 1] + 1 .. A[m] : waits[i] = policy[m].wait
    BY WaitsOf, Zenon DEF WaitsAre
  <1> HIDE DEF N, A, waits
  <1>4. Archive!WaitAfter(policy, k) = IF k < A[N] THEN waits[k + 1] ELSE None
    BY <1>3 DEF Archive!WaitAfter, waits
  <1>5. CASE past = {}
    <2>1. A[N] <= k
      BY <1>1, <1>2, <1>5
    <2>2. QED
      BY <1>1, <1>2, <1>4, <1>5, <2>1 DEF N, A
  <1>6. CASE past # {}
    <2>1. PICK n \in past : \A m \in past : n <= m
      <3>1. past \subseteq Nat
        BY <1>1
      <3> HIDE DEF past
      <3>2. QED
        BY <1>6, <3>1, Least, Zenon
    <2> DEFINE m == Archive!Min(past)
    <2>2. m \in past /\ \A j \in past : m <= j
      <3> HIDE DEF past
      <3>1. QED
        BY <2>1 DEF Archive!Min
    <2> HIDE DEF m
    <2>3. m \in 1 .. N /\ A[m] > k /\ m - 1 \in 0 .. N /\ m \in 0 .. N
      BY <1>1, <2>2
    <2>4. A[m - 1] <= k
      <3>1. m - 1 \notin past
        BY <2>2, <2>3
      <3>2. CASE m = 1
        BY <1>2, <3>2
      <3>3. CASE m - 1 \in 1 .. N
        BY <1>2, <2>3, <3>1, <3>3
      <3>4. QED
        BY <2>3, <3>2, <3>3
    <2>5. A[m] <= A[N] /\ A[m] \in Nat /\ A[N] \in Nat /\ A[m - 1] \in Nat
      BY <1>1, <1>2, <1>3, <2>3
    <2>6. k < A[N] /\ k + 1 \in A[m - 1] + 1 .. A[m]
      BY <2>3, <2>4, <2>5
    <2>7. waits[k + 1] = policy[m].wait
      BY <1>3, <2>3, <2>6
    <2>8. QED
      BY <1>4, <1>6, <2>6, <2>7 DEF m, N, A
  <1>7. QED
    BY <1>5, <1>6 DEF N, A

LEMMA AnswersDoFit ==
    ASSUME StoredInv, IsPolicy(given.retry), given.attempts \in Nat
    PROVE  Archive!AnswersFit
  <1> DEFINE policy == given.retry
             k == given.attempts
             A == Archive!Attempts(policy)
             past == {n \in 1 .. Len(policy) : A[n] > k}
  <1>1. DOMAIN policy = 1 .. Len(policy) /\ Len(policy) \in Nat
    BY DEF IsPolicy
  <1>2. \A n \in 1 .. Len(policy) : A[n] \in Nat
    <2>1. AttemptsAre(policy, A)
      BY AttemptsIs
    <2> HIDE DEF A
    <2>2. QED
      BY <1>1, <2>1 DEF AttemptsAre
  <1>3. Archive!WaitAfter(policy, k) = IF past = {} THEN None ELSE policy[Archive!Min(past)].wait
    BY WaitIs, Zenon
  <1>4. Archive!retry(policy, k) = Archive!WaitAfter(policy, k)
    <2>1. {n \in DOMAIN policy : k - A[n] < 0} = past
      BY <1>1, <1>2
    <2> HIDE DEF past
    <2>2. QED
      BY <1>3, <2>1, Zenon DEF Archive!retry
  <1>5. Archive!Failure.retry = Archive!WaitAfter(policy, k)
    <2>1. {n \in DOMAIN policy : A[n] > k} = past
      BY <1>1
    <2> HIDE DEF past
    <2>2. QED
      BY <1>3, <2>1, Zenon DEF Archive!Failure, Archive!handle_storage_error
  <1>6. QED
    BY <1>4, <1>5 DEF Archive!AnswersFit, StoredInv

LEMMA Datum ==
    ASSUME NEW class, NEW test, NEW res, NEW raw,
           NEW type \in DOMAIN Archive!Data(class, test, res, raw),
           type \notin {"failures", "pscheduler-run-href", "pscheduler-raw"}
    PROVE  /\ Archive!Succeeded(res) /\ type \in DOMAIN Archive!AdditionalData(class, test, res)
           /\ Archive!Data(class, test, res, raw)[type]
                = Archive!AdditionalData(class, test, res)[type]
  BY DEF Archive!Data, Archive!++, Archive!Only, Archive!If

\* No class but its own has a type of data.
LEMMA TypesApart ==
    ASSUME NEW class \in Classes, NEW test, NEW res, NEW type
    PROVE  type \in DOMAIN Archive!AdditionalData(class, test, res) =>
               /\ type = "histogram-rtt" => class = "rtt"
               /\ type = "packet-trace" => class = "trace"
  <1>1. DOMAIN Archive!AdditionalData(class, test, res)
          \subseteq Archive!TypesOf(class, test) \cup Missing(class, test)
    BY AdditionalPoints
  <1>2. CASE class \in {"latency", "latencybg"}
    BY <1>1, <1>2, ClassIs DEF Archive!LatencyTypes, Missing, TcpTypes
  <1>3. CASE class = "rtt"
    BY <1>1, <1>3, ClassIs DEF Archive!RTTTypes, Missing, TcpTypes
  <1>4. CASE class = "trace"
    BY <1>1, <1>4, ClassIs DEF Archive!TraceTypes, Missing, TcpTypes
  <1>5. CASE class = "throughput"
    BY <1>1, <1>5, ClassIs DEF Archive!ThroughputTypes, Missing, TcpTypes
  <1>6. CASE class = "disk-to-disk"
    BY <1>1, <1>6, ClassIs DEF Missing, TcpTypes
  <1>7. CASE class = "raw"
    BY <1>1, <1>7, ClassIs DEF Missing, TcpTypes
  <1>8. QED
    BY <1>2, <1>3, <1>4, <1>5, <1>6, <1>7 DEF Classes, Archive!Mapped

\* The library's modules are of the same finite sets.
LEMMA SameCardinality ==
    \A S : Archive!Cardinality(S) = Cardinality(S) /\ Archive!IsFiniteSet(S) = IsFiniteSet(S)
  BY Zenon DEF Archive!Cardinality, Cardinality, Archive!IsFiniteSet, IsFiniteSet

LEMMA HistogramCounts ==
    ASSUME NEW c, NEW n \in Nat, DOMAIN c = 1 .. n, NEW out
    PROVE  Archive!Counted(Archive!Histogram(c, out)) = Cardinality({i \in DOMAIN c : c[i] \notin out})
  <1> DEFINE Where(k, v) == {i \in 1 .. k : c[i] = v}
             Area(k) == UNION {{v} \X (1 .. Cardinality(Where(k, v))) : v \in Archive!ToSet(c) \ out}
             There(k) == {i \in 1 .. k : c[i] \notin out}
  <1>1. \A k \in 0 .. n : \A v : IsFiniteSet(Where(k, v)) /\ Cardinality(Where(k, v)) \in Nat
    <2> TAKE k \in 0 .. n
    <2> TAKE v
    <2>1. IsFiniteSet(1 .. k)
      BY FS_Interval
    <2>2. Where(k, v) \in SUBSET (1 .. k)
      OBVIOUS
    <2> HIDE DEF Where
    <2>3. QED
      BY <2>1, <2>2, FS_Subset, FS_CardinalityType
  <1>2. \A k \in 0 .. n : IsFiniteSet(There(k)) /\ Cardinality(There(k)) \in Nat
    <2> TAKE k \in 0 .. n
    <2>1. IsFiniteSet(1 .. k)
      BY FS_Interval
    <2>2. There(k) \in SUBSET (1 .. k)
      OBVIOUS
    <2> HIDE DEF There
    <2>3. QED
      BY <2>1, <2>2, FS_Subset, FS_CardinalityType
  <1>3. ASSUME NEW k \in 0 .. n - 1, NEW v, v # c[k + 1] PROVE Where(k + 1, v) = Where(k, v)
    BY <1>3
  <1>4. ASSUME NEW k \in 0 .. n - 1
        PROVE  Cardinality(Where(k + 1, c[k + 1])) = Cardinality(Where(k, c[k + 1])) + 1
    <2> DEFINE v == c[k + 1]
    <2>1. Where(k + 1, v) = Where(k, v) \cup {k + 1} /\ k + 1 \notin Where(k, v)
      OBVIOUS
    <2>2. IsFiniteSet(Where(k, v))
      <3>1. k \in 0 .. n
        OBVIOUS
      <3> HIDE DEF Where
      <3>2. QED
        BY <1>1, <3>1
    <2> HIDE DEF Where
    <2>3. QED
      BY <2>1, <2>2, FS_AddElement
  <1> DEFINE Same(k) == IsFiniteSet(Area(k)) /\ Cardinality(Area(k)) = Cardinality(There(k))
             Holds == {k \in 0 .. n : Same(k)}
  <1>5. 0 \in Holds
    <2>1. \A v : Where(0, v) = {}
      OBVIOUS
    <2>2. \A v : {v} \X (1 .. Cardinality(Where(0, v))) = {}
      <3> HIDE DEF Where
      <3>1. \A v : Cardinality(Where(0, v)) = 0
        BY <2>1, FS_EmptySet
      <3>2. 1 .. 0 = {}
        OBVIOUS
      <3>3. QED
        BY <3>1, <3>2
    <2>3. Area(0) = {}
      <3> HIDE DEF Where
      <3>1. QED
        BY <2>2
    <2>4. There(0) = {}
      OBVIOUS
    <2> HIDE DEF Area, There
    <2>5. QED
      BY <2>3, <2>4, FS_EmptySet
  <1>6. ASSUME NEW k \in 0 .. n - 1, k \in Holds PROVE k + 1 \in Holds
    <2> DEFINE v == c[k + 1]
               count == Cardinality(Where(k, v))
    <2>1. k + 1 \in 1 .. n /\ k \in 0 .. n /\ k + 1 \in 0 .. n
      OBVIOUS
    <2>2. count \in Nat
      <3> HIDE DEF Where
      <3>1. QED
        BY <1>1, <2>1
    <2>3. CASE v \in out
      <3>1. There(k + 1) = There(k)
        BY <2>3
      <3>2. Area(k + 1) = Area(k)
        <4>1. \A w \in Archive!ToSet(c) \ out : Where(k + 1, w) = Where(k, w)
          <5> HIDE DEF Where
          <5>1. QED
            BY <1>3, <2>3
        <4> HIDE DEF Where
        <4>2. QED
          BY <4>1
      <3> HIDE DEF Area, There
      <3>3. QED
        BY <1>6, <2>1, <3>1, <3>2
    <2>4. CASE v \notin out
      <3>1. There(k + 1) = There(k) \cup {k + 1} /\ k + 1 \notin There(k)
        BY <2>4
      <3>2. Area(k + 1) = Area(k) \cup {<<v, count + 1>>} /\ <<v, count + 1>> \notin Area(k)
        <4>1. \A w : w # v => Where(k + 1, w) = Where(k, w)
          <5> HIDE DEF Where
          <5>1. QED
            BY <1>3
        <4>2. Cardinality(Where(k + 1, v)) = count + 1
          BY <1>4, Zenon
        <4>3. v \in Archive!ToSet(c) \ out
          BY <2>1, <2>4 DEF Archive!ToSet
        <4> DEFINE values == Archive!ToSet(c) \ out
                   Row(j, w) == {w} \X (1 .. Cardinality(Where(j, w)))
        <4>4. Row(k + 1, v) = Row(k, v) \cup {<<v, count + 1>>}
          <5>1. 1 .. count + 1 = (1 .. count) \cup {count + 1}
            <6> HIDE DEF count
            <6>1. QED
              BY <2>2
          <5> HIDE DEF Where, v
          <5>2. QED
            BY <4>2, <5>1
        <4>5. \A w : w # v => Row(k + 1, w) = Row(k, w)
          <5> HIDE DEF Where, v
          <5>1. QED
            BY <4>1
        <4>6. \A w : <<v, count + 1>> \notin Row(k, w)
          <5>1. count + 1 \notin 1 .. count
            <6> HIDE DEF count
            <6>1. QED
              BY <2>2
          <5> HIDE DEF Where, v
          <5>2. QED
            BY <5>1
        <4>7. Area(k + 1) = UNION {Row(k + 1, w) : w \in values} /\ Area(k) = UNION {Row(k, w) : w \in values}
          OBVIOUS
        <4> DEFINE point == <<v, count + 1>>
        <4>8. v \in values
          BY <4>3
        <4> HIDE DEF Area, Row, v, values, point
        <4>9. Row(k + 1, v) = Row(k, v) \cup {point} /\ \A w : point \notin Row(k, w)
          BY <4>4, <4>6, Zenon DEF point
        <4>10. Area(k + 1) = Area(k) \cup {point} /\ point \notin Area(k)
          BY <4>5, <4>7, <4>8, <4>9
        <4>11. QED
          BY <4>10 DEF point
      <3>3. IsFiniteSet(There(k)) /\ IsFiniteSet(Area(k)) /\ Cardinality(Area(k)) = Cardinality(There(k))
        <4> HIDE DEF Area, There
        <4>1. QED
          BY <1>2, <1>6, <2>1
      <3> DEFINE point == <<v, count + 1>>
      <3>4. Area(k + 1) = Area(k) \cup {point} /\ point \notin Area(k)
        BY <3>2, Zenon
      <3> HIDE DEF Area, There, point
      <3>5. IsFiniteSet(Area(k + 1)) /\ Cardinality(Area(k + 1)) = Cardinality(Area(k)) + 1
        BY <3>3, <3>4, FS_AddElement
      <3>6. Cardinality(There(k + 1)) = Cardinality(There(k)) + 1
        BY <3>1, <3>3, FS_AddElement
      <3>7. QED
        BY <2>1, <3>3, <3>5, <3>6
    <2>5. QED
      BY <2>3, <2>4, Zenon
  <1>7. 0 .. n \subseteq Holds
    <2> HIDE DEF Holds
    <2>1. QED
      BY <1>5, <1>6, Inductive
  <1>8. Cardinality(Area(n)) = Cardinality(There(n))
    <2> HIDE DEF Area, There
    <2>1. QED
      BY <1>7
  <1>9. Archive!Counted(Archive!Histogram(c, out)) = Cardinality(Area(n))
    <2> DEFINE values == Archive!ToSet(c) \ out
               h == Archive!Histogram(c, out)
    <2>1. DOMAIN h = values /\ \A v \in values : h[v] = Cardinality(Where(n, v))
      <3>1. \A v : {i \in DOMAIN c : c[i] = v} = Where(n, v)
        OBVIOUS
      <3> HIDE DEF Where
      <3>2. h = [v \in values |-> Archive!Cardinality({i \in DOMAIN c : c[i] = v})]
        BY Zenon DEF Archive!Histogram
      <3> HIDE DEF h, values
      <3>3. QED
        BY <3>1, <3>2, SameCardinality
    <2> HIDE DEF values, h, Where
    <2>2. UNION {{v} \X (1 .. h[v]) : v \in DOMAIN h} = UNION {{v} \X (1 .. Cardinality(Where(n, v))) : v \in values}
      BY <2>1
    <2>3. Archive!Counted(h) = Cardinality(UNION {{v} \X (1 .. Cardinality(Where(n, v))) : v \in values})
      <3>1. Archive!Counted(h) = Archive!Cardinality(UNION {{v} \X (1 .. h[v]) : v \in DOMAIN h})
        BY Zenon DEF Archive!Counted
      <3>2. QED
        BY <2>2, <3>1, SameCardinality, Zenon
    <2>4. QED
      BY <2>3 DEF h, values
  <1>10. QED
    BY <1>8, <1>9

LEMMA HistogramFits ==
    ASSUME NEW res, Archive!IsList(Archive!Roundtrips(res)),
           \A trip \in Archive!ToSet(Archive!Roundtrips(res)) :
               Archive!Has(trip, "rtt") => trip["rtt"] \in Nat,
           "histogram-rtt" \in DOMAIN Archive!RTTData(res)
    PROVE  Archive!Counted(Archive!RTTData(res)["histogram-rtt"])
             = Cardinality({i \in DOMAIN Archive!Roundtrips(res) :
                              Archive!Has(Archive!Roundtrips(res)[i], "rtt")})
  <1> DEFINE trips == Archive!Roundtrips(res)
             c == Archive!Column(trips, "rtt", 10)
             h == Archive!Histogram(c, {None})
  <1>1. \A f \in DOMAIN Archive!RTTMap : Archive!RTTMap[f] # "histogram-rtt"
    BY DEF Archive!RTTMap, Archive!Only, Archive!++
  <1>2. "histogram-rtt" \notin DOMAIN Archive!AddMapped(Archive!RTTMap, res)
    BY <1>1, MappedPoints
  <1>3. Archive!RTTData(res)["histogram-rtt"] = h
    <2> DEFINE Points(type, histogram) ==
                   Archive!If(DOMAIN histogram # {}, Archive!Only(type, histogram))
               ttl == Archive!Histogram(Archive!Column(trips, "ttl", 1), {None, 0})
               rate == Archive!add_data_rate("packet-loss-rate-bidir", res, "lost", "sent")
               mapped == Archive!AddMapped(Archive!RTTMap, res)
               mine == Points("histogram-rtt", h)
               other == Points("histogram-ttl-reverse", ttl)
    <2>1. Archive!RTTData(res)
            = Archive!++(Archive!++(Archive!++(mapped, mine), other), rate)
      BY Zenon DEF Archive!RTTData
    <2>2. "histogram-rtt" \in DOMAIN mine => mine["histogram-rtt"] = h
      <3> HIDE DEF h
      <3>1. QED
        BY DEF Archive!If, Archive!Only
    <2>3. "histogram-rtt" \notin DOMAIN other
      BY DEF Archive!If, Archive!Only
    <2>4. "histogram-rtt" \notin DOMAIN rate
      BY PointsOf
    <2> HIDE DEF mapped, mine, other, rate, h
    <2>5. QED
      BY <1>2, <2>1, <2>2, <2>3, <2>4 DEF mapped, Archive!++
  <1>4. Len(trips) \in Nat /\ DOMAIN trips = 1 .. Len(trips)
    BY LenProperties DEF Archive!IsList
  <1>5. DOMAIN c = 1 .. Len(trips)
        /\ \A i \in DOMAIN trips : c[i] # None <=> Archive!Has(trips[i], "rtt")
    <2>1. \A i \in DOMAIN trips : Archive!Has(trips[i], "rtt") => trips[i]["rtt"] \in Nat
      <3>1. \A i \in DOMAIN trips : trips[i] \in Archive!ToSet(trips)
        BY DEF Archive!ToSet
      <3> HIDE DEF trips
      <3>2. QED
        BY <3>1 DEF trips
    <2> HIDE DEF trips
    <2>2. \A n \in Nat : (n + 10 \div 2) \div 10 \in Int
      OBVIOUS
    <2>3. \A i \in DOMAIN trips : c[i] =
            IF Archive!Has(trips[i], "rtt") THEN (trips[i]["rtt"] + 10 \div 2) \div 10 ELSE None
      BY Zenon DEF Archive!Column
    <2>4. DOMAIN c = DOMAIN trips
      BY Zenon DEF Archive!Column
    <2> HIDE DEF c
    <2>5. \A i \in DOMAIN trips : c[i] # None <=> Archive!Has(trips[i], "rtt")
      BY <2>1, <2>2, <2>3, LibraryAssumption DEF LibraryAssumption
    <2>6. QED
      BY <1>4, <2>4, <2>5
  <1> HIDE DEF trips, c
  <1>6. Archive!Counted(h) = Cardinality({i \in DOMAIN c : c[i] # None})
    BY <1>4, <1>5, HistogramCounts
  <1>7. {i \in DOMAIN c : c[i] # None} = {i \in DOMAIN trips : Archive!Has(trips[i], "rtt")}
    BY <1>4, <1>5
  <1>8. QED
    BY <1>3, <1>6, <1>7 DEF trips

LEMMA Greatest ==
    ASSUME NEW T, NEW n \in Nat, T \subseteq 0 .. n, T # {}
    PROVE  Archive!Max(T) \in T
  <1> DEFINE Away == {n - x : x \in T}
  <1>1. Away \subseteq Nat /\ Away # {}
    <2>1. \A x \in T : n - x \in Nat
      OBVIOUS
    <2>2. PICK x \in T : TRUE
      BY Zenon
    <2>3. n - x \in Away
      OBVIOUS
    <2>4. QED
      BY <2>1, <2>3
  <1>2. PICK y \in Away : \A z \in Away : y <= z
    <2> HIDE DEF Away
    <2>1. QED
      BY <1>1, Least, Zenon
  <1>3. PICK x \in T : y = n - x
    OBVIOUS
  <1>4. \A z \in T : x >= z
    <2> TAKE z \in T
    <2>1. n - x <= n - z
      BY <1>2, <1>3
    <2>2. QED
      BY <2>1
  <1>5. QED
    BY <1>3, <1>4, Zenon DEF Archive!Max

\* Whatever MTU a hop is said to have is that of a hop.
LEMMA FormattedIs ==
    ASSUME NEW paths, Archive!IsList(paths),
           \A path \in Archive!ToSet(paths) : Archive!IsList(path),
           NEW p, NEW h, Archive!FormattedMtu(paths, p, h) # None
    PROVE  Archive!FormattedMtu(paths, p, h) \in Archive!Mtus(paths)
  <1> DEFINE marked == Archive!Marked(paths)
             seen == {x \in marked : x[1] < p \/ (x[1] = p /\ x[2] <= h)}
             ps == {x[1] : x \in seen}
             path == Archive!Max(ps)
             hs == {x[2] : x \in {y \in seen : y[1] = path}}
             hop == Archive!Max(hs)
  <1>1. Archive!FormattedMtu(paths, p, h) = IF seen = {} THEN None ELSE paths[path][hop]["mtu"]
    BY Zenon DEF Archive!FormattedMtu
  <1>2. seen # {}
    <2> HIDE DEF seen, path, hop
    <2>1. QED
      BY <1>1
  <1>3. Len(paths) \in Nat /\ DOMAIN paths = 1 .. Len(paths)
    BY LenProperties DEF Archive!IsList
  <1>4. \A q \in 1 .. Len(paths) : Len(paths[q]) \in Nat /\ DOMAIN paths[q] = 1 .. Len(paths[q])
    BY <1>3, LenProperties DEF Archive!IsList, Archive!ToSet
  <1>5. \A x \in marked : /\ x[1] \in 1 .. Len(paths) /\ x[2] \in 1 .. Len(paths[x[1]])
                          /\ x = <<x[1], x[2]>>
    BY <1>3, <1>4 DEF Archive!Marked
  <1> HIDE DEF marked
  <1>6. path \in ps
    <2>1. ps # {} /\ ps \subseteq 0 .. Len(paths)
      BY <1>2, <1>3, <1>5
    <2> HIDE DEF ps
    <2>2. QED
      BY <1>3, <2>1, Greatest, Zenon
  <1>7. hop \in hs
    <2>1. hs # {}
      <3> HIDE DEF seen, path
      <3>1. QED
        BY <1>6, Zenon
    <2>2. path \in 1 .. Len(paths)
      <3> HIDE DEF path
      <3>1. QED
        BY <1>5, <1>6
    <2>3. hs \subseteq 0 .. Len(paths[path])
      <3> HIDE DEF path
      <3>1. QED
        BY <1>4, <1>5, <2>2
    <2>4. Len(paths[path]) \in Nat
      <3> HIDE DEF path
      <3>1. QED
        BY <1>4, <2>2
    <2> HIDE DEF hs, path
    <2>5. QED
      BY <2>1, <2>3, <2>4, Greatest, Zenon
  <1>8. PICK x \in marked : x[1] = path /\ x[2] = hop
    <2> HIDE DEF path, hop
    <2>1. QED
      BY <1>7
  <1> HIDE DEF path, hop, seen
  <1>9. paths[path][hop]["mtu"] \in Archive!Mtus(paths)
    BY <1>8 DEF Archive!Mtus, marked
  <1>10. QED
    BY <1>1, <1>2, <1>9

LEMMA TraceFits ==
    ASSUME NEW test, NEW res, Archive!IsResult(test, res), test.type = "trace",
           Archive!Succeeded(res),
           "packet-trace" \in DOMAIN Archive!TraceData(test, res),
           NEW h \in DOMAIN Archive!TraceData(test, res)["packet-trace"],
           Archive!TraceData(test, res)["packet-trace"][h].mtu # None
    PROVE  /\ "path-mtu" \in DOMAIN Archive!TraceData(test, res)
           /\ Archive!TraceData(test, res)["path-mtu"]
                <= Archive!TraceData(test, res)["packet-trace"][h].mtu
  <1> DEFINE data == Archive!TraceData(test, res)
             paths == res["paths"]
             all == [q \in DOMAIN paths |-> Archive!FormattedPath(paths, q)]
             walked == {q \in DOMAIN paths : paths[q] # <<>>}
             p == Archive!Min(walked)
             mtus == Archive!Mtus(paths)
             trace == Archive!If(walked # {}, Archive!Only("packet-trace", all[p]))
             least == Archive!If(Archive!Marked(paths) # {},
                                 Archive!Only("path-mtu", Archive!Min(mtus)))
             multi == Archive!If(test.paris /\ all # <<>>, Archive!Only("packet-trace-multi", all))
  <1>1. /\ Archive!IsList(paths)
        /\ \A path \in Archive!ToSet(paths) : Archive!IsList(path) /\ \A hop \in Archive!ToSet(path) :
                Archive!Has(hop, "mtu") => hop["mtu"] \in Nat
    BY Zenon DEF Archive!IsResult
  <1>2. data = Archive!++(Archive!++(trace, least), multi)
    BY Zenon DEF Archive!TraceData
  <1>3. /\ "packet-trace" \in DOMAIN trace => walked # {} /\ trace["packet-trace"] = all[p]
        /\ DOMAIN trace \subseteq {"packet-trace"}
    <2> HIDE DEF all, walked, p
    <2>1. QED
      BY DEF Archive!If, Archive!Only
  <1>4. /\ Archive!Marked(paths) # {} => DOMAIN least = {"path-mtu"} /\ least["path-mtu"] = Archive!Min(mtus)
        /\ DOMAIN least \subseteq {"path-mtu"}
    <2> HIDE DEF mtus
    <2>1. QED
      BY DEF Archive!If, Archive!Only
  <1>5. DOMAIN multi \subseteq {"packet-trace-multi"}
    <2> HIDE DEF all
    <2>1. QED
      BY DEF Archive!If, Archive!Only
  <1>6. Len(paths) \in Nat /\ DOMAIN paths = 1 .. Len(paths)
    BY <1>1, LenProperties DEF Archive!IsList
  <1> HIDE DEF trace, least, multi
  <1>7. "packet-trace" \in DOMAIN data
    OBVIOUS
  <1>8. walked # {} /\ data["packet-trace"] = all[p]
    <2> HIDE DEF data, all, walked, p
    <2>1. QED
      BY <1>2, <1>3, <1>4, <1>5, <1>7 DEF Archive!++
  <1>9. p \in DOMAIN paths
    <2>1. walked \subseteq Nat
      BY <1>6
    <2>2. walked \subseteq DOMAIN paths
      OBVIOUS
    <2> HIDE DEF walked
    <2>3. PICK n \in walked : \A m \in walked : n <= m
      BY <1>8, <2>1, Least, Zenon
    <2>4. QED
      BY <2>2, <2>3 DEF Archive!Min
  <1> HIDE DEF p, walked
  <1> DEFINE mtu == Archive!FormattedMtu(paths, p, h)
  <1>10. data["packet-trace"][h].mtu = mtu
    <2>1. all[p] = Archive!FormattedPath(paths, p)
      <3> HIDE DEF paths
      <3>1. QED
        BY <1>9
    <2>2. h \in DOMAIN Archive!FormattedPath(paths, p)
      BY <1>8, <2>1
    <2>3. QED
      <3> HIDE DEF paths, data, all
      <3>1. QED
        BY <1>8, <2>1, <2>2 DEF Archive!FormattedPath
  <1>11. mtu # None
    BY <1>10
  <1>12. mtu \in mtus
    <2> HIDE DEF paths
    <2>1. QED
      BY <1>1, <1>11, FormattedIs
  <1>13. Archive!Marked(paths) # {} /\ mtus \subseteq Nat
    <2> HIDE DEF mtu
    <2>1. Archive!Marked(paths) # {}
      BY <1>12 DEF Archive!Mtus
    <2>2. ASSUME NEW x \in Archive!Marked(paths) PROVE paths[x[1]][x[2]]["mtu"] \in Nat
      <3> HIDE DEF paths
      <3>1. x[1] \in DOMAIN paths /\ x[2] \in DOMAIN paths[x[1]] /\ Archive!Has(paths[x[1]][x[2]], "mtu")
        BY <2>2 DEF Archive!Marked
      <3>2. paths[x[1]] \in Archive!ToSet(paths) /\ paths[x[1]][x[2]] \in Archive!ToSet(paths[x[1]])
        BY <3>1 DEF Archive!ToSet
      <3>3. QED
        BY <1>1, <3>1, <3>2
    <2>3. QED
      BY <2>1, <2>2 DEF Archive!Mtus
  <1> HIDE DEF mtus, mtu
  <1>14. Archive!Min(mtus) <= mtu
    <2>1. PICK n \in mtus : \A m \in mtus : n <= m
      BY <1>12, <1>13, Least, Zenon
    <2>2. QED
      BY <1>12, <2>1 DEF Archive!Min
  <1>15. "path-mtu" \in DOMAIN data /\ data["path-mtu"] = Archive!Min(mtus)
    <2> HIDE DEF data, paths
    <2>1. QED
      BY <1>2, <1>3, <1>4, <1>5, <1>13 DEF Archive!++
  <1>16. QED
    BY <1>10, <1>14, <1>15

LEMMA ValuesDoFit ==
    ASSUME NEW a \in Archiver, Archive!ClassOf(a) # "none", Archive!IsGiven(given)
    PROVE  Archive!ValuesFit(Archive!DataOf(a))
  <1> DEFINE class == Archive!ClassOf(a)
             test == given.test
             res == given.result
             raw == Archive!WithRaw(given.policy[a], given.test)
             data == Archive!DataOf(a)
             own_data == Archive!AdditionalData(class, test, res)
  <1>1. /\ class \in Classes
        /\ class # "raw" => class = test.type
    BY DEF Archive!ClassOf, Archive!Class, Classes
  <1>2. Archive!IsResult(test, res)
    BY DEF Archive!IsGiven
  <1>3. data = Archive!Data(class, test, res, raw)
    BY DEF Archive!DataOf
  <1> HIDE DEF class, test, res, raw, data, own_data
  <1>4. ASSUME NEW type \in DOMAIN data,
               type \notin {"failures", "pscheduler-run-href", "pscheduler-raw"}
        PROVE  Archive!Succeeded(res) /\ type \in DOMAIN own_data /\ data[type] = own_data[type]
    BY <1>3, <1>4, Datum DEF own_data
  <1>5. ASSUME "histogram-rtt" \in DOMAIN data
        PROVE  LET trips == Archive!Roundtrips(res) IN
               Archive!Counted(data["histogram-rtt"])
                   = Archive!Cardinality({i \in DOMAIN trips : Archive!Has(trips[i], "rtt")})
    <2>1. "histogram-rtt" \in DOMAIN own_data /\ data["histogram-rtt"] = own_data["histogram-rtt"]
      BY <1>4, <1>5
    <2>2. class = "rtt"
      BY <1>1, <2>1, TypesApart DEF own_data
    <2>3. own_data = Archive!RTTData(res)
      BY <2>2, ClassIs DEF own_data
    <2>4. /\ Archive!IsList(Archive!Roundtrips(res))
          /\ \A trip \in Archive!ToSet(Archive!Roundtrips(res)) :
                Archive!Has(trip, "rtt") => trip["rtt"] \in Nat
      BY <1>2 DEF Archive!IsResult
    <2>5. QED
      BY <2>1, <2>3, <2>4, HistogramFits, SameCardinality
  <1>6. ASSUME "packet-trace" \in DOMAIN data, NEW h \in DOMAIN data["packet-trace"],
               data["packet-trace"][h].mtu # None
        PROVE  "path-mtu" \in DOMAIN data /\ data["path-mtu"] <= data["packet-trace"][h].mtu
    <2>1. /\ Archive!Succeeded(res) /\ "packet-trace" \in DOMAIN own_data
          /\ data["packet-trace"] = own_data["packet-trace"]
      BY <1>4, <1>6
    <2>2. class = "trace"
      BY <1>1, <2>1, TypesApart DEF own_data
    <2>3. own_data = Archive!TraceData(test, res) /\ test.type = "trace"
      BY <1>1, <2>2, ClassIs DEF own_data
    <2>4. "path-mtu" \in DOMAIN own_data /\ own_data["path-mtu"] <= own_data["packet-trace"][h].mtu
      BY <1>2, <1>6, <2>1, <2>3, TraceFits
    <2>5. "path-mtu" \in DOMAIN data
      BY <1>3, <2>1, <2>4 DEF own_data, Archive!Data, Archive!++
    <2>6. data["path-mtu"] = own_data["path-mtu"]
      BY <1>4, <2>5
    <2>7. QED
      BY <2>1, <2>4, <2>5, <2>6
  <1>7. QED
    BY <1>5, <1>6 DEF Archive!ValuesFit, data, test, res

LEMMA GivenStays == LibrarySpec => [](given \in Archived \cup Recorded)
  <1>1. LibraryInit => given \in Archived \cup Recorded
    BY GivenAssumption DEF LibraryInit, AnArchived, GivenAssumption
  <1>2. given \in Archived \cup Recorded /\ [LibraryNext]_vars => (given \in Archived \cup Recorded)'
    <2>1. Archive!EsmondNext => UNCHANGED given
      BY DEF Archive!EsmondNext, Archive!archive, Archive!Expire, Archive!Forget, Archive!Lookup,
             Archive!create_metadata, Archive!SetCache, Archive!create_data, Archive!DropKey
    <2>2. [LibraryNext]_vars => UNCHANGED given
      BY <2>1 DEF LibraryNext, vars, evars
    <2>3. QED
      BY <2>2
  <1>3. QED
    BY <1>1, <1>2, PTL DEF LibrarySpec

\* Whatever the result of a test is, what any number of processes archive of it is of
\* the types they have declared, but for those of TCP and of raw records that the code
\* never declares; the histogram of a result counts each round trip, the MTU of a path is
\* the least of its hops', and a failure that is answered is answered with the wait the
\* retry policy lists for the attempt (esmond_util.py 177-193, 285-434).
THEOREM DataDoesFit == LibrarySpec => []DataFits
  <1>1. LibraryInit => StoredInv
    BY StoredInit DEF LibraryInit
  <1>2. StoredInv /\ [LibraryNext]_vars => StoredInv'
    <2>1. [LibraryNext]_vars => Archive!EsmondNext \/ UNCHANGED evars
      BY DEF LibraryNext, vars
    <2>2. QED
      BY <2>1, StoredStep
  <1>3. ASSUME StoredInv, given \in Archived \cup Recorded PROVE DataFits
    <2>1. Archive!IsGiven(given)
      BY <1>3, GivenAssumption DEF GivenAssumption
    <2>2. IsPolicy(given.retry) /\ given.attempts \in Nat
      <3>1. given.retry \in Seq(Archive!ToSet(given.retry)) /\ given.attempts \in Nat
            /\ \A n \in DOMAIN given.retry : given.retry[n].attempts \in Nat
        BY <2>1 DEF Archive!IsGiven, Archive!IsList
      <3>2. QED
        BY <3>1, LenProperties DEF IsPolicy
    <2>3. QED
      BY <1>3, <2>1, <2>2, TypesDoFit, ValuesDoFit, AnswersDoFit DEF DataFits, Archive!DataFits
  <1>4. QED
    BY <1>1, <1>2, <1>3, GivenStays, PTL DEF LibrarySpec

=============================================================================
