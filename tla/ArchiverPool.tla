---------------------------- MODULE ArchiverPool ----------------------------
(***************************************************************************)
(* The pool of processes of one archiver that the threads of the archiver  *)
(* daemon share (archiver.raw 270-470), and what goes over the pipes of    *)
(* such a process: each takes results and gives answers for as long as it  *)
(* lives (program.py StreamingJSONProgram, psjson.py RFC7464Emitter and    *)
(* RFC7464Parser).  A thread makes one request, so a request is named by   *)
(* its thread.                                                             *)
(***************************************************************************)
EXTENDS Integers, FiniteSets, Sequences, SequencesExt, Functions

CONSTANTS
    Caller,
    Process,        \* names for processes, at least max_size of them
    max_size,
    retries,        \* of a StreamingJSONProgram
    MaxDrains,      \* how often the pool is drained
    MaxMishaps,     \* programs that die, fall silent or print a stray line
    Stray, NoProcess, Nothing

ASSUME PoolAssumption ==
    /\ max_size \in Nat \ {0}
    /\ retries \in Nat \ {0}
    /\ MaxDrains \in Nat
    /\ MaxMishaps \in Nat
    /\ NoProcess \notin Process
    /\ IsFiniteSet(Process) => Cardinality(Process) >= max_size

VARIABLES
    pool,               \* the idle processes, the last one returned at the end
    size,
    reset_cycle,
    skim_count,
    max_utilization,
    caller,             \* thread -> what it is doing
    live,               \* processes started and not stopped
    born,               \* process -> the reset cycle in which it was started
    unread,             \* process -> lines its program has written that nobody has read
    mishaps,
    babbled             \* whether a program has ever printed a stray line

pvars == <<pool, size, reset_cycle, skim_count, max_utilization, caller, live,
           born, unread, mishaps, babbled>>
counters == <<size, reset_cycle, skim_count, max_utilization>>
programs == <<unread, mishaps, babbled>>

PoolInit ==
    /\ pool = <<>>
    /\ size = 0
    /\ reset_cycle = 0
    /\ skim_count = 0
    /\ max_utilization = 0
    /\ caller = [c \in Caller |-> [step |-> "want", process |-> NoProcess, cycle |-> 0,
                                   tries |-> retries, result |-> Nothing]]
    /\ live = {}
    /\ born = [p \in Process |-> 0]
    /\ unread = [p \in Process |-> <<>>]
    /\ mishaps = 0
    /\ babbled = FALSE

Mishap == mishaps < MaxMishaps /\ mishaps' = mishaps + 1
Greater(a, b) == IF a > b THEN a ELSE b

----------------------------------------------------------------------------
(* What a thread does with the pool.                                       *)

Hold(c, p) ==
    caller' = [caller EXCEPT ![c].step = "ask", ![c].process = p, ![c].cycle = reset_cycle]

\* Mutant: the process stays in the pool.
TakeUncounted(c) ==
    /\ caller[c].step = "want"
    /\ pool # <<>>
    /\ Hold(c, pool[Len(pool)])
    /\ pool' = pool
    /\ max_utilization' = Greater(max_utilization, size - Len(pool'))
    /\ UNCHANGED <<size, reset_cycle, skim_count, live, born, programs>>

\* Take the process that was returned last.
Take(c) ==
    /\ caller[c].step = "want"
    /\ pool # <<>>
    /\ Hold(c, pool[Len(pool)])
    /\ pool' = Front(pool)
    /\ max_utilization' = Greater(max_utilization, size - Len(pool'))
    /\ UNCHANGED <<size, reset_cycle, skim_count, live, born, programs>>

\* None is idle and there is room for one more.  Otherwise the thread sleeps for
\* a quarter of a second and looks again.
Create(c) ==
    /\ caller[c].step = "want"
    /\ pool = <<>>
    /\ size < max_size
    /\ LET p == CHOOSE p \in Process : p \notin live IN
       /\ Hold(c, p)
       /\ live' = live \cup {p}
       /\ born' = [born EXCEPT ![p] = reset_cycle]
       /\ unread' = [unread EXCEPT ![p] = <<>>]
    /\ size' = size + 1
    /\ max_utilization' = Greater(max_utilization, size')
    /\ UNCHANGED <<pool, reset_cycle, skim_count, mishaps, babbled>>

Finish(c) == caller' = [caller EXCEPT ![c].step = "done", ![c].process = NoProcess]

\* The process cannot be started: the exception leaves nothing behind but the thread.
CreateFails(c) ==
    /\ caller[c].step = "want"
    /\ pool = <<>>
    /\ size < max_size
    /\ Mishap
    /\ Finish(c)
    /\ UNCHANGED <<pool, counters, live, born, unread, babbled>>

\* Mutant: a process that is dropped is still counted.
PutBackCounted(c) ==
    LET same == caller[c].cycle = reset_cycle IN
    /\ caller[c].step = "return"
    /\ Finish(c)
    /\ IF same
       THEN pool' = Append(pool, caller[c].process) /\ UNCHANGED live
       ELSE live' = live \ {caller[c].process} /\ UNCHANGED pool
    /\ UNCHANGED <<counters, born, programs>>

\* Back into the pool, unless it has been drained or shrunk in the meantime.
PutBack(c) ==
    LET p == caller[c].process
        same_cycle == caller[c].cycle = reset_cycle
    IN
    /\ caller[c].step = "return"
    /\ Finish(c)
    /\ IF same_cycle /\ skim_count = 0 /\ size <= max_size
       THEN pool' = Append(pool, p) /\ UNCHANGED <<size, skim_count, live>>
       ELSE /\ live' = live \ {p}
            /\ size' = size - 1
            /\ skim_count' = IF same_cycle /\ skim_count > 0 THEN skim_count - 1 ELSE skim_count
            /\ UNCHANGED pool
    /\ UNCHANGED <<reset_cycle, max_utilization, born, programs>>

\* Stop what is idle; what is in use is dropped when it is returned.
drain ==
    /\ reset_cycle < MaxDrains
    /\ size' = size - Len(pool)
    /\ live' = live \ Range(pool)
    /\ pool' = <<>>
    /\ reset_cycle' = reset_cycle + 1
    /\ UNCHANGED <<skim_count, max_utilization, caller, born, programs>>

\* Stop what was not in use at the same time since the last skim.  The loop ends
\* at once when fewer are idle than that, and counts skim_count down to zero.
skim ==
    LET to_remove == size - max_utilization
        n == IF to_remove > 0 /\ Len(pool) >= to_remove THEN to_remove ELSE 0
    IN
    /\ pool' = SubSeq(pool, 1, Len(pool) - n)
    /\ live' = live \ {pool[i] : i \in Len(pool) - n + 1 .. Len(pool)}
    /\ size' = size - n
    /\ skim_count' = IF n > 0 THEN 0 ELSE skim_count
    /\ max_utilization' = 0
    /\ UNCHANGED <<reset_cycle, caller, born, programs>>

----------------------------------------------------------------------------
(* What a thread does with its process, which is its own for the moment.   *)

Read(c, lines) ==
    /\ unread' = [unread EXCEPT ![caller[c].process] = Tail(lines)]
    /\ caller' = [caller EXCEPT ![c].step = "return", ![c].result = Head(lines)]
    /\ UNCHANGED <<pool, counters, live, born>>

\* One line is written for the request and the next line is read.  A line that
\* is no record (Stray) raises ValueError: nothing is tried again and the
\* process stays as it is.
RoundTrip(c) ==
    /\ caller[c].step = "ask"
    /\ Read(c, Append(unread[caller[c].process], c))
    /\ UNCHANGED <<mishaps, babbled>>

\* The program prints something else first.
RoundTripStray(c) ==
    /\ caller[c].step = "ask"
    /\ Mishap
    /\ babbled' = TRUE
    /\ Read(c, unread[caller[c].process] \o <<Stray, c>>)

\* Mutant: a program that is late is not dropped.
FailAndKeep(c) ==
    /\ caller[c].step = "ask"
    /\ Mishap
    /\ unread' = [unread EXCEPT ![caller[c].process] = Append(@, c)]
    /\ caller' = [caller EXCEPT ![c].tries = @ - 1,
                                ![c].step = IF caller[c].tries = 1 THEN "return" ELSE "ask"]
    /\ UNCHANGED <<pool, counters, live, born, babbled>>

\* The program dies or is silent for too long: it is dropped, a late answer with
\* it, and the next try has a new one, until there are no tries left.
Fail(c) ==
    /\ caller[c].step = "ask"
    /\ Mishap
    /\ unread' = [unread EXCEPT ![caller[c].process] = <<>>]
    /\ caller' = [caller EXCEPT ![c].tries = @ - 1,
                                ![c].step = IF caller[c].tries = 1 THEN "return" ELSE "ask"]
    /\ UNCHANGED <<pool, counters, live, born, babbled>>

Use(c) == Take(c) \/ Create(c) \/ RoundTrip(c) \/ PutBack(c)

PoolNext ==
    \/ \E c \in Caller : Use(c) \/ CreateFails(c) \/ RoundTripStray(c) \/ Fail(c)
    \/ drain \/ skim

PoolSpec == PoolInit /\ [][PoolNext]_pvars

----------------------------------------------------------------------------
(* What the pool must get right.                                           *)

\* The processes in the hands of threads.
Held == {caller[c].process : c \in Caller} \ {NoProcess}

\* The variables have their types.
PoolTypeOK ==
    /\ pool \in Seq(Process)
    /\ size \in Nat
    /\ reset_cycle \in 0 .. MaxDrains
    /\ skim_count \in Nat
    /\ max_utilization \in Nat
    /\ caller \in [Caller -> [step : {"want", "ask", "return", "done"},
                              process : Process \cup {NoProcess},
                              cycle : 0 .. MaxDrains, tries : 0 .. retries,
                              result : Caller \cup {Stray, Nothing}]]
    /\ live \subseteq Process
    /\ born \in [Process -> 0 .. MaxDrains]
    /\ unread \in [Process -> Seq(Caller \cup {Stray})]
    /\ mishaps \in 0 .. MaxMishaps
    /\ babbled \in BOOLEAN

\* No process is in two places, and every one that was started is in the pool
\* or in use.
Owned ==
    /\ IsInjective(pool)
    /\ \A c, d \in Caller : c # d /\ caller[c].process = caller[d].process
                                => caller[c].process = NoProcess
    /\ Range(pool) \cap Held = {}
    /\ live = Range(pool) \cup Held

\* size, which is kept apart from the pool, is the number of processes that
\* run, whatever threads, drains and skims did between a checkout and a return,
\* and never more than max_size (archiver.raw 340-410).
SizeIsLive ==
    /\ size = Cardinality(live)
    /\ size <= max_size

\* After a drain nobody gets a process from before it: what was in use then is
\* not pooled again (archiver.raw 395-405, 425-440).
PoolIsFresh == \A i \in DOMAIN pool : born[pool[i]] = reset_cycle

\* However threads, drains and skims follow each other, the pool, what is in use and
\* what is counted fit together (archiver.raw 340-460).
PoolSound == Owned /\ SizeIsLive /\ PoolIsFresh

\* A thread is answered with the answer to its own request, however often
\* programs died or were given up on; as long as none of them has printed a
\* line that is no record, which puts its process one answer behind for good
\* (psjson.py 205-225, program.py 520-560).
OwnAnswer ==
    ~babbled => \A c \in Caller : caller[c].result \in {c, Nothing}

\* Fairness: threads run on, and programs are timed out.
PoolFairSpec == PoolSpec /\ \A c \in Caller : WF_pvars(Use(c))

\* Every thread gets a process and ends, when there are more threads than
\* processes as well; drains and skims do not lose a place in the pool.
Served == \A c \in Caller : <>(caller[c].step = "done")

=============================================================================
