----------------------------- MODULE GracefulExit -----------------------------
(***************************************************************************)
(* How a daemon exits when a signal arrives (exit.py) and takes the        *)
(* programs with it that its threads have started (program.py).  The       *)
(* handler runs in the main thread, wherever that is, and leaves the work  *)
(* to a thread of its own.                                                 *)
(***************************************************************************)
EXTENDS Integers, FiniteSets

CONSTANTS
    Program,        \* the programs; each is run once, by a thread of its own
    OfMain,         \* but for these, which the main thread runs
    Stubborn,       \* the programs that need not end when they are told to
    Foreign,        \* the programs that may have changed their user, and cannot be told
    MaxSignals,     \* bound on the signals that arrive
    Main, Worker,   \* the main thread and the exit worker, as holders of locks
    NoOne

VARIABLES
    at,             \* program -> where run_program is for it
    alive,          \* the programs that run as processes
    initialized, running,       \* program.py: the hash of what is running
    program_lock, exit_lock,    \* who holds the lock of either module
    registered,     \* whether exit_list and the exit worker are there
    worker, victim, \* where the exit worker is, and what it is ending
    handler, depth, \* where the handler is, and how many are nested
    signals,
    exited,
    condemned       \* what was registered when the handler let the worker go

xvars == <<at, alive, initialized, running, program_lock, exit_lock, registered,
           worker, victim, handler, depth, signals, exited, condemned>>
locks == <<program_lock, exit_lock>>
exiting == <<worker, victim, handler, depth, signals, exited, condemned>>
table == <<initialized, running, registered>>

Init ==
    /\ at = [p \in Program |-> "new"] /\ alive = {}
    /\ initialized = FALSE /\ running = {}
    /\ program_lock = NoOne /\ exit_lock = NoOne
    /\ registered = FALSE
    /\ worker = "none" /\ victim = NoOne
    /\ handler = "none" /\ depth = 0 /\ signals = 0
    /\ exited = FALSE /\ condemned = {}

----------------------------------------------------------------------------
(* run_program.                                                            *)

\* Who runs a program: the main thread does nothing while a handler is on top
\* of it, and runs one program at a time.
Thread(p) == IF p \in OfMain THEN Main ELSE p
Runs(p) == ~exited /\ (p \in OfMain => handler = "none")

Goto(p, from, to) == at[p] = from /\ at' = [at EXCEPT ![p] = to]

\* Popen: the process is there before anybody knows of it.
Start(p) ==
    /\ Runs(p) /\ Goto(p, "new", "started")
    /\ alive' = alive \cup {p}
    /\ UNCHANGED <<locks, table, exiting>>

\* __init_running, which every __running_add and __running_drop calls first.
LockProgram(p) ==
    /\ Runs(p) /\ program_lock = NoOne
    /\ \/ Goto(p, "started", "adding") \/ Goto(p, "over", "dropping")
    /\ program_lock' = Thread(p)
    /\ UNCHANGED <<alive, exit_lock, table, exiting>>

\* The first to come registers __terminate_running, for which it takes the other
\* lock too and starts the exit worker.
LockExit(p) ==
    /\ Runs(p) /\ exit_lock = NoOne /\ ~initialized
    /\ Goto(p, "adding", "registering")
    /\ initialized' = TRUE
    /\ exit_lock' = Thread(p)
    /\ UNCHANGED <<alive, program_lock, running, registered, exiting>>

Register(p) ==
    /\ Runs(p) /\ Goto(p, "registering", "adding")
    /\ registered' = TRUE /\ worker' = "waiting"
    /\ exit_lock' = NoOne
    /\ UNCHANGED <<alive, program_lock, initialized, running, victim, handler, depth,
                   signals, exited, condemned>>

Unlock(p) ==
    /\ Runs(p) /\ initialized
    /\ Goto(p, "adding", "add") \/ Goto(p, "dropping", "drop")
    /\ program_lock' = NoOne
    /\ UNCHANGED <<alive, exit_lock, table, exiting>>

Add(p) ==
    /\ Runs(p) /\ Goto(p, "add", "running")
    /\ running' = running \cup {p}
    /\ UNCHANGED <<alive, locks, initialized, registered, exiting>>

\* What is left of the processes when one is told to end, if that can be done.
Ended(p) == {alive \ {p}} \cup IF p \in Foreign THEN {alive} ELSE {}

\* The program has ended, or took too long and is ended.
Over(p) ==
    /\ Runs(p) /\ Goto(p, "running", "over")
    /\ alive' \in Ended(p)
    /\ UNCHANGED <<locks, table, exiting>>

\* No line came in time, or something was thrown: the program runs on and is
\* dropped first.
GiveUp(p) ==
    /\ Runs(p) /\ Goto(p, "running", "over")
    /\ UNCHANGED <<alive, locks, table, exiting>>

\* No lock is held.
Drop(p) ==
    /\ Runs(p) /\ Goto(p, "drop", "ending")
    /\ running' = running \ {p}
    /\ UNCHANGED <<alive, locks, initialized, registered, exiting>>

\* _end_process kills one that does not end in half a second.
End(p) ==
    /\ Runs(p) /\ Goto(p, "ending", "done")
    /\ alive' \in Ended(p)
    /\ UNCHANGED <<locks, table, exiting>>

RunProgram(p) ==
    \/ Start(p) \/ LockProgram(p) \/ LockExit(p) \/ Register(p) \/ Unlock(p)
    \/ Add(p) \/ Over(p) \/ GiveUp(p) \/ Drop(p) \/ End(p)

----------------------------------------------------------------------------
(* __exit_handler, and __graceful_exit_worker with __terminate_running.    *)

\* A signal interrupts the main thread, in a handler or anywhere else.
Signal ==
    /\ ~exited /\ signals < MaxSignals
    /\ signals' = signals + 1
    /\ depth' = depth + 1 /\ handler' = "lock"
    /\ UNCHANGED <<at, alive, locks, table, worker, victim, exited, condemned>>

\* Without a worker there is nothing to do.  exit_barrier was set under the lock
\* that Register gives back.
HandlerStart ==
    /\ handler = "lock" /\ exit_lock = NoOne /\ ~exited
    /\ IF registered THEN handler' = "barrier" /\ UNCHANGED exited
       ELSE exited' = TRUE /\ UNCHANGED handler
    /\ UNCHANGED <<at, alive, locks, table, worker, victim, depth, signals, condemned>>

\* The handler meets the worker at the first barrier.
Meet ==
    /\ handler = "barrier" /\ worker = "waiting"
    /\ handler' = "finish" /\ worker' = "lock"
    /\ condemned' = running
    /\ UNCHANGED <<at, alive, locks, table, victim, depth, signals, exited>>

WorkerStep(from, to) == ~exited /\ worker = from /\ worker' = to
Others == <<at, initialized, registered, handler, depth, signals, exited, condemned>>

WorkerLock ==
    /\ WorkerStep("lock", "init") /\ exit_lock = NoOne
    /\ exit_lock' = Worker
    /\ UNCHANGED <<Others, alive, running, program_lock, victim>>

\* Its call of __init_running.
WorkerInit ==
    /\ WorkerStep("init", "loop") /\ program_lock = NoOne
    /\ UNCHANGED <<Others, alive, running, locks, victim>>

\* Mutant: a program is ended, and not each.
LookOnce ==
    /\ WorkerStep("loop", IF running = {} \/ condemned \cap running # condemned THEN "clear" ELSE "first")
    /\ UNCHANGED <<Others, alive, running, locks, victim>>

\* The length is looked at without the lock.
Look ==
    /\ WorkerStep("loop", IF running = {} THEN "clear" ELSE "first")
    /\ UNCHANGED <<Others, alive, running, locks, victim>>

\* Nothing is left to take if a thread has dropped the last one meanwhile; this
\* throws and ends the worker, and gives the locks back.
First ==
    /\ program_lock = NoOne
    /\ IF running # {}
       THEN /\ WorkerStep("first", "end")
            /\ victim' \in running
            /\ UNCHANGED exit_lock
       ELSE /\ WorkerStep("first", "dead")
            /\ exit_lock' = NoOne /\ UNCHANGED victim
    /\ UNCHANGED <<Others, alive, running, program_lock>>

\* It is told to end and waited for; or the attempt throws, which is passed over,
\* and the program is forgotten as it is.
Terminate ==
    /\ WorkerStep("end", "forget")
    /\ alive' \in Ended(victim)
    /\ UNCHANGED <<Others, running, locks, victim>>

\* It does not end, and is waited for all the same.
WaitForEver ==
    /\ WorkerStep("end", "stuck")
    /\ victim \in alive \cap Stubborn
    /\ UNCHANGED <<Others, alive, running, locks, victim>>

\* Mutant: what has been ended stays in the hash.
ForgetNothing ==
    /\ WorkerStep("forget", "loop") /\ program_lock = NoOne
    /\ victim' = NoOne
    /\ UNCHANGED <<Others, alive, running, locks>>

Forget ==
    /\ WorkerStep("forget", "loop") /\ program_lock = NoOne
    /\ running' = running \ {victim} /\ victim' = NoOne
    /\ UNCHANGED <<Others, alive, locks>>

Clear ==
    /\ WorkerStep("clear", "finish")
    /\ running' = {}
    /\ exit_lock' = NoOne
    /\ UNCHANGED <<Others, alive, program_lock, victim>>

\* The second barrier lets the handler end the daemon.
Exit ==
    /\ handler = "finish" /\ WorkerStep("finish", "done")
    /\ exited' = TRUE
    /\ UNCHANGED <<at, alive, locks, table, victim, handler, depth, signals, condemned>>

WorkerNext ==
    \/ WorkerLock \/ WorkerInit \/ Look \/ First \/ Terminate \/ WaitForEver \/ Forget \/ Clear

Exiting == HandlerStart \/ Meet \/ Exit

----------------------------------------------------------------------------

Next ==
    \/ Signal \/ Exiting \/ WorkerNext
    \/ \E p \in Program : RunProgram(p)

Spec == Init /\ [][Next]_xvars

----------------------------------------------------------------------------
(* What a daemon that is told to exit must do.                              *)

\* Every program that was registered when the exit began is gone when the
\* daemon is (program.py 29-31, "so they can be killed off when the program
\* exits"), but for those it may not kill, and one that its own thread had just
\* dropped, and not yet ended, when the worker found nothing left to end
\* (program.py 235, 268).  One that was being started, or that is started during
\* the exit, may be left behind as well.
KilledOff == exited => \A p \in condemned \cap alive : p \in Foreign \/ at[p] = "ending"

\* What an exit may be caught in: the main thread was interrupted while it held
\* a lock the exit needs; a second signal stacked a handler on the first, which
\* waits at a barrier nobody comes to; the worker found the last program
\* dropped between looking and taking; a program does not end.
Caught ==
    \/ handler # "none" /\ Main \in {exit_lock, program_lock}
    \/ depth > 1
    \/ worker = "dead"
    \/ worker = "stuck"

ExitSpec ==
    /\ Spec
    /\ WF_xvars(Exiting) /\ WF_xvars(WorkerNext)
    /\ \A p \in Program : WF_xvars(RunProgram(p))

\* A signal makes the daemon exit, unless it is caught in one of these
\* (exit.py 64-83): with programs being started, ended and dropped by other
\* threads while the worker ends them.
EverySignalExits == signals > 0 ~> exited \/ Caught

=============================================================================
