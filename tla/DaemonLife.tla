----------------------------- MODULE DaemonLife -----------------------------
(***************************************************************************)
(* The life of a daemon's process: safe_run (saferun.py) runs its main     *)
(* program, waits when it has thrown, and executes the daemon anew, with   *)
(* what it knows in an environment variable.  The daemon's logger (log.py) *)
(* is told by signals to log all or not, and hands that on in another, to  *)
(* the programs the daemon runs and to its own next life.                  *)
(***************************************************************************)
EXTENDS Integers, Sequences

CONSTANTS
    Backoff, BackoffMax,    \* safe_run's, in units of time
    RunTimes,               \* how long the main program may run before it ends
    Levels, Debug,          \* the levels a logger may be made with; DEBUG's
    None,
    MaxSignals, MaxLives    \* bounds on the signals, and the lives

ASSUME LifeAssumption ==
    /\ Backoff \in Nat \ {0} /\ BackoffMax \in Nat \ {0}
    /\ RunTimes \subseteq Nat
    /\ MaxSignals \in Nat /\ MaxLives \in Nat
    /\ Debug \in Levels /\ None \notin Nat

VARIABLES
    at,                     \* what the process is at
    current_backoff, runs,  \* safe_run's
    run_env,                \* PSCHEDULER_SAFERUN_STATE
    elapsed, crashes,       \* the time that has passed, the exceptions so far
    log,                    \* level, last_level, forced_debug
    log_env,                \* PSCHEDULER_LOG_STATE
    handlers,               \* the handlers that run, the inner after the outer
    nested,                 \* whether one has interrupted another in this life
    signals, lives

dvars == <<at, current_backoff, runs, run_env, elapsed, crashes, log, log_env, handlers,
           nested, signals, lives>>
safe == <<current_backoff, runs, run_env, elapsed, crashes>>
logging == <<log, log_env, handlers, nested>>

LifeInit ==
    /\ at = "started"
    /\ current_backoff = Backoff /\ runs = 0 /\ run_env = None
    /\ elapsed = 0 /\ crashes = 0
    /\ log = None /\ log_env = None /\ handlers = <<>> /\ nested = FALSE
    /\ signals = 0 /\ lives = 1

----------------------------------------------------------------------------
(* Log.                                                                    *)

State(lg) == [forced_debug |-> lg.forced_debug, last_level |-> lg.last_level]

\* The constructor: what it is told counts in the first life alone.  The signals
\* have no handlers before its end.
MakeLog(level, debug) ==
    /\ at = "started" /\ at' = "logging"
    /\ LET given == [forced_debug |-> debug, last_level |-> IF debug THEN Debug ELSE level]
           state == IF log_env = None THEN given ELSE log_env
           last == state.last_level
           forced == state.forced_debug
       IN  log' = [last_level |-> last, forced_debug |-> forced,
                   level |-> IF forced THEN Debug ELSE last]
    /\ log_env' = State(log')
    /\ UNCHANGED <<safe, handlers, nested, signals, lives>>

\* SIGUSR1 and SIGUSR2, whose handlers may interrupt each other.
Signal(debug) ==
    /\ at \in {"logging", "running", "waiting"} /\ signals < MaxSignals
    /\ signals' = signals + 1
    /\ handlers' = Append(handlers, [state |-> debug, step |-> "level"])
    /\ nested' = (nested \/ handlers # <<>>)
    /\ UNCHANGED <<safe, at, log, log_env, lives>>

\* Without a handler they end the process, which has just been executed.
SignalTooEarly ==
    /\ at = "started" /\ signals < MaxSignals
    /\ signals' = signals + 1 /\ at' = "ended"
    /\ UNCHANGED <<safe, logging, lives>>

Inner == handlers[Len(handlers)]
Outer == SubSeq(handlers, 1, Len(handlers) - 1)
Step(to) == handlers' = Append(Outer, [Inner EXCEPT !.step = to])

\* set_debug: the level, and the environment with it.
SetLevel ==
    /\ handlers # <<>> /\ Inner.step = "level" /\ Step("force")
    /\ log' = [log EXCEPT !.level = IF Inner.state THEN Debug ELSE log.last_level]
    /\ log_env' = State(log')
    /\ UNCHANGED <<safe, at, nested, signals, lives>>

SetForced ==
    /\ handlers # <<>> /\ Inner.step = "force" /\ Step("env")
    /\ log' = [log EXCEPT !.forced_debug = Inner.state]
    /\ UNCHANGED <<safe, at, log_env, nested, signals, lives>>

\* Mutant: only that debugging is on is told.
UpdateEnvIfForced ==
    /\ handlers # <<>> /\ Inner.step = "env"
    /\ handlers' = Outer
    /\ log_env' = IF log.forced_debug THEN State(log) ELSE log_env
    /\ UNCHANGED <<safe, at, log, nested, signals, lives>>

UpdateEnv ==
    /\ handlers # <<>> /\ Inner.step = "env"
    /\ handlers' = Outer
    /\ log_env' = State(log)
    /\ UNCHANGED <<safe, at, log, nested, signals, lives>>

----------------------------------------------------------------------------
(* safe_run; handlers come first, in the same thread.                      *)

\* What the process before this one left in the environment.
Begin ==
    /\ at = "logging" /\ handlers = <<>> /\ at' = "running"
    /\ IF run_env = None THEN current_backoff' = Backoff /\ runs' = 0
       ELSE current_backoff' = run_env.current_backoff /\ runs' = run_env.runs
    /\ UNCHANGED <<logging, run_env, elapsed, crashes, signals, lives>>

Restart ==
    /\ run_env' = [current_backoff |-> current_backoff', runs |-> runs']
    /\ at' = "exec"

\* The main program returns: only this counts as a run.
Returns(ran) ==
    /\ at = "running" /\ handlers = <<>>
    /\ runs' = runs + 1 /\ elapsed' = elapsed + ran
    /\ UNCHANGED <<current_backoff, crashes>>
    /\ Restart
    /\ UNCHANGED <<logging, signals, lives>>

\* Mutant: that it has run once is excuse enough.
ThrowsExcused(ran) ==
    /\ at = "running" /\ handlers = <<>>
    /\ elapsed' = elapsed + ran /\ crashes' = crashes + 1
    /\ UNCHANGED <<current_backoff, runs>>
    /\ IF runs # 0 THEN Restart ELSE at' = "waiting" /\ UNCHANGED run_env
    /\ UNCHANGED <<logging, signals, lives>>

\* It throws.  After a run longer than the backoff there is no wait; the backoff
\* stays what it is, as it is another variable (currrent_backoff) that is reset.
Throws(ran) ==
    /\ at = "running" /\ handlers = <<>>
    /\ elapsed' = elapsed + ran /\ crashes' = crashes + 1
    /\ UNCHANGED <<current_backoff, runs>>
    /\ IF ran > current_backoff /\ runs # 0 THEN Restart
       ELSE at' = "waiting" /\ UNCHANGED run_env
    /\ UNCHANGED <<logging, signals, lives>>

Wait ==
    /\ at = "waiting" /\ handlers = <<>>
    /\ elapsed' = elapsed + current_backoff
    /\ current_backoff' = IF current_backoff < BackoffMax THEN current_backoff + Backoff
                          ELSE current_backoff
    /\ UNCHANGED <<runs, crashes>>
    /\ Restart
    /\ UNCHANGED <<logging, signals, lives>>

\* A KeyboardInterrupt ends it for good.
Interrupted ==
    /\ at = "running" /\ handlers = <<>> /\ at' = "ended"
    /\ UNCHANGED <<safe, logging, signals, lives>>

\* execvp: nothing is left but the environment.
Exec ==
    /\ at = "exec" /\ handlers = <<>> /\ lives < MaxLives
    /\ at' = "started" /\ lives' = lives + 1 /\ log' = None /\ nested' = FALSE
    /\ UNCHANGED <<safe, log_env, handlers, signals>>

LifeNext ==
    \/ \E level \in Levels, debug \in BOOLEAN : MakeLog(level, debug)
    \/ \E debug \in BOOLEAN : Signal(debug)
    \/ \E ran \in RunTimes : Returns(ran) \/ Throws(ran)
    \/ SignalTooEarly \/ SetLevel \/ SetForced \/ UpdateEnv
    \/ Begin \/ Wait \/ Interrupted \/ Exec

LifeSpec == LifeInit /\ [][LifeNext]_dvars

----------------------------------------------------------------------------

\* However a daemon fails, its crashes are spaced: there is one increment's time for
\* each that is over, whether or not it waited, and the wait does not grow past the
\* limit (saferun.py 84-102).  It does not start over after a long life either, although
\* "time will reset once the lambda runs any longer than the last backoff delay"
\* (saferun.py 29-30): line 93 assigns to a name that nothing reads.
CrashesSpaced ==
    /\ elapsed >= Backoff * (IF at = "waiting" THEN crashes - 1 ELSE crashes)
    /\ current_backoff < BackoffMax + Backoff

\* When no handler runs, the environment says what the logger does, to the
\* programs the daemon runs and to its next life: debugging or the level that
\* was set, and not the level that was forced (log.py 59-69).  Two handlers, one
\* in the other, may leave the logger itself at the wrong level.
Propagated ==
    log # None /\ handlers = <<>> =>
        /\ log_env = State(log)
        /\ ~nested => log.level = IF log.forced_debug THEN Debug ELSE log.last_level

=============================================================================
