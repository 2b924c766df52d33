------------------------------- MODULE Library -------------------------------
(***************************************************************************)
(* The parts of the library that keep to themselves, one in each scene:    *)
(* the life of a daemon, its exit, its loop's notifications, a set of      *)
(* connections, the requests to servers and to the database, the resolver, *)
(* the chain of contexts, the Esmond archiver; and, with nothing but an    *)
(* input, what is made of powstream's output, of the limits on a test and  *)
(* of the scripts of a limit file.                                         *)
(***************************************************************************)
EXTENDS DaemonLife, FiniteSets

CONSTANTS
    Program, OfMain, Stubborn, Foreign, MaxExits, Main, Worker, NoOne,
    Key, CacheTimes, PurgeInterval, MaxItem, MaxNow,
    Sender, Status,
    ConnectTries, QueryTries, MaxQueries,
    Task, MaxWorkers, Skipped, MaxChanges,
    Candidate, Right, Threads,
    MaxContexts,
    Archiver, Empty, Garbled,
    Archived, Recorded,     \* what the Esmond archiver is given: to archive, to look at
    Asked                   \* the inputs of what has no steps

ASSUME LibraryAssumption ==
    /\ OfMain \subseteq Program /\ Stubborn \subseteq Program /\ Foreign \subseteq Program
    /\ Cardinality(OfMain) <= 1 /\ MaxExits \in Nat
    /\ {Main, Worker, NoOne} \cap Program = {}
    /\ CacheTimes \subseteq Nat /\ PurgeInterval \in Nat
    /\ ConnectTries \in Nat /\ QueryTries \in Nat \ {0}
    /\ MaxQueries \in Nat /\ MaxContexts \in Nat /\ Skipped \subseteq Task
    /\ None # "answered" /\ None \notin Int

VARIABLES
    scene,
    xat, alive, initialized, running, program_lock, exit_lock, registered,
    worker, victim, handler, depth, xsignals, exited, condemned,
    clock, items, next_purge, request, made, failed,
    gave, shared, own, sending,
    asks, connections, lost, executed,
    due, socket, pending, loop, wait, workers, changes,
    todo, taken, asking, queue, result,
    calls, stages, phase, script, applied, errored,
    given, mcache, declared, stored, archiver, answer, forgot,
    asked

Leave == INSTANCE GracefulExit WITH
    at <- xat, signals <- xsignals, MaxSignals <- MaxExits
Cache == INSTANCE ConnectionCache
Http == INSTANCE Url
Database == INSTANCE DbCursor
Notes == INSTANCE Notifications
Bulk == INSTANCE Resolve
Inside == INSTANCE Chain
Archive == INSTANCE Esmond
Output == INSTANCE ToolOutput
Params == INSTANCE PluginLimits
Scripts == INSTANCE TaskScripts

ASSUME AskedAssumption ==
    /\ Asked # {}
    /\ \A x \in Asked :
          /\ x.of = "endpoints" => Params!AreEnds(x.limit, x.source, x.dest, x.version)
          /\ x.of = "value" => /\ x.limit \in [of : Int \X Int, invert : BOOLEAN]
                               /\ x.value \in Int /\ x.upper \in Int
          /\ x.of = "script" => Scripts!IsScript(x.script)
          /\ x.of = "replies" => Http!AreReplies(x.replies)
          /\ x.of = "packets" => Output!IsPackets(x.packets) /\ x.raw \in BOOLEAN

ASSUME GivenAssumption ==
    Archived # {} /\ Recorded # {} /\ \A g \in Archived \cup Recorded : Archive!IsGiven(g)

xvars == <<xat, alive, initialized, running, program_lock, exit_lock, registered,
           worker, victim, handler, depth, xsignals, exited, condemned>>
cvars == <<clock, items, next_purge, request, made, failed>>
uvars == <<gave, shared, own, sending>>
bvars == <<asks, connections, lost, executed>>
nvars == <<due, socket, pending, loop, wait, workers, changes>>
qvars == <<todo, taken, asking, queue, result>>
hvars == <<calls, stages, phase, script, applied, errored>>
evars == <<given, mcache, declared, stored, archiver, answer, forgot>>

Scenes ==
    {"life", "exit", "cache", "url", "db", "notes", "resolve", "chain", "archive", "input"}

vars == <<scene, dvars, xvars, cvars, uvars, bvars, nvars, qvars, hvars, evars, asked>>

AnArchived == CHOOSE g \in Archived : TRUE
ARecorded == CHOOSE g \in Recorded : TRUE
AnAsked == CHOOSE x \in Asked : TRUE

\* What a scene may start with, the others having nothing to do.
LibraryInit ==
    /\ scene \in Scenes
    /\ LifeInit /\ Leave!Init /\ Cache!CacheInit /\ Http!UrlInit /\ Database!DbInit
    /\ Notes!NoteInit /\ Bulk!ResolveInit
    /\ Inside!ChainInit /\ Archive!EsmondInit
    /\ scene # "url" => gave = [s \in Sender |-> None]
    /\ scene # "notes" => due = {}
    /\ scene # "resolve" => todo = {}
    /\ scene # "chain" => calls = 0
    /\ given \in IF scene = "archive" THEN Archived
                 ELSE IF scene = "input" THEN Recorded
                 ELSE {AnArchived}
    /\ asked \in IF scene = "input" /\ given = ARecorded THEN Asked ELSE {AnAsked}

LibraryNext ==
    \/ /\ scene = "life" /\ LifeNext
       /\ UNCHANGED <<scene, xvars, cvars, uvars, bvars, nvars, qvars, hvars, evars, asked>>
    \/ /\ scene = "exit" /\ Leave!Next
       /\ UNCHANGED <<scene, dvars, cvars, uvars, bvars, nvars, qvars, hvars, evars, asked>>
    \/ /\ scene = "cache" /\ Cache!CacheNext
       /\ UNCHANGED <<scene, dvars, xvars, uvars, bvars, nvars, qvars, hvars, evars, asked>>
    \/ /\ scene = "url" /\ Http!UrlNext
       /\ UNCHANGED <<scene, dvars, xvars, cvars, bvars, nvars, qvars, hvars, evars, asked>>
    \/ /\ scene = "db" /\ Database!DbNext
       /\ UNCHANGED <<scene, dvars, xvars, cvars, uvars, nvars, qvars, hvars, evars, asked>>
    \/ /\ scene = "notes" /\ Notes!NoteNext
       /\ UNCHANGED <<scene, dvars, xvars, cvars, uvars, bvars, qvars, hvars, evars, asked>>
    \/ /\ scene = "resolve" /\ Bulk!ResolveNext
       /\ UNCHANGED <<scene, dvars, xvars, cvars, uvars, bvars, nvars, hvars, evars, asked>>
    \/ /\ scene = "chain" /\ Inside!ChainNext
       /\ UNCHANGED <<scene, dvars, xvars, cvars, uvars, bvars, nvars, qvars, evars, asked>>
    \/ /\ scene = "archive" /\ Archive!EsmondNext
       /\ UNCHANGED <<scene, dvars, xvars, cvars, uvars, bvars, nvars, qvars, hvars, asked>>

\* What goes on by itself: programs end or are ended and the handler and the worker
\* of an exit run; the scheduler's loop is woken or stops waiting, its workers
\* end; a thread of the resolver's pool waits for an answer only so long.
Fairness ==
    /\ WF_xvars(scene = "exit" /\ Leave!Exiting)
    /\ WF_xvars(scene = "exit" /\ Leave!WorkerNext)
    /\ \A p \in Program : WF_xvars(scene = "exit" /\ Leave!RunProgram(p))
    /\ WF_nvars(scene = "notes" /\ Notes!MainLoop)
    /\ \A t \in Task : WF_nvars(scene = "notes" /\ Notes!End(t))
    /\ \A c \in Candidate : WF_qvars(scene = "resolve" /\ Bulk!Resolving(c))

LibrarySpec ==
    /\ LibraryInit
    /\ [][LibraryNext]_vars
    /\ Fairness

----------------------------------------------------------------------------
(* The properties, each of its own part; CrashesSpaced and Propagated are   *)
(* DaemonLife's.                                                           *)

\* Registered programs are gone when the daemon is, if it may kill them and their
\* threads are not just about to (program.py 29-31).
KilledOff == Leave!KilledOff

\* A signal makes the daemon exit, but for four traps (exit.py 64-83).
EverySignalExits == Leave!EverySignalExits

\* No connection that failed is used again, none is kept long (expiringset.py 107);
\* what goes to a server is said to be what it is (psurl.py 116-165); and what the
\* database answers was asked on the connection the answer is from (dbcursor.py 80).
ChannelsSound == Cache!ChannelsSound /\ Http!RequestsSound /\ Database!StatementsSound

\* A task that is due gets a worker (scheduler 837-925, db.py 162-195).
ChangesHeeded == Notes!ChangesHeeded

\* Each name gets its own answer, or none, in the end (psdns.py 110-205).
BulkAnswers == Bulk!BulkAnswers

\* The tool runs inside its contexts, or not at all (program.py 275-422).
ToolInsideContexts == Inside!ToolInsideContexts

\* What is archived is declared, but for what never is, and sound (esmond_util.py
\* 177-193, 285-434).
DataFits == Archive!DataFits

\* A key the server has forgotten does not stay (esmond/archive 285-289).
StaleKeyDropped == Archive!StaleKeyDropped

\* Packets are counted once and their quantiles are right but for rounding
\* (powstream_utils.py 155-257, latency_utils.py 73-135), and what servers answer is
\* heard (psurl.py 62-91, api.py 150-261).
OutputAgrees ==
    /\ asked.of = "replies" => Http!AnswersSound(asked.replies)
    /\ asked.of = "packets" => Output!PacketsAgree(asked.packets, asked.raw)

\* A test passes the limits on its parameters if they hold of whatever it may do
\* (limits.py 18-368); and scripts do to a task what they say (rewriter.py 74-113,
\* prioritizer.py 91-119).
LimitsAgree ==
    /\ asked.of = "endpoints" =>
        Params!EndpointsAgree(asked.limit, asked.source, asked.dest, asked.version)
    /\ asked.of = "value" => Params!ValuesAgree(asked.limit, asked.value, asked.upper)
    /\ asked.of = "script" => Scripts!ScriptsSound(asked.script, asked.task)

=============================================================================
