-------------------------------- MODULE Chain --------------------------------
(***************************************************************************)
(* ChainedExecRunner of program.py: a tool is run inside the contexts of   *)
(* its task.  Scripts in temporary files call each other: each runs a      *)
(* context's program, which changes the process and executes the next, the *)
(* last of them the tool.  The contexts' programs are plug-ins outside.    *)
(***************************************************************************)
EXTENDS Integers, Sequences

CONSTANTS MaxContexts, None

VARIABLES
    calls,          \* how many contexts there are; None before
    stages,         \* the files, what each holds: [runs, exec], or None
    phase, script,  \* what is going on, and the script that is executed
    applied,        \* the contexts that have changed the process
    errored         \* whether making the chain has failed

hvars == <<calls, stages, phase, script, applied, errored>>

ChainInit ==
    /\ calls \in 0 .. MaxContexts
    /\ stages = <<>> /\ phase = "making" /\ script = 1 /\ applied = <<>> /\ errored = FALSE

\* Without contexts there is no chain: the tool is run by itself.
Alone ==
    /\ phase = "making" /\ calls = 0
    /\ phase' = "tool"
    /\ UNCHANGED <<calls, stages, script, applied, errored>>

\* All files are made first, so that each script can name the next.
Mkstemp ==
    /\ phase = "making" /\ calls > 0 /\ Len(stages) < calls + 1
    /\ stages' = Append(stages, None)
    /\ UNCHANGED <<calls, phase, script, applied, errored>>

Unwritten == {n \in DOMAIN stages : stages[n] = None}

\* The last one runs the tool and calls nothing.
Script(n) == [runs |-> n, exec |-> n + 1]

\* Mutant: each script calls the one that is written last.
WriteToLast ==
    /\ phase = "making" /\ Len(stages) = calls + 1 /\ Unwritten # {}
    /\ LET n == CHOOSE i \in Unwritten : \A j \in Unwritten : i <= j
       IN  stages' = [stages EXCEPT ![n] = [Script(n) EXCEPT !.exec = calls + 1]]
    /\ UNCHANGED <<calls, phase, script, applied, errored>>

Write ==
    /\ phase = "making" /\ Len(stages) = calls + 1 /\ Unwritten # {}
    /\ LET n == CHOOSE i \in Unwritten : \A j \in Unwritten : i <= j
       IN  stages' = [stages EXCEPT ![n] = Script(n)]
    /\ UNCHANGED <<calls, phase, script, applied, errored>>

\* Whatever goes wrong, the files are removed.
Fail ==
    /\ phase = "making" /\ calls > 0 /\ (Len(stages) < calls + 1 \/ Unwritten # {})
    /\ phase' = "failed" /\ stages' = <<>> /\ errored' = TRUE
    /\ UNCHANGED <<calls, script, applied>>

\* run: the first script; afterwards the files stay ("pass # os.unlink(remove)").
Run ==
    /\ phase = "making" /\ Len(stages) = calls + 1 /\ calls > 0 /\ Unwritten = {}
    /\ phase' = "running"
    /\ UNCHANGED <<calls, stages, script, applied, errored>>

\* A context changes the process and executes what it is told to, or ends it.
Context ==
    /\ phase = "running" /\ stages[script].runs <= calls
    /\ \/ /\ applied' = Append(applied, stages[script].runs)
          /\ script' = stages[script].exec /\ UNCHANGED phase
       \/ phase' = "failed" /\ UNCHANGED <<script, applied>>
    /\ UNCHANGED <<calls, stages, errored>>

Tool ==
    /\ phase = "running" /\ stages[script].runs > calls
    /\ phase' = "tool"
    /\ UNCHANGED <<calls, stages, script, applied, errored>>

ChainNext == Alone \/ Mkstemp \/ Write \/ Fail \/ Run \/ Context \/ Tool

----------------------------------------------------------------------------

\* The tool runs inside all of its contexts, each changed once and in their
\* order, or not at all; and a chain that could not be made leaves no files.
ToolInsideContexts ==
    /\ phase = "tool" => applied = [n \in 1 .. calls |-> n]
    /\ errored => stages = <<>> /\ applied = <<>>

=============================================================================
