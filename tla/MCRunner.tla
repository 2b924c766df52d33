------------------------------ MODULE MCRunner ------------------------------
(* Small instances of Runner for TLC. *)
EXTENDS Runner, TLC

CONSTANTS t1, t2

\* Two tasks that may not run together, of equal or different priority.
PairClass     == t1 :> "exclusive" @@ t2 :> "normal"
PairDuration  == t1 :> 2 @@ t2 :> 2
EqualPriority == t1 :> 0 @@ t2 :> 0
LadderPriority == t1 :> 1 @@ t2 :> 0

MultiClass    == t1 :> "background-multi"
MultiDuration == t1 :> 4
MultiPriority == t1 :> 0
MultiLead     == t1 :> 0

Workers == Permutations(Thread)

\* The node leads t1 and takes part in t2.
LeadAndPart   == t1 :> 0 @@ t2 :> 1
=============================================================================
