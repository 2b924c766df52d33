---------------------------- MODULE MCArchiving ----------------------------
(***************************************************************************)
(* Values of the constants of Archiving for TLC: two archivings of a run   *)
(* and as many threads.  The first asks for a retry and has a time to      *)
(* live, the second is for failed runs only and has a transform that may   *)
(* leave nothing to send.                                                  *)
(***************************************************************************)
EXTENDS Archiving

CONSTANTS a1, a2, r1

MCOfRun == [a \in {a1, a2} |-> r1]
MCRuns == a1 :> "all" @@ a2 :> "failed"
MCTTL == a1 :> 1 @@ a2 :> Forever
MCScript == a1 :> {"json"} @@ a2 :> {"json", "null", "error"}
MCRetries == a1 :> <<1>> @@ a2 :> <<>>
=============================================================================
