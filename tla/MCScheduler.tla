----------------------------- MODULE MCScheduler -----------------------------
(* Small instances of Scheduler for TLC. *)
EXTENDS Scheduler, TLC

CONSTANTS t1, t2, a, b, c

\* Each node leads a task that the other takes part in.
CrossParticipants == t1 :> <<a, b, c>> @@ t2 :> <<b, a>>
Repeats           == t1 :> 2 @@ t2 :> 0
Slips             == t1 :> 0 @@ t2 :> 1
Limits            == t1 :> 2 @@ t2 :> 1
=============================================================================
