------------------------------ MODULE RunLife -------------------------------
(***************************************************************************)
(* What the run table and the runner promise about each single run: it is  *)
(* put on the schedule once, is active at most once, and once it is over   *)
(* it stays over until it is removed, never to come back.                  *)
(***************************************************************************)
CONSTANT Run

VARIABLE life

Stages == {"none", "scheduled", "active", "over", "gone"}

TypeOK == life \in [Run -> Stages]

Init == life = [r \in Run |-> "none"]

\* Where a run may go from each stage.  A run that is dead on arrival, or
\* that is inserted with its result, begins its life when it is over.
MayBecome ==
  [none      |-> {"none", "scheduled", "over"},
   scheduled |-> {"scheduled", "active", "over", "gone"},
   active    |-> {"active", "over", "gone"},
   over      |-> {"over", "gone"},
   gone      |-> {"gone"}]

\* Sweeping and purging the table moves many runs in one step.
Next == life' \in [Run -> Stages] /\ \A r \in Run : life'[r] \in MayBecome[life[r]]

Spec == Init /\ [][Next]_life
=============================================================================
