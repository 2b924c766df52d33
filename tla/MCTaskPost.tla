----------------------------- MODULE MCTaskPost -----------------------------
(***************************************************************************)
(* Values of the constants of TaskPost for TLC.  Task t1 repeats and has   *)
(* three participants, t2 is a one-shot task led by one of the others that *)
(* is to start in a while, or was to start longer ago than tasks are kept. *)
(***************************************************************************)
EXTENDS TaskPost, TLC

CONSTANTS t1, t2, a, b, c, x, y, z

MCParty == t1 :> <<a, b, c>> @@ t2 :> <<b, a>>
MCWanted == t1 :> NotGiven @@ t2 :> <<y, x>>
MCOffers == a :> {<<x, y, z>>} @@ b :> {<<y, x>>, <<z, y, x>>} @@ c :> {<<y, x>>, <<z>>}
MCDates == {-1, 3}
=============================================================================
