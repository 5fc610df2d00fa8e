------------------------------ MODULE MCMatch ------------------------------
(***************************************************************************)
(* Values for model checking Match: one tick is the warning lead, a        *)
(* movement phase lasts two ticks and the other phases one.                *)
(***************************************************************************)
EXTENDS Match

CONSTANTS hold, attack

MCOrderSets == {hold, attack}

MCDuration == [p \in TimedPhases |-> IF p = "ORDERS" THEN 2 ELSE 1]
=============================================================================
