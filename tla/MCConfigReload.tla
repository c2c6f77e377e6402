--------------------------- MODULE MCConfigReload ---------------------------
(* Instances of ConfigReload for TLC: updates that touch different fields  *)
(* and updates that set one field in opposite directions.                  *)
EXTENDS ConfigReload, TLC

CONSTANTS p1, p2, p3, g1, g2

Set(interval, split) == [interval |-> interval, split |-> split]

MCInitial == [applied |-> {}, interval |-> 3, split |-> FALSE]

TwoPatches == (p1 :> Set(5, Keep)) @@ (p2 :> Set(3, TRUE))
ThreePatches == TwoPatches @@ (p3 :> Set(Keep, FALSE))

TwoPuts == {p1, p2}
ThreePuts == {p1, p2, p3}
TwoGets == {g1, g2}
NoGets == {}
=============================================================================
