--------------------------- MODULE MCClassTotals ----------------------------
(* One class of either kind.                                               *)
EXTENDS ClassTotals, TLC

CONSTANTS lanIngress, wanEgress

Symmetry == Permutations({lanIngress, wanEgress})
=============================================================================
