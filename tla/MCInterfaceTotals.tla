------------------------- MODULE MCInterfaceTotals --------------------------
(* A card and the bond it may join, each with counters of both directions. *)
EXTENDS InterfaceTotals

CONSTANTS eth0, bond0, rx, tx
=============================================================================
