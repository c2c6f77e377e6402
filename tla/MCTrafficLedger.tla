-------------------------- MODULE MCTrafficLedger ---------------------------
(* A month of one day and one of three: the first ends under the zone that *)
(* is a day behind, days of the running month pass the retention, and the  *)
(* last days of the second have no counterpart in the first.               *)
EXTENDS TrafficLedger, TLC

MCFirstDayOf == (1 :> 0) @@ (2 :> 1)
MCRetentionDays == {1}
MCRetentionMonths == {1}
=============================================================================
