--------------------------- MODULE MCDailyMetrics ---------------------------
(* Two metrics, which differ when a collector is missing; two usages, so   *)
(* that an average differs from a peak.                                    *)
EXTENDS DailyMetrics, TLC

MCUsages == {1, 3}
MCRetentionDays == {0, 1}
MCSymmetry == Permutations(Metrics)
=============================================================================
