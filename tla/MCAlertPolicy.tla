--------------------------- MODULE MCAlertPolicy ---------------------------
(* Instances of AlertPolicy for TLC: one windowed and one immediate alert. *)
EXTENDS AlertPolicy

CONSTANTS cpu, upload

MCConditions == {cpu, upload}
MCWindowed == {cpu}

(* Alerts switched on for good, with the windows and intervals given.      *)
AlwaysOn(durations, intervals) ==
    [enabled : {TRUE}, on : {MCConditions},
     duration : durations, interval : intervals]

(* Any metric may be missing, whatever it would show.                     *)
AnySample == [present : SUBSET MCConditions, met : SUBSET MCConditions]

(* Windows up to StateTTL, intervals on both sides of it, with alerts      *)
(* switched off altogether or one by one.                                  *)
MixedSettings ==
    AlwaysOn({0, 4}, {2}) \cup AlwaysOn({3}, {4}) \cup AlwaysOn({0}, {6}) \cup
    {[enabled |-> FALSE, on |-> MCConditions, duration |-> 3, interval |-> 2],
     [enabled |-> TRUE, on |-> {upload}, duration |-> 4, interval |-> 2]}
=============================================================================
