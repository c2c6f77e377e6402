--------------------------- MODULE AlertThrottle ---------------------------
(***************************************************************************)
(* What package alerter keeps of its promise about the rate of its mails:  *)
(* a subject that was mailed stays silent for the interval configured when *)
(* the next mail is decided.  The promise is kept over Memory only: after  *)
(* a longer silence a mail may go out whatever the interval.  The state is *)
(* how long each subject has been silent, saturating at Memory + 1, and    *)
(* the interval in force; there is no table of timestamps here and nothing *)
(* is ever pruned.                                                         *)
(***************************************************************************)
EXTENDS Integers, FiniteSets

CONSTANTS
    Subjects,   \* mail subjects, one for each alert condition
    Intervals,  \* values alert.interval may take
    Memory      \* silences longer than this are not told apart

VARIABLES
    interval,   \* the configured interval
    silence,    \* silence[s]: time since the last mail about s
    mailed      \* subjects mailed by the last step

throttleVars == <<interval, silence, mailed>>

Init ==
    /\ interval \in Intervals
    /\ silence = [s \in Subjects |-> Memory + 1]
    /\ mailed = {}

Pass ==
    /\ silence' = [s \in Subjects |->
                     IF silence[s] <= Memory THEN silence[s] + 1 ELSE Memory + 1]
    /\ mailed' = {}
    /\ UNCHANGED interval

Reconfigure ==
    /\ interval' \in Intervals
    /\ mailed' = {}
    /\ UNCHANGED silence

(* Every subject mailed in one round has been silent for the interval in   *)
(* force, or for longer than Memory.                                       *)
Mail(ss) ==
    /\ \A s \in ss : silence[s] >= interval \/ silence[s] > Memory
    /\ silence' = [s \in Subjects |-> IF s \in ss THEN 0 ELSE silence[s]]
    /\ mailed' = ss
    /\ UNCHANGED interval

Next == Pass \/ Reconfigure \/ \E ss \in SUBSET Subjects : Mail(ss)

Spec == Init /\ [][Next]_throttleVars
=============================================================================
