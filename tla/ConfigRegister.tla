--------------------------- MODULE ConfigRegister ---------------------------
(***************************************************************************)
(* What /api/config promises its clients: the configuration is one durable *)
(* register.  An update is incorporated once and never lost again, and it  *)
(* is incorporated before it is acknowledged; a read returns the register  *)
(* as it was when the read started, or later.  It is a regular register: a *)
(* read may miss an update that is not acknowledged yet, even if another   *)
(* read has returned it before.                                            *)
(*                                                                         *)
(* A configuration is represented by the set of the updates in it.         *)
(***************************************************************************)
CONSTANTS Puts, Gets, None

VARIABLES
    value,  \* updates incorporated
    acked,  \* updates acknowledged to their client
    floor,  \* floor[g]: what had been acknowledged when g started
    result  \* result[g]: what g has returned, None before

registerVars == <<value, acked, floor, result>>

Init ==
    /\ value = {} /\ acked = {}
    /\ floor = [g \in Gets |-> {}]
    /\ result = [g \in Gets |-> None]

Commit(p) ==
    /\ value' = value \cup {p}
    /\ UNCHANGED <<acked, floor, result>>

Ack(p) ==
    /\ p \in value
    /\ acked' = acked \cup {p}
    /\ UNCHANGED <<value, floor, result>>

StartRead(g) ==
    /\ floor' = [floor EXCEPT ![g] = acked]
    /\ UNCHANGED <<value, acked, result>>

FinishRead(g, v) ==
    /\ floor[g] \subseteq v /\ v \subseteq value
    /\ result' = [result EXCEPT ![g] = v]
    /\ UNCHANGED <<value, acked, floor>>

Next ==
    \/ \E p \in Puts : Commit(p) \/ Ack(p)
    \/ \E g \in Gets : StartRead(g) \/ \E v \in SUBSET value : FinishRead(g, v)

Spec == Init /\ [][Next]_registerVars
=============================================================================
