---------------------------- MODULE AlertService ----------------------------
(***************************************************************************)
(* alerter/alerter.go: what its two halves share.  Close sets the flag     *)
(* under sendMu; send reads it under the same lock and drops the mail when *)
(* it is set.  AlertPolicy models the decisions that call send, and        *)
(* AlertDelivery the queue behind it.                                      *)
(***************************************************************************)
VARIABLE closed
=============================================================================
