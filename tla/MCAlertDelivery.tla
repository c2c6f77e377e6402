-------------------------- MODULE MCAlertDelivery --------------------------
(* Instances of AlertDelivery for TLC.  In the run delivery_abandon a tick *)
(* is five seconds: dialling takes up to 2 of them, an SMTP dialogue up to *)
(* 6, Close waits 7.  In the run delivery it is ten seconds: 1, 3, and 4   *)
(* for the 35 seconds of Close.                                            *)
EXTENDS AlertDelivery

CONSTANTS w1, w2

TwoWorkers == {w1, w2}
OneWorker == {w1}
=============================================================================
