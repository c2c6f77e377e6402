----------------------------- MODULE MCSessions -----------------------------
(* Two logins for a map of one.                                          *)
EXTENDS Sessions

MCTokens == 1..2
=============================================================================
