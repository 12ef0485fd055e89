----------------------------- MODULE MCSessions -----------------------------
(* A small instance of Sessions for TLC: the constants are in the          *)
(* configuration.                                                          *)
EXTENDS Sessions
=============================================================================
