----------------------------- MODULE MCSockets -----------------------------
(* A small instance of MarketSockets for TLC: the constants are in the     *)
(* configurations.                                                         *)
EXTENDS MarketSockets
=============================================================================
