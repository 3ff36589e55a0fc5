--------------------------- MODULE MCBrainBridge ---------------------------
(* A small instance of BrainBridge. *)
EXTENDS BrainBridge

CONSTANTS c1, c2, c3

MCCalls == {c1, c2, c3}
=============================================================================
