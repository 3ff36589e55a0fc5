---------------------------- MODULE MCLocalHost ----------------------------
(* Small instances of LocalHost. *)
EXTENDS LocalHost

CONSTANTS r1, r2

MCRequests == {r1, r2}
MCDecisions == {"d1", "d2"}
=============================================================================
