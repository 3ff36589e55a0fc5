-------------------------- MODULE MCExecutionLease --------------------------
(* A small instance of ExecutionLease: a runtime on each of two computers. *)
EXTENDS ExecutionLease

CONSTANTS a1, b1, r1, r2

MCAgents == {a1, b1}
MCRuntimes == {r1, r2}
MCIdOf == [a \in MCAgents |-> IF a = b1 THEN r2 ELSE r1]

\* The runtime that may leave a lease behind is not one of these.
MCPersistent == {b1}
=============================================================================
