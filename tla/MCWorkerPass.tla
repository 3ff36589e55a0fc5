----------------------------- MODULE MCWorkerPass -----------------------------
(* A pass with a discovery lane, the drain and the escalation lane; a tick   *)
(* is five minutes.                                                          *)
EXTENDS WorkerPass

CONSTANTS discover, drain

MCPlace == [l \in Lanes |-> IF l = Escalation THEN 2 ELSE 1]

(* Ten minutes for the stage and the drain, eight for the discovery lane     *)
(* (both rounded to two ticks), two for the escalation lane.                 *)
MCWatchdog == [l \in Lanes \cup {Stage} |-> IF l = Escalation THEN 1 ELSE 2]

=============================================================================
