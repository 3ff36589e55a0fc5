------------------------------- MODULE Turns -------------------------------
(***************************************************************************)
(* What the queue before the brain promises, whatever timeouts, processes  *)
(* and restarts lie beneath it: "a turn is granted to one caller at a      *)
(* time, in arrival order".                                                *)
(***************************************************************************)
EXTENDS Sequences, SequencesExt

CONSTANT Calls
VARIABLES queue,   \* the callers that wait, the first to arrive in front
          serving  \* the callers that have the turn
turns == <<queue, serving>>

Init == queue = <<>> /\ serving = {}

\* A caller in neither place takes a free turn, or queues up behind the others.
Arrive(c) ==
  /\ c \notin serving /\ ~ Contains(queue, c)
  /\ \/ serving = {} /\ serving' = {c} /\ UNCHANGED queue
     \/ serving # {} /\ queue' = Append(queue, c) /\ UNCHANGED serving

\* A caller gives up waiting; the others keep their places.
Leave(i) == queue' = RemoveAt(queue, i) /\ UNCHANGED serving

\* The turn ends, and the first in the queue has the next one.
Advance ==
  /\ serving # {} /\ queue # <<>>
  /\ serving' = {Head(queue)} /\ queue' = Tail(queue)

\* The turn ends, and whoever waited is turned away with it.
Disperse == serving # {} /\ serving' = {} /\ queue' = <<>>

Next ==
  \/ \E c \in Calls : Arrive(c)
  \/ \E i \in 1 .. Len(queue) : Leave(i)
  \/ Advance
  \/ Disperse

Spec == Init /\ [][Next]_turns
=============================================================================
