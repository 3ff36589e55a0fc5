------------------------- MODULE MCStructuredIngest -------------------------
(* A small instance of StructuredIngest: two pages of two entities, and an *)
(* empty third one that ends the corpus.                                   *)
EXTENDS StructuredIngest

CONSTANTS w1, w2, b1

MCWorkers == {w1}
MCTwoWorkers == {w1, w2}
MCSweeps == {b1}
MCFit == {1, 4}
MCBehindDead == {2, 4}   \* row 1 is dead
MCUnfit == {3}
=============================================================================
