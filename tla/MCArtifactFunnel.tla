--------------------------- MODULE MCArtifactFunnel ---------------------------
(* The funnel with two packages of one publish identity, one of them          *)
(* doctrinal, and a page under another slug that is public from the start.    *)
EXTENDS ArtifactFunnel

CONSTANTS a1, a2, s1, s2

MCSameSlug == [a \in Artifacts |-> s1]

=============================================================================
