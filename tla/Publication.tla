---------------------------- MODULE Publication ----------------------------
(***************************************************************************)
(* What the publishing funnel promises, whatever its stages: a page comes  *)
(* to be shown, or shown again, only on behalf of an artifact that stands  *)
(* judged at that moment.                                                  *)
(***************************************************************************)
CONSTANTS Artifacts, Slugs, SlugOf
VARIABLES judged,  \* the artifacts whose present fields have been judged fit
          shown    \* shown[s]: the page of s is public
pub == <<judged, shown>>

\* At first only pages are shown that no artifact is for.
Init ==
  /\ judged = {}
  /\ shown = [s \in Slugs |-> \A a \in Artifacts : SlugOf[a] # s]

Judge ==
  judged' \in SUBSET Artifacts /\ UNCHANGED shown
Show(a) ==
  a \in judged /\ shown' = [shown EXCEPT ![SlugOf[a]] = TRUE] /\ UNCHANGED judged
Hide(s) ==
  shown' = [shown EXCEPT ![s] = FALSE] /\ UNCHANGED judged

Next == Judge \/ (\E a \in Artifacts : Show(a)) \/ (\E s \in Slugs : Hide(s))
Spec == Init /\ [][Next]_pub

=============================================================================
