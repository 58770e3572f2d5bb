------------------------ MODULE MCApplicationTimeline ------------------------
(* Instances of ApplicationTimeline for TLC. *)
EXTENDS ApplicationTimeline, TLC

Symmetry == Permutations(Request)
==============================================================================
