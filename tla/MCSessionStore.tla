---------------------------- MODULE MCSessionStore ----------------------------
(***************************************************************************)
(* Small instances of SessionStore for TLC.                                *)
(***************************************************************************)
EXTENDS SessionStore, TLC

\* Requests are interchangeable, and so are sessions: no definition names one.
Symmetry == Permutations(Request) \cup Permutations(Session)
==============================================================================
