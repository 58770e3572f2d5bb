------------------------------ MODULE MCAuthFlow ------------------------------
(* Instances of AuthFlow for TLC. *)
EXTENDS AuthFlow, TLC

Symmetry == Permutations(Tab) \cup Permutations(Token) \cup Permutations(Session)
==============================================================================
