---------------------------- MODULE MCLoginLimiter ----------------------------
(***************************************************************************)
(* Small instances of LoginLimiter for TLC.                                *)
(***************************************************************************)
EXTENDS LoginLimiter, TLC

Symmetry == Permutations(Attempt)
==============================================================================
