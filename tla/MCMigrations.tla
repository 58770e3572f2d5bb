----------------------------- MODULE MCMigrations -----------------------------
(* Instances of Migrations for TLC. *)
EXTENDS Migrations, TLC

CONSTANTS old, new1, new2

\* A server of the first release, and two of the present one.
Releases == [p \in Process |-> IF p = old THEN 1 ELSE Len(Migration)]
==============================================================================
