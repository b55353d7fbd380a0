----------------------------- MODULE MCMigrations -----------------------------
(* An instance of Migrations for TLC. *)
EXTENDS Migrations, TLC

CONSTANTS o1, o2, l1, l2

MCOrgs   == {o1, o2}
MCLogs   == {l1, l2}
Symmetry == Permutations(MCOrgs) \union Permutations(MCLogs)
===============================================================================
