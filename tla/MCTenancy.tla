------------------------------ MODULE MCTenancy -------------------------------
(* Instance of Tenancy for TLC. *)
EXTENDS Tenancy, TLC

CONSTANTS r1, r2, e1, e2, n1

Symmetry == Permutations(Handlers) \cup Permutations(Emails)
===============================================================================
