------------------------------ MODULE MCBilling -------------------------------
(* Instances of Billing for TLC. *)
EXTENDS Billing, TLC

CONSTANTS r1, r2, l1, l2

Symmetry == Permutations(Requests) \cup Permutations(Lines)
===============================================================================
