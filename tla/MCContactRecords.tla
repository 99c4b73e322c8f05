-------------------------- MODULE MCContactRecords ---------------------------
(* Instance of ContactRecords for TLC. *)
EXTENDS ContactRecords, TLC

CONSTANTS r1, r2, r3, p1, p2, l1

RequestSymmetry == Permutations(Requests)
===============================================================================
