----------------------------- MODULE MCVoiceCalls -----------------------------
(* Instances of VoiceCalls for TLC. *)
EXTENDS VoiceCalls, TLC

CONSTANTS c1, c2, c3, t1

OneTenant == [c \in Calls |-> t1]

CallSymmetry == Permutations(Calls)
===============================================================================
