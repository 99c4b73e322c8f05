---------------------------- MODULE MCAuthSessions ----------------------------
(* Instance of AuthSessions for TLC. *)
EXTENDS AuthSessions, TLC

CONSTANTS r1, r2, p1, p2

Symmetry == Permutations(Requests) \cup Permutations(Passwords)
===============================================================================
