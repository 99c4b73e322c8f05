----------------------------- MODULE MCPostCall -------------------------------
(* Instance of PostCall for TLC. *)
EXTENDS PostCall, TLC

CONSTANTS c1, e1, e2

EndpointSymmetry == Permutations(Endpoints)
===============================================================================
