---------------------------- MODULE MCAgentVersions ----------------------------
(* Instances of AgentVersions for TLC. *)
EXTENDS AgentVersions, TLC

CONSTANTS m1, m2, c1, t1, t2

ManagerSymmetry == Permutations(Managers) \cup Permutations(Texts)
===============================================================================
