------------------------------ MODULE MCLiveCall ------------------------------
(* Instances of LiveCall for TLC: the configurations choose the bounds. *)
EXTENDS LiveCall
===============================================================================
