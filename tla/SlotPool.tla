------------------------------- MODULE SlotPool -------------------------------
(***************************************************************************)
(* What call admission promises, whatever the code does in between: every  *)
(* tenant has a pool of Capacity call slots (docs/ARCHITECTURE.md speaks   *)
(* of a distributed semaphore).  A call takes a slot at most once, gives   *)
(* it back, and is billed at most once, only if it had one.                *)
(***************************************************************************)
EXTENDS Naturals, FiniteSets

CONSTANTS Calls, Tenants, TenantOf, Capacity

VARIABLES
  held,    \* the calls that hold a slot of a tenant
  served,  \* the calls that ever held one
  billed   \* the calls that were billed

poolVars == <<held, served, billed>>

PoolInit ==
  /\ held = [t \in Tenants |-> {}]
  /\ served = {}
  /\ billed = {}

Acquire(c) ==
  /\ c \notin served
  /\ Cardinality(held[TenantOf[c]]) < Capacity
  /\ held' = [held EXCEPT ![TenantOf[c]] = @ \cup {c}]
  /\ served' = served \cup {c}
  /\ UNCHANGED billed

(* The owner gives the slot back, or the slots of a tenant expire.         *)
Release(t, S) ==
  /\ held' = [held EXCEPT ![t] = @ \ S]
  /\ UNCHANGED <<served, billed>>

Bill(c) ==
  /\ c \in served \ billed
  /\ billed' = billed \cup {c}
  /\ UNCHANGED <<held, served>>

PoolNext ==
  \/ \E c \in Calls : Acquire(c) \/ Bill(c)
  \/ \E t \in Tenants : \E S \in SUBSET held[t] : Release(t, S)

PoolSpec == PoolInit /\ [][PoolNext]_poolVars
===============================================================================
