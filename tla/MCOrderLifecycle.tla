-------------------------- MODULE MCOrderLifecycle --------------------------
(* Instances of OrderLifecycle for TLC: one account owns every order, so     *)
(* that the orders compete for one balance.                                  *)
EXTENDS OrderLifecycle
CONSTANTS o1, o2, u1
MCOwner == [o \in Orders |-> u1]
=============================================================================
