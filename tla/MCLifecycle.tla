---------------------------- MODULE MCLifecycle ----------------------------
(* OrderLifecycle on one or two orders and two handlers at a time. *)
EXTENDS OrderLifecycle, TLC
CONSTANTS o1, o2, c1, c2
ClientSymmetry == Permutations(Clients)
=============================================================================
