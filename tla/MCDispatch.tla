----------------------------- MODULE MCDispatch -----------------------------
(* Dispatch on a few orders, riders, workers and desks.                    *)
EXTENDS Dispatch, TLC
CONSTANTS o1, o2, r1, r2, w1, w2, d1
RiderSymmetry == Permutations(Riders)
PoolSymmetry == Permutations(Orders) \cup Permutations(Workers)
=============================================================================
