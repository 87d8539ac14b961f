--------------------------- MODULE CheckoutLedger ---------------------------
(***************************************************************************)
(* What a submission promises whoever repeats it and whenever: under one   *)
(* idempotency key at most one order is ever placed, it stays placed, and  *)
(* it stays the customer's who placed it.                                  *)
(***************************************************************************)
CONSTANTS Keys, Orders, Customers

VARIABLE placed

Init == placed = {}

Place(k, o, u) ==
  /\ \A t \in placed : t.key # k /\ t.order # o
  /\ placed' = placed \cup { [key |-> k, order |-> o, customer |-> u] }

Next == \E k \in Keys, o \in Orders, u \in Customers : Place(k, o, u)

Spec == Init /\ [][Next]_placed
=============================================================================
