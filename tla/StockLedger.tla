---------------------------- MODULE StockLedger ----------------------------
(***************************************************************************)
(* What the order handlers promise about stock, whoever moves an order: a  *)
(* unit is set aside for an order while any is left, it stays set aside    *)
(* while the order is alive, and when the order ends it is spent or given  *)
(* back, once.                                                             *)
(***************************************************************************)
EXTENDS Naturals

CONSTANTS Orders, Stock

VARIABLES
  onHand,    \* units nobody holds
  unit       \* what became of the unit of each order

Init == onHand = Stock /\ unit = [o \in Orders |-> "none"]

Reserve(o) ==
  /\ unit[o] = "none" /\ onHand > 0
  /\ onHand' = onHand - 1
  /\ unit' = [unit EXCEPT ![o] = "reserved"]

Spend(o) ==
  /\ unit[o] = "reserved"
  /\ unit' = [unit EXCEPT ![o] = "spent"]
  /\ UNCHANGED onHand

Return(o) ==
  /\ unit[o] = "reserved"
  /\ onHand' = onHand + 1
  /\ unit' = [unit EXCEPT ![o] = "returned"]

Next == \E o \in Orders : Reserve(o) \/ Spend(o) \/ Return(o)

Spec == Init /\ [][Next]_<<onHand, unit>>

=============================================================================
