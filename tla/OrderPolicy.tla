---------------------------- MODULE OrderPolicy ----------------------------
(***************************************************************************)
(* The order and delivery statuses of the Prisma schema and the pure       *)
(* policy predicates the handlers consult before they write: which status  *)
(* each actor may act on, and which status changes give reserved stock     *)
(* back.  Scope checks (is this the owner, the merchant, the rider) are    *)
(* left to the modules that know who is calling.                           *)
(***************************************************************************)

OrderStatus ==
  { "PLACED", "MERCHANT_ACCEPTED", "PREPARING", "READY", "RIDER_ASSIGNED",
    "RIDER_ACCEPTED", "PICKED_UP", "ON_THE_WAY", "DELIVERED", "CANCELLED",
    "MERCHANT_REJECTED", "FAILED_DELIVERY" }

(* "NO_ROW" stands for an order that has no Delivery row yet. *)
DeliveryStatus ==
  { "NO_ROW", "PENDING_ASSIGNMENT", "ASSIGNED", "ACCEPTED", "PICKED_UP",
    "ON_THE_WAY", "DELIVERED", "FAILED", "CANCELLED" }

(* The statuses assignAndNotify counts under the advisory lock. *)
ActiveDelivery == { "ASSIGNED", "ACCEPTED", "PICKED_UP", "ON_THE_WAY" }

(* The statuses findEligibleRiders excludes: one fewer. *)
BusyForEligibility == { "ASSIGNED", "PICKED_UP", "ON_THE_WAY" }

CustomerCancellable == { "PLACED", "MERCHANT_ACCEPTED", "PREPARING", "READY" }

AdminCancellable ==
  CustomerCancellable \cup
    { "RIDER_ASSIGNED", "RIDER_ACCEPTED", "PICKED_UP", "ON_THE_WAY" }

AdminAssignable == { "MERCHANT_ACCEPTED", "RIDER_ASSIGNED" }

(* When a merchant may start preparing: a pickup order straight after      *)
(* acceptance, a delivery order only once a rider has accepted.            *)
PreparableFrom(deliveryType) ==
  IF deliveryType = "PICKUP" THEN { "MERCHANT_ACCEPTED" }
                             ELSE { "RIDER_ACCEPTED" }

(* shouldReleaseInventoryForOrderTransition *)
ReleasesInventory(from, to) ==
  /\ from # to
  /\ to \in { "CANCELLED", "MERCHANT_REJECTED" }
  /\ from \in { "PLACED", "MERCHANT_ACCEPTED" }

(***************************************************************************)
(* The rider transitions: the order and delivery statuses each action      *)
(* writes, and the pairs it may act on (the rider must hold the delivery). *)
(***************************************************************************)
RiderOps ==
  { "accept", "reject", "riderCancel", "pickUp", "onTheWay", "deliver", "fail" }

RiderTarget ==
  [ accept      |-> [order |-> "RIDER_ACCEPTED",    delivery |-> "ACCEPTED"],
    reject      |-> [order |-> "MERCHANT_ACCEPTED", delivery |-> "PENDING_ASSIGNMENT"],
    riderCancel |-> [order |-> "MERCHANT_ACCEPTED", delivery |-> "PENDING_ASSIGNMENT"],
    pickUp      |-> [order |-> "PICKED_UP",         delivery |-> "PICKED_UP"],
    onTheWay    |-> [order |-> "ON_THE_WAY",        delivery |-> "ON_THE_WAY"],
    deliver     |-> [order |-> "DELIVERED",         delivery |-> "DELIVERED"],
    fail        |-> [order |-> "FAILED_DELIVERY",   delivery |-> "FAILED"] ]

RiderMay(op, order, delivery) ==
  \/ /\ op \in { "accept", "reject" }
     /\ order = "RIDER_ASSIGNED" /\ delivery = "ASSIGNED"
  \/ /\ op = "riderCancel"
     /\ order \in { "RIDER_ASSIGNED", "RIDER_ACCEPTED", "PREPARING", "READY" }
     /\ delivery \in { "ASSIGNED", "ACCEPTED" }
  \/ /\ op = "pickUp"
     /\ order = "READY" /\ delivery \in { "ACCEPTED", "ASSIGNED" }
  \/ op = "onTheWay" /\ order = "PICKED_UP" /\ delivery = "PICKED_UP"
  \/ op = "deliver" /\ order = "ON_THE_WAY" /\ delivery = "ON_THE_WAY"
  \/ /\ op = "fail"
     /\ order \in { "PICKED_UP", "ON_THE_WAY" }
     /\ delivery \in { "PICKED_UP", "ON_THE_WAY" }

=============================================================================
