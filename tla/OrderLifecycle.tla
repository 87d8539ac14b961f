--------------------------- MODULE OrderLifecycle ---------------------------
(***************************************************************************)
(* What every handler that moves an order does to the order, to the stock  *)
(* it holds and to its payment: checkout, the merchant, customer, admin    *)
(* and rider handlers, the order timeouts, the dispatcher's own writes and *)
(* the payment lifecycle.                                                  *)
(*                                                                         *)
(* All of them have one shape: read the order, check a policy on what was  *)
(* read, and in a transaction write the new status by id and decide from   *)
(* the status that was read, not from the row, whether the stock goes      *)
(* back.  Begin... is the read and the check, Commit... the transaction.   *)
(* Who the rider is, and when dispatch acts, is the subject of Dispatch:   *)
(* here its writes may come whenever the status they look for holds.       *)
(***************************************************************************)
EXTENDS OrderPolicy, Naturals, FiniteSets

CONSTANTS
  Orders,           \* the carts that may be checked out
  NoOrder,
  Pickup,           \* those ordered for pickup rather than delivery
  Cash,             \* those paid CASH_ON_DELIVERY
  Stock,            \* units of the item each order takes one of
  Clients,          \* HTTP requests and jobs in flight at once
  Ops,              \* the order operations and
  PaymentOps,       \* the payment operations that take part
  OverrideTargets,  \* the statuses an admin override may set
  MaxReleased,      \* model bound: no handler begins on an order whose unit
                    \* was given back this often
  SplitRequests,    \* may another step fall between a handler's read and its commit?
  Faults            \* may a process die, or Redis be away, between two steps?

CloseOps == { "customerCancel", "adminCancel", "merchantTimeout", "riderTimeout",
              "noRider" }
MerchantOps == { "merchantAccept", "merchantReject", "markPreparing", "markReady",
                 "confirmPickup", "autoPreparing", "autoReady" }
DispatchOps == { "autoAssign", "adminAssign", "takeBack" }
OrderOps == CloseOps \cup MerchantOps \cup DispatchOps \cup RiderOps \cup { "override" }

PaymentActs == { "confirmPayment", "failPayment", "cancelPayment", "expirePayment" }

ASSUME LifecycleAssumption ==
  /\ Pickup \subseteq Orders /\ Cash \subseteq Orders
  /\ NoOrder \notin Orders
  /\ Stock \in Nat /\ MaxReleased \in Nat
  /\ Ops \subseteq OrderOps
  /\ PaymentOps \subseteq PaymentActs
  /\ OverrideTargets \subseteq OrderStatus
  /\ SplitRequests \in BOOLEAN /\ Faults \in BOOLEAN

VARIABLES
  status,     \* Order.status; "NEW" before checkout
  prepared,   \* orders with a PREPARING row in OrderStatusHistory
  stock,      \* the item's stock quantity
  released,   \* how often the order's unit was given back
  payment,    \* Payment.status
  timer,      \* orders with a startTimeout job in the order-timeouts queue
  request     \* the handler each client is running

vars == <<status, prepared, stock, released, payment, timer, request>>

InProgress == { "PENDING", "REQUIRES_ACTION", "PROCESSING" }
PaymentStatus == InProgress \cup { "SUCCEEDED", "FAILED", "CANCELLED", "EXPIRED" }
Abandoned == { "FAILED", "CANCELLED", "EXPIRED" }

Closed == { "DELIVERED", "CANCELLED", "MERCHANT_REJECTED", "FAILED_DELIVERY" }

RequestStep == { "idle", "read", "commit", "enqueue" }
Idle == [op |-> "none", order |-> NoOrder, seen |-> "NEW",
         target |-> "NEW", step |-> "idle"]

TypeOK ==
  /\ status \in [Orders -> OrderStatus \cup { "NEW" }]
  /\ prepared \subseteq Orders
  /\ stock \in Nat
  /\ released \in [Orders -> Nat]
  /\ payment \in [Orders -> PaymentStatus \cup { "NO_PAYMENT" }]
  /\ timer \subseteq Orders
  /\ request \in
       [Clients -> [op : OrderOps \cup PaymentOps \cup { "none", "checkout" },
                    order : Orders \cup {NoOrder}, seen : OrderStatus \cup { "NEW" },
                    target : OrderStatus \cup PaymentStatus \cup { "NEW" },
                    step : RequestStep]]

-----------------------------------------------------------------------------
(* The policies: the status each operation writes, and those it may start  *)
(* from.                                                                   *)

Targets(op) ==
  IF op = "override" THEN OverrideTargets
  ELSE IF op \in CloseOps THEN { "CANCELLED" }
  ELSE IF op \in RiderOps THEN { RiderTarget[op].order }
  ELSE { [ merchantAccept |-> "MERCHANT_ACCEPTED", merchantReject |-> "MERCHANT_REJECTED",
           markPreparing |-> "PREPARING",          autoPreparing |-> "PREPARING",
           markReady |-> "READY",                  autoReady |-> "READY",
           confirmPickup |-> "DELIVERED",          takeBack |-> "MERCHANT_ACCEPTED",
           autoAssign |-> "RIDER_ASSIGNED",        adminAssign |-> "RIDER_ASSIGNED" ][op] }

DeliveryType(o) == IF o \in Pickup THEN "PICKUP" ELSE "DELIVERY"

May(op, o, from, target) ==
  \/ op \in { "merchantAccept", "merchantReject", "merchantTimeout" } /\ from = "PLACED"
  \/ op \in { "markPreparing", "autoPreparing" } /\ from \in PreparableFrom(DeliveryType(o))
  \/ op \in { "markReady", "autoReady" } /\ from = "PREPARING"
  \/ op = "confirmPickup" /\ o \in Pickup /\ from = "READY"
  \/ op = "customerCancel" /\ from \in CustomerCancellable
  \/ op = "adminCancel" /\ from \in AdminCancellable
  \/ op \in { "autoAssign", "riderTimeout" } /\ o \notin Pickup /\ from = "MERCHANT_ACCEPTED"
  \/ op = "adminAssign" /\ from \in AdminAssignable
  \/ op = "takeBack" /\ from = "RIDER_ASSIGNED"
  \/ op \in RiderOps /\ \E d \in DeliveryStatus : RiderMay(op, from, d)
  \/ op = "override" /\ from \notin { "NEW", target }
  \/ op = "noRider" /\ from \notin { "NEW", "CANCELLED" }

-----------------------------------------------------------------------------
(* Without SplitRequests a handler that has read commits before anything   *)
(* else happens; with it any step may come between.                        *)
MayInterleave == SplitRequests \/ \A c \in Clients : request[c].step # "commit"

At(c, step) == MayInterleave /\ request[c].step = step
Goto(c, op, o, seen, target, step) ==
  request' = [request EXCEPT ![c] = [op |-> op, order |-> o, seen |-> seen,
                                     target |-> target, step |-> step]]
Done(c) == request' = [request EXCEPT ![c] = Idle]

Init ==
  /\ status = [o \in Orders |-> "NEW"]
  /\ prepared = {}
  /\ stock = Stock
  /\ released = [o \in Orders |-> 0]
  /\ payment = [o \in Orders |-> "NO_PAYMENT"]
  /\ timer = {}
  /\ request = [c \in Clients |-> Idle]

-----------------------------------------------------------------------------
(* updateOrderStatus: the row is written by id, and a history row added.   *)
SetStatus(o, to) ==
  /\ status' = [status EXCEPT ![o] = to]
  /\ prepared' = IF to = "PREPARING" THEN prepared \cup { o } ELSE prepared

(* Broken variant: gives stock back on every cancellation. *)
GiveBackOnEveryCancel(o, seen, to) ==
  IF to \in { "CANCELLED", "MERCHANT_REJECTED" }
  THEN stock' = stock + 1 /\ released' = [released EXCEPT ![o] = @ + 1]
  ELSE UNCHANGED <<stock, released>>

(* restoreTrackedInventoryForOrder, when the transition calls for it.      *)
GiveBack(o, seen, to) ==
  IF ReleasesInventory(seen, to)
  THEN stock' = stock + 1 /\ released' = [released EXCEPT ![o] = @ + 1]
  ELSE UNCHANGED <<stock, released>>

(* Broken variant: only the rider's delivery settles cash. *)
SettlesCashOnDeliveryOnly(op) == op = "deliver"
(* The two operations that hand the goods over settle cash in the same     *)
(* transaction.                                                            *)
SettlesCash(op) == op \in { "deliver", "confirmPickup" }

(* Broken variant: decrements without "where stock >= quantity". *)
ReserveBlindly == stock' = stock - 1
(* reserveTrackedInventoryForCheckout: a conditional decrement. *)
Reserve == stock > 0 /\ stock' = stock - 1

(* submitCheckout, one transaction: reserve a unit if there is one, create *)
(* the order and its payment intent.                                       *)
Checkout(c, o) ==
  /\ At(c, "idle")
  /\ status[o] = "NEW"
  /\ Reserve
  /\ SetStatus(o, "PLACED")
  /\ payment' = [payment EXCEPT ![o] = IF o \in Cash THEN "PENDING" ELSE "REQUIRES_ACTION"]
  /\ Goto(c, "checkout", o, "NEW", "PLACED", "enqueue")
  /\ UNCHANGED <<released, timer>>

(* Broken variant: the timeout is not enqueued. *)
ForgetTimeout(c) ==
  /\ At(c, "enqueue")
  /\ Done(c)
  /\ UNCHANGED <<status, prepared, stock, released, payment, timer>>

(* After the commit, best-effort: the merchant's timeout. *)
StartTimeout(c) ==
  /\ At(c, "enqueue")
  /\ timer' = timer \cup { request[c].order }
  /\ Done(c)
  /\ UNCHANGED <<status, prepared, stock, released, payment>>

(* A handler reads the order and checks its policy.  The merchant timeout  *)
(* is a job; the jobs of dispatch that find a rider wanting check that the *)
(* order waits before cancelOrderForSystem reads it afresh.                *)
BeginOrderOp(c, op, o) ==
  /\ At(c, "idle")
  /\ op \in Ops \ { "merchantTimeout", "autoPreparing", "autoReady", "noRider" }
  /\ \E target \in Targets(op) :
       /\ May(op, o, status[o], target)
       /\ Goto(c, op, o, status[o], target, "commit")
  /\ UNCHANGED <<status, prepared, stock, released, payment, timer>>

BeginMerchantTimeout(c, o) ==
  /\ At(c, "idle")
  /\ o \in timer
  /\ timer' = timer \ { o }
  /\ IF status[o] = "PLACED"
     THEN Goto(c, "merchantTimeout", o, "PLACED", "CANCELLED", "commit")
     ELSE UNCHANGED request
  /\ UNCHANGED <<status, prepared, stock, released, payment>>

BeginNoRider(c, o) ==
  /\ At(c, "idle")
  /\ "noRider" \in Ops
  /\ o \notin Pickup /\ status[o] = "MERCHANT_ACCEPTED"
  /\ Goto(c, "noRider", o, "NEW", "CANCELLED", "read")
  /\ UNCHANGED <<status, prepared, stock, released, payment, timer>>

(* Broken variant: an auto-advance that finds its step done stops. *)
ReadAgainOrStop(c) ==
  /\ At(c, "read")
  /\ LET o == request[c].order
         op == request[c].op
         target == request[c].target IN
       IF status[o] # target /\ May(op, o, status[o], target)
       THEN Goto(c, op, o, status[o], target, "commit")
       ELSE Done(c)
  /\ UNCHANGED <<status, prepared, stock, released, payment, timer>>

(* The reads that follow an earlier step of the same handler: of           *)
(* cancelOrderForSystem, and of the two steps that take an accepted pickup *)
(* order to READY.  An auto-advance that finds its step already done goes  *)
(* on, one that may not be taken throws.                                   *)
ReadAgain(c) ==
  /\ At(c, "read")
  /\ LET o == request[c].order
         op == request[c].op
         target == request[c].target IN
       IF op = "autoPreparing" /\ status[o] = target
       THEN Goto(c, "autoReady", o, "NEW", "READY", "read")
       ELSE IF status[o] # target /\ May(op, o, status[o], target)
       THEN Goto(c, op, o, status[o], target, "commit")
       ELSE Done(c)
  /\ UNCHANGED <<status, prepared, stock, released, payment, timer>>

(* The transaction; it does not look at the row it overwrites.             *)
CommitOrderOp(c) ==
  LET o == request[c].order
      op == request[c].op
      to == request[c].target IN
  /\ request[c].step = "commit" /\ op \in OrderOps
  /\ SetStatus(o, to)
  /\ GiveBack(o, request[c].seen, to)
  /\ payment' = IF SettlesCash(op) /\ o \in Cash /\ payment[o] = "PENDING"
                THEN [payment EXCEPT ![o] = "SUCCEEDED"] ELSE payment
  /\ IF op = "merchantAccept" /\ o \in Pickup
     THEN Goto(c, "autoPreparing", o, "NEW", "PREPARING", "read")
     ELSE IF op = "autoPreparing" THEN Goto(c, "autoReady", o, "NEW", "READY", "read")
     ELSE Done(c)
  /\ UNCHANGED timer

-----------------------------------------------------------------------------
(* PaymentLifecycleService.                                                *)

PaymentTarget == [confirmPayment |-> "SUCCEEDED", failPayment |-> "FAILED",
                  cancelPayment |-> "CANCELLED", expirePayment |-> "EXPIRED"]

BeginPaymentOp(c, op, o) ==
  /\ At(c, "idle")
  /\ payment[o] \in InProgress
  /\ Goto(c, op, o, "NEW", PaymentTarget[op], "commit")
  /\ UNCHANGED <<status, prepared, stock, released, payment, timer>>

(* Broken variant: an expired payment is not counted as a failure. *)
AutoCancelsOnFailure(o, to) ==
  to \in { "FAILED", "CANCELLED" } /\ status[o] = "PLACED" /\ o \notin Cash
(* shouldAutoCancelOrder; the order is read inside the transaction.        *)
AutoCancels(o, to) == to \in Abandoned /\ status[o] = "PLACED" /\ o \notin Cash

CommitPaymentOp(c) ==
  LET o == request[c].order
      to == request[c].target IN
  /\ request[c].step = "commit" /\ request[c].op \in PaymentOps
  /\ payment' = [payment EXCEPT ![o] = to]
  /\ IF AutoCancels(o, to)
     THEN SetStatus(o, "CANCELLED") /\ GiveBack(o, status[o], "CANCELLED")
     ELSE UNCHANGED <<status, prepared, stock, released>>
  /\ Done(c)
  /\ UNCHANGED timer

-----------------------------------------------------------------------------
(* The process dies, or what follows the commit fails; a job that had not  *)
(* committed is handed out again, or given up.                             *)
RequestDies(c) ==
  /\ Faults
  /\ request[c].step # "idle"
  /\ Done(c)
  /\ \/ UNCHANGED timer
     \/ request[c].op = "merchantTimeout" /\ timer' = timer \cup { request[c].order }
  /\ UNCHANGED <<status, prepared, stock, released, payment>>

Begin(c) ==
  \E o \in Orders :
    /\ released[o] < MaxReleased
    /\ \/ Checkout(c, o) \/ BeginNoRider(c, o)
       \/ \E op \in Ops : BeginOrderOp(c, op, o)
       \/ \E op \in PaymentOps : BeginPaymentOp(c, op, o)

Proceed(c) ==
  ReadAgain(c) \/ CommitOrderOp(c) \/ CommitPaymentOp(c) \/ StartTimeout(c)

Next ==
  \E c \in Clients :
    \/ Begin(c) \/ Proceed(c) \/ RequestDies(c)
    \/ \E o \in Orders : BeginMerchantTimeout(c, o)

Spec == Init /\ [][Next]_vars

(* A handler that has started runs to its end and BullMQ serves its jobs   *)
(* in order, whatever else is going on; nobody is obliged to act.          *)
Fairness ==
  /\ \A c \in Clients : WF_vars(Proceed(c))
  /\ \A o \in Orders : SF_vars(\E c \in Clients : BeginMerchantTimeout(c, o))

FairSpec == Spec /\ Fairness

-----------------------------------------------------------------------------
(* Properties.                                                             *)

Placed(o) == status[o] # "NEW"
Open(o) == Placed(o) /\ status[o] \notin Closed

(* The stock and the orders implement StockLedger: an open order has its   *)
(* unit, a closed one has spent it or given it back once, no order is      *)
(* reopened after its unit is gone.  Timeouts, cancellations, rejections,  *)
(* payment failures and the dispatcher all close orders, each in a         *)
(* transaction of its own.                                                 *)
Unit(o) ==
  IF ~Placed(o) THEN "none"
  ELSE IF Open(o) THEN "reserved"
  ELSE IF released[o] = 0 THEN "spent" ELSE "returned"
Ledger == INSTANCE StockLedger WITH onHand <- stock, unit <- [o \in Orders |-> Unit(o)]
LedgerSpec == Ledger!Spec

(* An order whose online payment failed, expired or was cancelled does not *)
(* wait for the merchant: handleTransition cancels it with the payment     *)
(* (payments and orders are moved by different handlers, in any order).    *)
UnpaidIsNotPlaced ==
  \A o \in Orders \ Cash : payment[o] \in Abandoned => status[o] # "PLACED"

(* Cash is not left pending on an order that was handed over: the pickup   *)
(* confirmation and the rider's delivery settle it in their transaction.   *)
CashIsSettled ==
  \A o \in Cash : status[o] = "DELIVERED" => payment[o] # "PENDING"

(* A placed order does not wait for the merchant for ever: the startTimeout *)
(* job of checkout closes it if nobody else moves it.                      *)
PlacedIsLeft == \A o \in Orders : status[o] = "PLACED" ~> status[o] # "PLACED"

(* A pickup order that was accepted becomes ready without further steps of *)
(* the merchant, or leaves for good: _autoAdvancePickupToReady.            *)
PickupAdvances ==
  \A o \in Pickup :
    status[o] \in { "MERCHANT_ACCEPTED", "PREPARING" }
      ~> status[o] \in { "READY" } \cup Closed

=============================================================================
