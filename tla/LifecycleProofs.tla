-------------------------- MODULE LifecycleProofs --------------------------
(***************************************************************************)
(* Theorems about OrderLifecycle for any number of orders, handlers and    *)
(* units of stock: type correctness; what the payment of an order says of  *)
(* its status, however handlers race; and that stock and orders implement  *)
(* StockLedger as long as no handler is overtaken between its read and its *)
(* commit and no admin override reopens a closed order.                    *)
(***************************************************************************)
EXTENDS OrderLifecycle, TLAPS

RequestState ==
  [op : OrderOps \cup PaymentOps \cup { "none", "checkout" },
   order : Orders \cup {NoOrder}, seen : OrderStatus \cup { "NEW" },
   target : OrderStatus \cup PaymentStatus \cup { "NEW" }, step : RequestStep]

(* A handler past its first read works on an order that exists, towards a  *)
(* status its operation may set.                                           *)
RequestsOK ==
  \A c \in Clients : request[c].step # "idle" =>
    /\ request[c].order \in Orders
    /\ request[c].step = "enqueue" => request[c].op = "checkout"
    /\ request[c].op \in OrderOps => request[c].target \in Targets(request[c].op)
    /\ request[c].op \in PaymentOps => request[c].target = PaymentTarget[request[c].op]
    /\ request[c].step = "commit" /\ request[c].op \in OrderOps =>
         May(request[c].op, request[c].order, request[c].seen, request[c].target)

TypeInv == TypeOK /\ RequestsOK

-----------------------------------------------------------------------------
(* Every status an operation writes is an order status: the enum in the    *)
(* type of UpdateOrderStatusInput.                                         *)
LEMMA TargetsAreStatuses ==
  ASSUME NEW op \in OrderOps
  PROVE  Targets(op) \subseteq OrderStatus
<1>1. CASE op = "override"
  BY <1>1, LifecycleAssumption DEF Targets
<1>2. CASE op \in CloseOps
  BY <1>2 DEF Targets, CloseOps, OrderStatus
<1>3. CASE op \in RiderOps
  BY <1>3 DEF Targets, RiderOps, CloseOps, RiderTarget, OrderStatus
<1>4. CASE op \in MerchantOps \cup DispatchOps
  BY <1>4 DEF Targets, RiderOps, CloseOps, MerchantOps, DispatchOps, OrderStatus
<1> QED
  BY <1>1, <1>2, <1>3, <1>4 DEF OrderOps

(* No operation moves an order to PLACED, or hands it over without         *)
(* settling its cash, except an override.                                  *)
LEMMA WhoWrites ==
  ASSUME NEW op \in OrderOps, NEW to \in Targets(op)
  PROVE  /\ to = "PLACED" => op = "override"
         /\ to = "DELIVERED" => op = "override" \/ SettlesCash(op)
<1>1. CASE op \in CloseOps
  BY <1>1 DEF Targets, CloseOps
<1>2. CASE op \in RiderOps
  BY <1>2 DEF Targets, RiderOps, CloseOps, RiderTarget, SettlesCash
<1>3. CASE op \in MerchantOps \cup DispatchOps
  BY <1>3 DEF Targets, RiderOps, CloseOps, MerchantOps, DispatchOps, SettlesCash
<1> QED
  BY <1>1, <1>2, <1>3 DEF OrderOps

(* No policy lets a handler touch what was not checked out, nor reopen a   *)
(* closed order, unless an override may.                                   *)
LEMMA WhatMayMove ==
  ASSUME NEW op \in OrderOps, NEW o \in Orders, NEW from \in OrderStatus \cup { "NEW" },
         NEW to \in Targets(op), May(op, o, from, to)
  PROVE  /\ from # "NEW"
         /\ from \in Closed /\ OverrideTargets \subseteq Closed => to \in Closed
<1>1. CASE op \in { "merchantAccept", "merchantReject", "merchantTimeout", "markPreparing",
                    "autoPreparing", "markReady", "autoReady", "confirmPickup" }
  BY <1>1 DEF May, PreparableFrom, DeliveryType, Closed, CloseOps, RiderOps
<1>2. CASE op \in { "customerCancel", "adminCancel" }
  BY <1>2 DEF May, CustomerCancellable, AdminCancellable, Closed, RiderOps
<1>3. CASE op \in { "autoAssign", "riderTimeout", "adminAssign", "takeBack" }
  BY <1>3 DEF May, AdminAssignable, Closed, RiderOps
<1>4. CASE op \in RiderOps
  <2>1. PICK d \in DeliveryStatus : RiderMay(op, from, d)
    BY <1>4 DEF May, RiderOps
  <2> QED BY <2>1 DEF RiderMay, Closed
<1>5. CASE op = "override"
  BY <1>5 DEF May, Targets, RiderOps
<1>6. CASE op = "noRider"
  BY <1>6 DEF May, Targets, CloseOps, RiderOps, Closed
<1> QED
  BY <1>1, <1>2, <1>3, <1>4, <1>5, <1>6 DEF OrderOps, CloseOps, MerchantOps, DispatchOps

-----------------------------------------------------------------------------
(* Type correctness.                                                       *)

LEMMA InitTyped == Init => TypeInv
BY LifecycleAssumption
  DEF Init, TypeInv, TypeOK, RequestsOK, Idle, RequestStep

(* Going on to another step, or ending, keeps the requests in order.       *)
LEMMA GotoTyped ==
  ASSUME TypeInv, NEW c \in Clients,
         NEW op \in OrderOps \cup PaymentOps \cup { "none", "checkout" },
         NEW o \in Orders, NEW seen \in OrderStatus \cup { "NEW" },
         NEW target \in OrderStatus \cup PaymentStatus \cup { "NEW" },
         NEW step \in RequestStep, Goto(c, op, o, seen, target, step),
         step = "enqueue" => op = "checkout",
         op \in OrderOps => target \in Targets(op),
         op \in PaymentOps => target = PaymentTarget[op],
         step = "commit" /\ op \in OrderOps => May(op, o, seen, target)
  PROVE  request' \in [Clients -> RequestState] /\ RequestsOK'
BY DEF TypeInv, TypeOK, RequestsOK, Goto, RequestState

LEMMA DoneTyped ==
  ASSUME TypeInv, NEW c \in Clients, Done(c)
  PROVE  request' \in [Clients -> RequestState] /\ RequestsOK'
BY DEF TypeInv, TypeOK, RequestsOK, Done, Idle, RequestStep, RequestState

(* Writing a status and giving stock back keep their types.                *)
LEMMA WritesTyped ==
  ASSUME TypeInv, NEW o \in Orders, NEW to \in OrderStatus, NEW seen, SetStatus(o, to),
         GiveBack(o, seen, to)
  PROVE  /\ status' \in [Orders -> OrderStatus \cup { "NEW" }]
         /\ prepared' \subseteq Orders
         /\ stock' \in Nat
         /\ released' \in [Orders -> Nat]
BY DEF TypeInv, TypeOK, SetStatus, GiveBack

LEMMA CheckoutTyped ==
  ASSUME TypeInv, NEW c \in Clients, NEW o \in Orders, Checkout(c, o)
  PROVE  TypeInv'
<1>1. request' \in [Clients -> RequestState] /\ RequestsOK'
  <2>1. Goto(c, "checkout", o, "NEW", "PLACED", "enqueue")
    BY DEF Checkout
  <2>2. "checkout" \notin OrderOps \cup PaymentOps
    BY LifecycleAssumption DEF OrderOps, CloseOps, MerchantOps, DispatchOps, RiderOps,
                               PaymentActs
  <2> QED BY <2>1, <2>2, GotoTyped DEF OrderStatus, RequestStep
<1>2. stock' \in Nat
  BY DEF TypeInv, TypeOK, Checkout, Reserve
<1>3. /\ status' \in [Orders -> OrderStatus \cup { "NEW" }] /\ prepared' \subseteq Orders
      /\ payment' \in [Orders -> PaymentStatus \cup { "NO_PAYMENT" }]
  BY DEF TypeInv, TypeOK, Checkout, SetStatus, OrderStatus, PaymentStatus, InProgress
<1> QED
  BY <1>1, <1>2, <1>3 DEF TypeInv, TypeOK, Checkout, RequestState

LEMMA BeginsTyped ==
  ASSUME TypeInv, NEW c \in Clients, NEW o \in Orders,
         \/ \E op \in Ops : BeginOrderOp(c, op, o)
         \/ \E op \in PaymentOps : BeginPaymentOp(c, op, o)
         \/ BeginNoRider(c, o)
         \/ BeginMerchantTimeout(c, o)
  PROVE  TypeInv'
<1>0. PaymentOps \cap OrderOps = {} /\ Ops \subseteq OrderOps
  BY LifecycleAssumption DEF OrderOps, CloseOps, MerchantOps, DispatchOps, RiderOps,
                             PaymentActs
<1>1. request' \in [Clients -> RequestState] /\ RequestsOK'
  <2>1. ASSUME NEW op \in Ops, BeginOrderOp(c, op, o)
        PROVE  request' \in [Clients -> RequestState] /\ RequestsOK'
    <3>1. PICK target \in Targets(op) : /\ May(op, o, status[o], target)
                                       /\ Goto(c, op, o, status[o], target, "commit")
      BY <2>1 DEF BeginOrderOp
    <3>2. target \in OrderStatus
      BY <1>0, TargetsAreStatuses
    <3>3. status[o] \in OrderStatus \cup { "NEW" } /\ "commit" \in RequestStep
      BY DEF TypeInv, TypeOK, RequestStep
    <3> QED BY <1>0, <3>1, <3>2, <3>3, GotoTyped
  <2>2. ASSUME NEW op \in PaymentOps, BeginPaymentOp(c, op, o)
        PROVE  request' \in [Clients -> RequestState] /\ RequestsOK'
    <3>1. Goto(c, op, o, "NEW", PaymentTarget[op], "commit")
      BY <2>2 DEF BeginPaymentOp
    <3>2. PaymentTarget[op] \in PaymentStatus
      BY LifecycleAssumption DEF PaymentTarget, PaymentStatus, PaymentActs
    <3> QED BY <1>0, <3>1, <3>2, GotoTyped DEF RequestStep
  <2>3. CASE BeginNoRider(c, o)
    <3>1. Goto(c, "noRider", o, "NEW", "CANCELLED", "read")
      BY <2>3 DEF BeginNoRider
    <3> QED BY <1>0, <3>1, GotoTyped
            DEF OrderOps, CloseOps, Targets, RequestStep, OrderStatus
  <2>4. CASE BeginMerchantTimeout(c, o)
    <3>1. CASE UNCHANGED request
      BY <3>1 DEF TypeInv, TypeOK, RequestsOK, RequestState
    <3>2. CASE Goto(c, "merchantTimeout", o, "PLACED", "CANCELLED", "commit")
      BY <1>0, <3>2, GotoTyped
      DEF OrderOps, CloseOps, Targets, May, RequestStep, OrderStatus
    <3> QED BY <2>4, <3>1, <3>2 DEF BeginMerchantTimeout
  <2> QED BY <2>1, <2>2, <2>3, <2>4
<1>2. UNCHANGED <<status, prepared, stock, released, payment>> /\ timer' \subseteq Orders
  BY DEF BeginOrderOp, BeginPaymentOp, BeginNoRider, BeginMerchantTimeout, TypeInv, TypeOK
<1> QED
  BY <1>1, <1>2 DEF TypeInv, TypeOK, RequestState

LEMMA ReadAgainTyped ==
  ASSUME TypeInv, NEW c \in Clients, ReadAgain(c)
  PROVE  TypeInv'
<1> DEFINE o == request[c].order  op == request[c].op  to == request[c].target
<1>1. o \in Orders /\ op \in OrderOps \cup PaymentOps \cup { "none", "checkout" }
      /\ to \in OrderStatus \cup PaymentStatus \cup { "NEW" }
      /\ status[o] \in OrderStatus \cup { "NEW" }
  BY DEF TypeInv, TypeOK, RequestsOK, ReadAgain, At
<1>2. /\ op \in OrderOps => to \in Targets(op)
      /\ op \in PaymentOps => to = PaymentTarget[op]
  BY DEF TypeInv, RequestsOK, ReadAgain, At
<1>3. request' \in [Clients -> RequestState] /\ RequestsOK'
  <2>1. CASE Goto(c, "autoReady", o, "NEW", "READY", "read")
    <3>1. "autoReady" \in OrderOps \ PaymentOps /\ "READY" \in Targets("autoReady")
      BY LifecycleAssumption
      DEF OrderOps, MerchantOps, CloseOps, RiderOps, Targets, PaymentActs
    <3> QED BY <1>1, <2>1, <3>1, GotoTyped DEF RequestStep, OrderStatus
  <2>2. CASE May(op, o, status[o], to) /\ Goto(c, op, o, status[o], to, "commit")
    <3> HIDE DEF o, op, to
    <3> QED BY <1>1, <1>2, <2>2, GotoTyped DEF RequestStep
  <2>3. CASE Done(c)
    BY <2>3, DoneTyped
  <2> QED BY <2>1, <2>2, <2>3 DEF ReadAgain
<1> QED
  BY <1>3 DEF TypeInv, TypeOK, ReadAgain, RequestState

LEMMA CommitsTyped ==
  ASSUME TypeInv, NEW c \in Clients, CommitOrderOp(c)
  PROVE  TypeInv'
<1> DEFINE o == request[c].order  op == request[c].op  to == request[c].target
<1>1. o \in Orders /\ op \in OrderOps /\ to \in OrderStatus
  BY TargetsAreStatuses DEF TypeInv, RequestsOK, CommitOrderOp
<1>2. SetStatus(o, to) /\ GiveBack(o, request[c].seen, to)
  BY DEF CommitOrderOp
<1>3. request' \in [Clients -> RequestState] /\ RequestsOK'
  <2>1. CASE Goto(c, "autoPreparing", o, "NEW", "PREPARING", "read")
    <3>1. "autoPreparing" \in OrderOps \ PaymentOps
          /\ "PREPARING" \in Targets("autoPreparing")
      BY LifecycleAssumption
      DEF OrderOps, MerchantOps, CloseOps, RiderOps, Targets, PaymentActs
    <3> QED BY <1>1, <2>1, <3>1, GotoTyped DEF RequestStep, OrderStatus
  <2>2. CASE Goto(c, "autoReady", o, "NEW", "READY", "read")
    <3>1. "autoReady" \in OrderOps \ PaymentOps /\ "READY" \in Targets("autoReady")
      BY LifecycleAssumption
      DEF OrderOps, MerchantOps, CloseOps, RiderOps, Targets, PaymentActs
    <3> QED BY <1>1, <2>2, <3>1, GotoTyped DEF RequestStep, OrderStatus
  <2>3. CASE Done(c)
    BY <2>3, DoneTyped
  <2> QED BY <2>1, <2>2, <2>3 DEF CommitOrderOp
<1>4. payment' \in [Orders -> PaymentStatus \cup { "NO_PAYMENT" }] /\ timer' \subseteq Orders
  BY <1>1 DEF TypeInv, TypeOK, CommitOrderOp, PaymentStatus
<1> HIDE DEF o, op, to
<1>5. /\ status' \in [Orders -> OrderStatus \cup { "NEW" }]
      /\ prepared' \subseteq Orders
      /\ stock' \in Nat
      /\ released' \in [Orders -> Nat]
  BY <1>1, <1>2, WritesTyped
<1> QED
  BY <1>3, <1>4, <1>5 DEF TypeInv, TypeOK, RequestState

LEMMA PaymentCommitsTyped ==
  ASSUME TypeInv, NEW c \in Clients, CommitPaymentOp(c)
  PROVE  TypeInv'
<1> DEFINE o == request[c].order  to == request[c].target
<1>1. o \in Orders /\ to \in PaymentStatus
  <2>1. request[c].op \in PaymentOps /\ o \in Orders /\ to = PaymentTarget[request[c].op]
    BY DEF TypeInv, RequestsOK, CommitPaymentOp
  <2>2. \A op \in PaymentOps : PaymentTarget[op] \in PaymentStatus
    BY LifecycleAssumption DEF PaymentTarget, PaymentStatus, PaymentActs
  <2> QED BY <2>1, <2>2
<1>2. request' \in [Clients -> RequestState] /\ RequestsOK'
  BY DoneTyped DEF CommitPaymentOp
<1>3. payment' = [payment EXCEPT ![o] = to] /\ UNCHANGED timer
  BY DEF CommitPaymentOp
<1>4. \/ SetStatus(o, "CANCELLED") /\ GiveBack(o, status[o], "CANCELLED")
      \/ UNCHANGED <<status, prepared, stock, released>>
  BY DEF CommitPaymentOp
<1> HIDE DEF o, to
<1>5. /\ status' \in [Orders -> OrderStatus \cup { "NEW" }]
      /\ prepared' \subseteq Orders
      /\ stock' \in Nat
      /\ released' \in [Orders -> Nat]
  <2>1. "CANCELLED" \in OrderStatus
    BY DEF OrderStatus
  <2> QED BY <1>1, <1>4, <2>1, WritesTyped DEF TypeInv, TypeOK
<1> QED
  BY <1>1, <1>2, <1>3, <1>5 DEF TypeInv, TypeOK, RequestState

LEMMA EndsTyped ==
  ASSUME TypeInv, NEW c \in Clients, StartTimeout(c) \/ RequestDies(c)
  PROVE  TypeInv'
<1>1. request' \in [Clients -> RequestState] /\ RequestsOK'
  BY DoneTyped DEF StartTimeout, RequestDies
<1>2. request[c].order \in Orders
  BY DEF TypeInv, RequestsOK, StartTimeout, RequestDies, At
<1> QED
  BY <1>1, <1>2 DEF TypeInv, TypeOK, StartTimeout, RequestDies, RequestState

LEMMA StepTyped == TypeInv /\ [Next]_vars => TypeInv'
<1> SUFFICES ASSUME TypeInv, [Next]_vars PROVE TypeInv'
  OBVIOUS
<1>1. CASE UNCHANGED vars
  BY <1>1 DEF vars, TypeInv, TypeOK, RequestsOK
<1>2. ASSUME NEW c \in Clients, Begin(c) PROVE TypeInv'
  BY <1>2, CheckoutTyped, BeginsTyped DEF Begin
<1>3. ASSUME NEW c \in Clients, Proceed(c) PROVE TypeInv'
  BY <1>3, ReadAgainTyped, CommitsTyped, PaymentCommitsTyped, EndsTyped DEF Proceed
<1>4. ASSUME NEW c \in Clients, RequestDies(c) PROVE TypeInv'
  BY <1>4, EndsTyped
<1>5. ASSUME NEW c \in Clients, NEW o \in Orders, BeginMerchantTimeout(c, o) PROVE TypeInv'
  BY <1>5, BeginsTyped
<1> QED
  BY <1>1, <1>2, <1>3, <1>4, <1>5 DEF Next

(* No order, stock count, payment or request ever has a value of another   *)
(* kind, and stock never falls below zero, whatever races and dies.        *)
THEOREM TypeCorrect == Spec => []TypeOK
<1>1. Spec => []TypeInv
  BY InitTyped, StepTyped, PTL DEF Spec
<1> QED BY <1>1, PTL DEF TypeInv

-----------------------------------------------------------------------------
(* Payment and status.                                                     *)

(* Beginning, reading again and dying move no order and no payment.        *)
LEMMA OtherStepsWriteNothing ==
  ASSUME [Next]_vars
  PROVE  \/ \E c \in Clients, o \in Orders : Checkout(c, o)
         \/ \E c \in Clients : CommitOrderOp(c) \/ CommitPaymentOp(c)
         \/ UNCHANGED <<status, stock, released, payment>>
BY DEF Next, vars, Begin, Proceed, BeginNoRider, BeginOrderOp, BeginPaymentOp, ReadAgain,
       StartTimeout, RequestDies, BeginMerchantTimeout

(* An online payment that came to nothing leaves no order waiting for the  *)
(* merchant: whatever races, only a checkout or an override makes an order *)
(* PLACED, and the transaction that abandons a payment cancels a PLACED    *)
(* order.                                                                  *)
THEOREM UnpaidNeverPlaced ==
  ASSUME "PLACED" \notin OverrideTargets
  PROVE  Spec => []UnpaidIsNotPlaced
<1>1. Init => UnpaidIsNotPlaced
  BY DEF Init, UnpaidIsNotPlaced, Abandoned
<1>2. TypeInv /\ UnpaidIsNotPlaced /\ [Next]_vars => UnpaidIsNotPlaced'
  <2> SUFFICES ASSUME TypeInv, UnpaidIsNotPlaced, [Next]_vars,
                      NEW p \in Orders \ Cash, payment'[p] \in Abandoned
               PROVE  status'[p] # "PLACED"
    BY DEF UnpaidIsNotPlaced
  <2>1. ASSUME NEW c \in Clients, NEW o \in Orders, Checkout(c, o)
        PROVE  status'[p] # "PLACED"
    BY <2>1 DEF Checkout, SetStatus, Abandoned, TypeInv, TypeOK, UnpaidIsNotPlaced
  <2>2. ASSUME NEW c \in Clients, CommitOrderOp(c) PROVE status'[p] # "PLACED"
    <3>1. /\ request[c].order \in Orders /\ request[c].op \in OrderOps
          /\ request[c].target \in Targets(request[c].op)
      BY <2>2 DEF TypeInv, RequestsOK, CommitOrderOp
    <3>2. request[c].target # "PLACED"
      BY <3>1, WhoWrites DEF Targets
    <3>3. payment'[p] = payment[p]
      BY <2>2, <3>1 DEF CommitOrderOp, TypeInv, TypeOK
    <3> QED BY <2>2, <3>1, <3>2, <3>3
            DEF CommitOrderOp, SetStatus, TypeInv, TypeOK, UnpaidIsNotPlaced
  <2>3. ASSUME NEW c \in Clients, CommitPaymentOp(c) PROVE status'[p] # "PLACED"
    <3>1. request[c].order \in Orders
      BY <2>3 DEF TypeInv, RequestsOK, CommitPaymentOp
    <3> QED BY <2>3, <3>1 DEF CommitPaymentOp, AutoCancels, SetStatus, TypeInv, TypeOK,
                              UnpaidIsNotPlaced
  <2> QED BY <2>1, <2>2, <2>3, OtherStepsWriteNothing DEF UnpaidIsNotPlaced
<1>3. Spec => []TypeInv
  BY InitTyped, StepTyped, PTL DEF Spec
<1> QED BY <1>1, <1>2, <1>3, PTL DEF Spec

(* Cash is never left pending on a delivered order, whatever races: the    *)
(* two operations that deliver settle it, and nothing makes a payment      *)
(* pending again.                                                          *)
THEOREM CashAlwaysSettled ==
  ASSUME "DELIVERED" \notin OverrideTargets
  PROVE  Spec => []CashIsSettled
<1>1. Init => CashIsSettled
  BY LifecycleAssumption DEF Init, CashIsSettled
<1>2. TypeInv /\ CashIsSettled /\ [Next]_vars => CashIsSettled'
  <2> SUFFICES ASSUME TypeInv, CashIsSettled, [Next]_vars,
                      NEW p \in Cash, status'[p] = "DELIVERED"
               PROVE  payment'[p] # "PENDING"
    BY DEF CashIsSettled
  <2>0. p \in Orders
    BY LifecycleAssumption
  <2>1. ASSUME NEW c \in Clients, NEW o \in Orders, Checkout(c, o)
        PROVE  payment'[p] # "PENDING"
    BY <2>0, <2>1 DEF Checkout, SetStatus, TypeInv, TypeOK, CashIsSettled
  <2>2. ASSUME NEW c \in Clients, CommitOrderOp(c) PROVE payment'[p] # "PENDING"
    <3>1. /\ request[c].order \in Orders /\ request[c].op \in OrderOps
          /\ request[c].target \in Targets(request[c].op)
      BY <2>2 DEF TypeInv, RequestsOK, CommitOrderOp
    <3>2. request[c].target = "DELIVERED" => SettlesCash(request[c].op)
      BY <3>1, WhoWrites DEF Targets
    <3>3. payment' = IF SettlesCash(request[c].op) /\ request[c].order \in Cash
                        /\ payment[request[c].order] = "PENDING"
                     THEN [payment EXCEPT ![request[c].order] = "SUCCEEDED"] ELSE payment
      BY <2>2 DEF CommitOrderOp
    <3>4. status' = [status EXCEPT ![request[c].order] = request[c].target]
      BY <2>2 DEF CommitOrderOp, SetStatus
    <3> QED BY <2>0, <3>1, <3>2, <3>3, <3>4 DEF TypeInv, TypeOK, CashIsSettled
  <2>3. ASSUME NEW c \in Clients, CommitPaymentOp(c) PROVE payment'[p] # "PENDING"
    <3>1. request[c].order \in Orders /\ request[c].op \in PaymentOps
          /\ request[c].target = PaymentTarget[request[c].op]
      BY <2>3 DEF TypeInv, RequestsOK, CommitPaymentOp
    <3>2. \A op \in PaymentOps : PaymentTarget[op] # "PENDING"
      BY LifecycleAssumption DEF PaymentTarget, PaymentActs
    <3>3. payment' = [payment EXCEPT ![request[c].order] = request[c].target]
      BY <2>3 DEF CommitPaymentOp
    <3>4. status'[p] = "DELIVERED" => status[p] = "DELIVERED"
      BY <2>0, <2>3, <3>1 DEF CommitPaymentOp, SetStatus, TypeInv, TypeOK
    <3> QED BY <2>0, <3>1, <3>2, <3>3, <3>4 DEF TypeInv, TypeOK, CashIsSettled
  <2> QED BY <2>1, <2>2, <2>3, OtherStepsWriteNothing DEF CashIsSettled
<1>3. Spec => []TypeInv
  BY InitTyped, StepTyped, PTL DEF Spec
<1> QED BY <1>1, <1>2, <1>3, PTL DEF Spec

-----------------------------------------------------------------------------
(* The stock ledger.                                                       *)

Disciplined == ~SplitRequests /\ OverrideTargets \subseteq Closed

(* What a committing handler read is still true, no two are committing,    *)
(* and a unit is back in stock only if its order is closed.                *)
LedgerInv ==
  /\ TypeInv
  /\ \A c, d \in Clients :
       request[c].step = "commit" /\ request[d].step = "commit" => c = d
  /\ \A c \in Clients :
       request[c].step = "commit" /\ request[c].op \in OrderOps =>
         request[c].seen = status[request[c].order]
  /\ \A o \in Orders : released[o] = IF Unit(o) = "returned" THEN 1 ELSE 0

LEMMA LedgerStarts == Init => LedgerInv
BY InitTyped DEF Init, LedgerInv, Idle, Unit, Placed

(* Only in the step that begins it does a request come to a commit, and    *)
(* then nobody else is committing.                                         *)
LEMMA ReadsStayTrue ==
  ASSUME Disciplined, LedgerInv, [Next]_vars
  PROVE  /\ \A c, d \in Clients :
              request'[c].step = "commit" /\ request'[d].step = "commit" => c = d
         /\ \A c \in Clients :
              request'[c].step = "commit" /\ request'[c].op \in OrderOps =>
                request'[c].seen = status'[request'[c].order]
<1> USE DEF LedgerInv, TypeInv, TypeOK
<1>1. CASE UNCHANGED vars
  BY <1>1 DEF vars
<1>2. ASSUME NEW c \in Clients, CommitOrderOp(c) \/ CommitPaymentOp(c)
      PROVE  \A d \in Clients : request'[d].step # "commit"
  BY <1>2 DEF CommitOrderOp, CommitPaymentOp, Goto, Done, Idle
<1>2a. ASSUME NEW c \in Clients, StartTimeout(c) \/ RequestDies(c)
       PROVE  /\ \A d \in Clients : request'[d].step = "commit" => request'[d] = request[d]
              /\ status' = status
  BY <1>2a DEF StartTimeout, RequestDies, Done, Idle
<1>3. ASSUME NEW c \in Clients, NEW o \in Orders, Checkout(c, o)
      PROVE  \A d \in Clients : request'[d].step # "commit"
  BY <1>3 DEF Checkout, At, MayInterleave, Disciplined, Goto
<1>4. ASSUME NEW c \in Clients,
             \/ ReadAgain(c)
             \/ \E o \in Orders :
                  \/ \E op \in Ops : BeginOrderOp(c, op, o)
                  \/ \E op \in PaymentOps : BeginPaymentOp(c, op, o)
                  \/ BeginNoRider(c, o) \/ BeginMerchantTimeout(c, o)
      PROVE  /\ \A d \in Clients : request'[d].step = "commit" => d = c
             /\ status' = status
             /\ request'[c].step = "commit" /\ request'[c].op \in OrderOps =>
                  request'[c].seen = status[request'[c].order]
  <2>1. At(c, "idle") \/ At(c, "read")
    BY <1>4 DEF BeginOrderOp, BeginPaymentOp, BeginNoRider, BeginMerchantTimeout, ReadAgain
  <2>2. \A d \in Clients : request[d].step # "commit"
    BY <2>1 DEF At, MayInterleave, Disciplined
  <2>3. PaymentOps \cap OrderOps = {}
    BY LifecycleAssumption DEF OrderOps, CloseOps, MerchantOps, DispatchOps, RiderOps,
                               PaymentActs
  <2>4. CASE ReadAgain(c)
    BY <2>2, <2>4 DEF ReadAgain, Goto, Done, Idle
  <2>5. CASE \E o \in Orders : \E op \in Ops : BeginOrderOp(c, op, o)
    BY <2>2, <2>5 DEF BeginOrderOp, Goto
  <2>6. CASE \E o \in Orders : \E op \in PaymentOps : BeginPaymentOp(c, op, o)
    BY <2>2, <2>3, <2>6 DEF BeginPaymentOp, Goto
  <2>7. CASE \E o \in Orders : BeginNoRider(c, o) \/ BeginMerchantTimeout(c, o)
    BY <2>2, <2>7 DEF BeginNoRider, BeginMerchantTimeout, Goto
  <2> QED BY <1>4, <2>4, <2>5, <2>6, <2>7
<1>5. \/ UNCHANGED vars
      \/ \E c \in Clients : CommitOrderOp(c) \/ CommitPaymentOp(c)
      \/ \E c \in Clients : StartTimeout(c) \/ RequestDies(c)
      \/ \E c \in Clients, o \in Orders : Checkout(c, o)
      \/ \E c \in Clients, o \in Orders :
           \/ \E op \in Ops : BeginOrderOp(c, op, o)
           \/ \E op \in PaymentOps : BeginPaymentOp(c, op, o)
           \/ BeginNoRider(c, o) \/ BeginMerchantTimeout(c, o)
      \/ \E c \in Clients : ReadAgain(c)
  BY DEF Next, Begin, Proceed
<1> QED
  BY <1>1, <1>2, <1>2a, <1>3, <1>4, <1>5

Units == [o \in Orders |-> Unit(o)]
Counted == \A o \in Orders : released[o] = IF Unit(o) = "returned" THEN 1 ELSE 0

(* A handler that writes a status, and gives stock back by the status it   *)
(* read, takes a step of the ledger if what it read is still the status    *)
(* and it does not reopen a closed order.                                  *)
LEMMA MoveKeepsLedger ==
  ASSUME LedgerInv, NEW o \in Orders, NEW to \in OrderStatus, status[o] # "NEW",
         status[o] \in Closed => to \in Closed,
         SetStatus(o, to), GiveBack(o, status[o], to)
  PROVE  /\ Ledger!Return(o) \/ Ledger!Spend(o) \/ UNCHANGED <<stock, Units>>
         /\ Counted'
<1> USE DEF LedgerInv, TypeInv, TypeOK
<1>1. status' = [status EXCEPT ![o] = to] /\ status'[o] = to /\ to # "NEW"
  BY DEF SetStatus, OrderStatus
<1>2. ASSUME NEW p \in Orders, p # o
      PROVE  Unit(p)' = Unit(p) /\ released'[p] = released[p]
  BY <1>1, <1>2 DEF Unit, Placed, Open, GiveBack
<1>3. CASE ReleasesInventory(status[o], to)
  <2>1. stock' = stock + 1 /\ released' = [released EXCEPT ![o] = @ + 1]
    BY <1>3 DEF GiveBack
  <2>2. Unit(o) = "reserved" /\ released[o] = 0
    BY <1>3 DEF ReleasesInventory, Unit, Placed, Open, Closed
  <2>3. to \in Closed /\ released'[o] = 1
    BY <1>3, <2>1, <2>2 DEF ReleasesInventory, Closed
  <2>4. Unit(o)' = "returned"
    BY <1>1, <2>3 DEF Unit, Placed, Open
  <2>5. Units' = [Units EXCEPT ![o] = "returned"]
    BY <1>2, <2>4 DEF Units
  <2> QED BY <1>2, <2>1, <2>2, <2>3, <2>4, <2>5 DEF Units, Counted, Ledger!Return
<1>4. CASE ~ReleasesInventory(status[o], to)
  <2>1. stock' = stock /\ released' = released
    BY <1>4 DEF GiveBack
  <2>2. CASE Open(o) /\ to \in Closed
    <3>1. Unit(o) = "reserved" /\ released[o] = 0
      BY <2>2 DEF Unit, Open
    <3>2. Unit(o)' = "spent"
      BY <1>1, <2>1, <2>2, <3>1 DEF Unit, Placed, Open
    <3>3. Units' = [Units EXCEPT ![o] = "spent"]
      BY <1>2, <3>2 DEF Units
    <3> QED BY <1>2, <2>1, <3>1, <3>2, <3>3 DEF Units, Counted, Ledger!Spend
  <2>3. CASE ~(Open(o) /\ to \in Closed)
    <3>1. Unit(o)' = Unit(o)
      BY <1>1, <2>1, <2>3 DEF Unit, Placed, Open
    <3>2. Units' = Units
      BY <1>2, <3>1 DEF Units
    <3> QED BY <1>2, <2>1, <3>1, <3>2 DEF Counted
  <2> QED BY <2>2, <2>3
<1> QED BY <1>3, <1>4

LEMMA LedgerStep ==
  ASSUME Disciplined, LedgerInv, [Next]_vars
  PROVE  Counted' /\ [Ledger!Next]_<<stock, Units>>
<1>1. ASSUME NEW c \in Clients, NEW o \in Orders, Checkout(c, o)
      PROVE  Counted' /\ [Ledger!Next]_<<stock, Units>>
  <2>1. status[o] = "NEW" /\ status' = [status EXCEPT ![o] = "PLACED"] /\ released' = released
    BY <1>1 DEF Checkout, SetStatus
  <2>2. ASSUME NEW p \in Orders, p # o PROVE Unit(p)' = Unit(p)
    BY <2>1, <2>2 DEF Unit, Placed, Open, LedgerInv, TypeInv, TypeOK
  <2>3. Unit(o) = "none" /\ Unit(o)' = "reserved"
    BY <2>1 DEF Unit, Placed, Open, Closed, LedgerInv, TypeInv, TypeOK
  <2>4. Units' = [Units EXCEPT ![o] = "reserved"]
    BY <2>2, <2>3 DEF Units
  <2>5. Counted'
    BY <2>1, <2>2, <2>3 DEF Counted, LedgerInv
  <2>6. Ledger!Reserve(o)
    BY <1>1, <2>3, <2>4 DEF Ledger!Reserve, Checkout, Reserve, Units
  <2> QED BY <2>5, <2>6 DEF Ledger!Next
<1>2. ASSUME NEW c \in Clients, CommitOrderOp(c)
      PROVE  Counted' /\ [Ledger!Next]_<<stock, Units>>
  <2> DEFINE o == request[c].order  op == request[c].op  to == request[c].target
  <2>1. /\ o \in Orders /\ op \in OrderOps /\ to \in Targets(op) /\ to \in OrderStatus
        /\ status[o] \in OrderStatus \cup { "NEW" }
        /\ May(op, o, status[o], to)
    BY <1>2, TargetsAreStatuses DEF LedgerInv, TypeInv, TypeOK, RequestsOK, CommitOrderOp
  <2>2. SetStatus(o, to) /\ GiveBack(o, status[o], to)
    BY <1>2, <2>1 DEF LedgerInv, CommitOrderOp
  <2> HIDE DEF o, op, to
  <2>3. status[o] # "NEW" /\ (status[o] \in Closed => to \in Closed)
    BY <2>1, WhatMayMove DEF Disciplined
  <2> QED BY <2>1, <2>2, <2>3, MoveKeepsLedger DEF Ledger!Next
<1>3. ASSUME NEW c \in Clients, CommitPaymentOp(c)
      PROVE  Counted' /\ [Ledger!Next]_<<stock, Units>>
  <2> DEFINE o == request[c].order
  <2>1. o \in Orders
    BY <1>3 DEF LedgerInv, TypeInv, RequestsOK, CommitPaymentOp
  <2>2. CASE AutoCancels(o, request[c].target)
    <3>1. SetStatus(o, "CANCELLED") /\ GiveBack(o, status[o], "CANCELLED")
          /\ status[o] = "PLACED"
      BY <1>3, <2>2 DEF CommitPaymentOp, AutoCancels
    <3> HIDE DEF o
    <3> QED BY <2>1, <3>1, MoveKeepsLedger DEF Ledger!Next, Closed, OrderStatus
  <2>3. CASE UNCHANGED <<status, stock, released>>
    BY <2>3 DEF Counted, LedgerInv, Units, Unit, Placed, Open
  <2> QED BY <1>3, <2>2, <2>3 DEF CommitPaymentOp
<1>4. CASE UNCHANGED <<status, stock, released, payment>>
  BY <1>4 DEF Counted, LedgerInv, Units, Unit, Placed, Open
<1> QED BY <1>1, <1>2, <1>3, <1>4, OtherStepsWriteNothing

(* Stock and orders implement StockLedger, for any number of orders and    *)
(* handlers and whatever dies: the invariant is that the status a handler  *)
(* read is still the status when it commits.                               *)
THEOREM LifecycleImplementsLedger ==
  ASSUME Disciplined
  PROVE  Spec => LedgerSpec
<1>1. Init => Ledger!Init
  BY DEF Init, Ledger!Init, Unit, Placed
<1>2. LedgerInv /\ [Next]_vars => LedgerInv'
  BY StepTyped, ReadsStayTrue, LedgerStep DEF LedgerInv, Counted
<1>3. LedgerInv /\ [Next]_vars => [Ledger!Next]_<<stock, [o \in Orders |-> Unit(o)]>>
  BY LedgerStep DEF Units
<1> QED BY LedgerStarts, <1>1, <1>2, <1>3, PTL DEF Spec, LedgerSpec, Ledger!Spec

=============================================================================
