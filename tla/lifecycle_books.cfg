CONSTANTS
  o1 = o1  o2 = o2  c1 = c1  c2 = c2  NoOrder = NoOrder
  Orders = {o1, o2}
  Pickup = {o1}
  Cash = {o1}
  Stock = 1
  Clients = {c1, c2}
  Ops = {"merchantAccept", "merchantReject", "markPreparing", "markReady", "confirmPickup", "customerCancel", "adminCancel", "riderTimeout", "noRider", "autoAssign", "adminAssign", "takeBack", "accept", "reject", "riderCancel", "pickUp", "onTheWay", "deliver", "fail", "override"}
  PaymentOps = {"confirmPayment", "expirePayment"}
  OverrideTargets = {"CANCELLED", "MERCHANT_REJECTED", "FAILED_DELIVERY"}
  MaxReleased = 2
  SplitRequests = FALSE
  Faults = TRUE
SPECIFICATION Spec
INVARIANTS TypeOK UnpaidIsNotPlaced CashIsSettled
PROPERTIES LedgerSpec
SYMMETRY ClientSymmetry
CHECK_DEADLOCK FALSE
