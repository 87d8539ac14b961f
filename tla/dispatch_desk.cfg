CONSTANTS
  o1 = o1  o2 = o2  r1 = r1  r2 = r2  w1 = w1  w2 = w2  d1 = d1
  NoRider = NoRider  NoOrder = NoOrder  NoWorker = NoWorker
  Orders = {o1}
  Riders = {r1}
  Workers = {w1}
  Desks = {d1}
  RiderActs = {"accept", "reject", "riderCancel", "pickUp", "onTheWay", "deliver", "fail", "goOffline"}
  DeskOps = {"merchantAccept", "merchantReject", "markPreparing", "markReady", "customerCancel", "adminCancel", "adminAssign"}
  MaxFailedAttempts = 2
  MaxAttempts = 1
  SplitRequests = FALSE
  Faults = TRUE
SPECIFICATION Spec
INVARIANTS OrderMatchesDelivery
CHECK_DEADLOCK FALSE
