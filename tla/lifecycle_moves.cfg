CONSTANTS
  o1 = o1  o2 = o2  c1 = c1  c2 = c2  NoOrder = NoOrder
  Orders = {o1, o2}
  Pickup = {o1}
  Cash = {o1}
  Stock = 1
  Clients = {c1, c2}
  Ops = {"merchantAccept", "merchantReject", "markPreparing", "markReady", "confirmPickup", "customerCancel"}
  PaymentOps = {"confirmPayment", "failPayment"}
  OverrideTargets = {}
  MaxReleased = 2
  SplitRequests = FALSE
  Faults = FALSE
SPECIFICATION FairSpec
PROPERTIES PlacedIsLeft PickupAdvances
CHECK_DEADLOCK FALSE
