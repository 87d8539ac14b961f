CONSTANTS
  r1 = r1  r2 = r2  e1 = e1  e2 = e2  a1 = a1  a2 = a2
  w1 = w1  w2 = w2  h1 = h1  h2 = h2
  NoRefund = NoRefund  NoEvent = NoEvent
  RefundIds = {r1, r2}
  Paid = 2
  Amounts = {1, 2}
  Processes = {a1, w1}
  SplitRequests = FALSE
  Events = {e1, e2}
  Reported <- MCReported
  About <- MCAbout
  Workers = {w1}
  Hooks = {h1}
  MaxAttempts = 2
  MaxDeliveries <- MCDeliveries
  Faults = {"hook", "worker", "publish"}
SPECIFICATION FairSpec
INVARIANTS TypeOK   ProcessedAgrees
PROPERTIES EventIsSettled
CHECK_DEADLOCK FALSE
