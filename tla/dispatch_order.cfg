CONSTANTS
  o1 = o1  o2 = o2  r1 = r1  r2 = r2  w1 = w1  w2 = w2  d1 = d1
  NoRider = NoRider  NoOrder = NoOrder  NoWorker = NoWorker
  Orders = {o1}
  Riders = {r1, r2}
  Workers = {w1}
  Desks = {d1}
  RiderActs = {"accept", "reject", "riderCancel"}
  DeskOps = {"merchantAccept", "markPreparing", "customerCancel"}
  MaxFailedAttempts = 2
  MaxAttempts = 1
  SplitRequests = TRUE
  Faults = FALSE
SPECIFICATION Spec
INVARIANTS TypeOK  
 
SYMMETRY RiderSymmetry
CHECK_DEADLOCK FALSE
