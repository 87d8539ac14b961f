CONSTANTS
  o1 = o1  o2 = o2  r1 = r1  r2 = r2  w1 = w1  w2 = w2  d1 = d1
  NoRider = NoRider  NoOrder = NoOrder  NoWorker = NoWorker
  Orders = {o1, o2}
  Riders = {r1}
  Workers = {w1, w2}
  Desks = {d1}
  RiderActs = {"accept"}
  DeskOps = {"merchantAccept"}
  MaxFailedAttempts = 1
  MaxAttempts = 1
  SplitRequests = FALSE
  Faults = FALSE
SPECIFICATION Spec
INVARIANTS NoDoubleBooking
PROPERTIES BookingSpec
SYMMETRY PoolSymmetry
CHECK_DEADLOCK FALSE
