---------------------------- MODULE RiderBooking ----------------------------
(***************************************************************************)
(* What dispatch promises, however many workers and handlers take part: an *)
(* order is held by at most one rider, and a rider is booked for an order, *)
(* in the place of whoever held it, only when he holds none himself.       *)
(***************************************************************************)
CONSTANTS Orders, Riders, NoRider

VARIABLE held    \* the rider on each order, or NoRider

Init == held = [o \in Orders |-> NoRider]

Book(o, r) ==
  /\ \A p \in Orders : held[p] # r
  /\ held' = [held EXCEPT ![o] = r]

Release(o) ==
  /\ held[o] # NoRider
  /\ held' = [held EXCEPT ![o] = NoRider]

Next == \E o \in Orders : Release(o) \/ \E r \in Riders : Book(o, r)

Spec == Init /\ [][Next]_held

=============================================================================
