SPECIFICATION MCSpec
CONSTANTS
 ann = ann
 bob = bob
 rice = rice
 k2 = k2
 l2 = l2
 k1 = k1
 l1 = l1
 Clients = {c1, c2}
 Customers = {ann, bob}
 Items = {rice}
 Carts = {k1, k2}
 Lines = {l1, l2}
 Orders = {o1, o2}
 Keys = {x, y}
 Promotions = {p1}
 Codes = {SAVE}
 None = None
 Quantities = {1}
 Prices = {2, 3}
 Limits = {1}
 DeliveryFee = 1
 Discount = 4
 Minimum = 1
 Stock = 2
INVARIANTS  OverrunIsBounded
SYMMETRY Alike
PROPERTY LedgerSpec
CHECK_DEADLOCK FALSE
