SPECIFICATION MCSpec
CONSTANTS
 rice = rice
 A = A
 x = x
 egg = egg
 large = large
 Hands = {h1, h2}
 Items = {rice}
 Options = {egg}
 Combinations = {large}
 Lots = {A, B}
 Orders = {o1, o2}
 Batches = {x, y}
 None = None
 Amounts = {1, 2}
 Counts = {0}
 Thresholds = {1}
 Dates = {5}
 Most = 2
 MaxNotices = 3
 Keep = 2
 PageLimit = 1
 Requests = {q1, q2}
 Cooldown = 1
 RemindAge = 1
 RemindCooldown = 1
 EscalateAge = 1
 EscalateCooldown = 1
 MaxTime = 3
INVARIANTS InboxAgrees StockIsKept 
 
SYMMETRY Alike
CHECK_DEADLOCK FALSE
