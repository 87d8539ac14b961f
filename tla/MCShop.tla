------------------------------- MODULE MCShop -------------------------------
(***************************************************************************)
(* The stockroom and the alerts it gives rise to, on small instances and   *)
(* from several sides: an item with lots; an item with an option and a     *)
(* combination; the unread badge; lists page by page; verdicts on alerts;  *)
(* the digest cycles.                                                      *)
(***************************************************************************)
EXTENDS Stockroom, AlertDesk

VARIABLE side

CONSTANTS rice, egg, large, A, x

Row(t, n, m) == [tracked |-> t, quantity |-> n, threshold |-> m]

StockSides == { "lots", "parts" }
AlertSides == { "badge", "pages", "verdicts", "digests" }

ShelvesInit ==
  /\ shelf = [r \in Resources |-> IF side = "lots" /\ r = rice THEN Row(TRUE, 0, None)
                                  ELSE IF side = "parts" /\ r \in { rice, egg } THEN Row(TRUE, 2, 1)
                                  ELSE IF side = "parts" THEN Row(TRUE, 2, None) ELSE Row(FALSE, None, None)]
  /\ lot = [l \in Lots |-> None] /\ held = [o \in Orders |-> None]
  /\ hand = [h \in Hands |-> Idle]
  /\ told = [r \in Resources |-> Level(shelf[r])] /\ books = [r \in Resources |-> Or0(shelf[r].quantity)]
  /\ apart = {} /\ unheard = {}

\* Which handlers overlap: an update only with the arrival of a lot.
Together == { { a, b } : a \in { "none", "reserve" }, b \in { "reserve", "receive", "adjust", "adjustLot" } }
            \cup { { "none", "update" }, { "receive", "update" }, { "receive", "adjust" } }

\* Counts go up and down by one; lots come in twos, the first without a date.
\* Beside the lots, orders take one or two portions of rice; beside the parts,
\* one of everything, and only the egg is counted.
Quiet ==
  /\ \A l \in Lots : lot'[l] # None => (l = A <=> lot'[l].batch = x) /\ (l # A => lot'[l].expiry # None)
  /\ side = "parts" => UNCHANGED lot
  /\ \A l \in Lots : lot[l] # None /\ lot'[l].expiry # lot[l].expiry => \A h \in Hands : hand[h] = Idle
  /\ \A h \in Hands : hand'[h] # Idle /\ hand[h] = Idle =>
       LET w == hand'[h] IN
       /\ w.op \in { "adjust", "adjustLot" } => w.delta \in { 1, -1 }
       /\ w.op = "receive" => w.quantity = 2 /\ (w.lot = A => w.batch = x /\ w.expiry = None)
       /\ \A g \in Hands \ { h } : { hand[g].op, w.op } \in Together
       /\ side = "lots" =>
            /\ IF w.op = "reserve" THEN DOMAIN w.seen \subseteq { rice } ELSE w.item = rice
            /\ w.op = "update" => w.threshold = None /\ (w.quantity = None \/ w.tracked = None)
       /\ side = "parts" =>
            IF w.op = "reserve" THEN w.quantity = 1 /\ { rice, large } \subseteq DOMAIN w.seen
            ELSE w.item = egg

-----------------------------------------------------------------------------
Busy == { h \in Requests : task[h] # None }
Emitting == { h \in Requests : emitting[h] # None }
Doings == { task[h].op : h \in Busy }

Logged == MapThenSumSet(LAMBDA i : Len(log[i]), Ids)
Fresh == \A i \in Existing : ~notice[i].read
\* The counts of a change are shown before anything else happens.
Prompt == Emitting # {} => UNCHANGED <<notice, log, task, now, page>> /\ (skewed' => skewed)
Without(kinds, levels) == \A i \in Existing : notice[i].kind \notin kinds /\ notice[i].level \notin levels

Intended == UNION { task[h].todo : h \in { g \in Busy : task[g].op \notin { "publish", "clear" } } }

QuietAlerts ==
  CASE side = "badge" ->
         /\ UNCHANGED <<now, log, page>> /\ Doings' \subseteq { "publish", "read" } /\ Without({}, { "LOW_STOCK" })'
    [] side = "pages" ->
         /\ UNCHANGED now /\ Doings' \subseteq { "publish", "resolved" } /\ Prompt /\ Cardinality(Busy') <= 1
         /\ Without({ "COMPENSATION" }, {})'
         /\ IF page = None THEN UNCHANGED log /\ Fresh' ELSE NextId' = NextId /\ Cardinality(Existing' \ Unread') <= 1
    [] side = "verdicts" ->
         /\ UNCHANGED now /\ Doings' \subseteq Verdicts \cup { "publish", "clear", "auto" } /\ Prompt
         /\ UNCHANGED page /\ (pruning => pruning') /\ Fresh' /\ Logged' <= 3
         /\ Without({ "OTHER" }, { "LOW_STOCK" })' /\ Intended' \subseteq Attention'
    [] side = "digests" ->
         /\ Doings' \subseteq { "publish", "digest", "resolved", "acknowledged" } /\ Prompt
         /\ UNCHANGED page /\ Fresh' /\ Logged' <= 1 /\ Cardinality(Attention') <= 1 /\ Without({}, { "OUT_OF_STOCK" })'
         /\ \A i \in Existing' : notice'[i].kind = "OTHER" => \E j \in Existing' : notice'[j].kind = "ATTENTION"

MCInit == side \in StockSides \cup AlertSides /\ ShelvesInit /\ AlertInit
MCNext ==
  /\ UNCHANGED side
  /\ \/ side \in StockSides /\ StockNext /\ Quiet /\ UNCHANGED alertVars
     \/ side \in AlertSides /\ AlertNext /\ QuietAlerts /\ UNCHANGED stockVars
Alike == Permutations(Hands) \cup Permutations(Orders) \cup Permutations(Requests)

MCSpec == MCInit /\ [][MCNext]_<<stockVars, alertVars, side>>
=============================================================================
