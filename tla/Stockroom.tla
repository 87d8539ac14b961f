------------------------------ MODULE Stockroom ------------------------------
(***************************************************************************)
(* The stock of a branch: menu items with dated lots, variant combinations *)
(* and options, which merchants count and orders take from and give back.  *)
(*                                                                         *)
(* An item's stock is kept twice, as one number and as the remaining       *)
(* quantities of its lots.  Every handler reads what it decides on before  *)
(* it writes, mostly before its transaction; the writes themselves are     *)
(* conditional updates.  A handler at work is a "hand": it has read, and   *)
(* others may write before it does.                                        *)
(***************************************************************************)
EXTENDS Rows

CONSTANTS
  Hands,         \* requests at work at once
  Items, Lots, Options, Combinations,   \* rows that may exist
  Orders,        \* orders with one line each
  Batches,       \* batch numbers
  Amounts,       \* quantities ordered, received, or changed by
  Counts,        \* what a merchant may set a stock to
  Thresholds, Dates,
  Most           \* bound: no stock is counted, and no lot received, above it

Parts == Options \cup Combinations
Resources == Items \cup Parts

StockRow == [tracked : BOOLEAN, quantity : Nat \cup { None }, threshold : Thresholds \cup { None }]
LotRow == [item : Items, batch : Batches, expiry : Dates \cup { None }, remaining : Nat, received : Nat]
Taken == [item : Items, quantity : Amounts, resources : SUBSET Resources, lots : [Lots -> Nat]]

ASSUME StockroomAssumption ==
  /\ Amounts \subseteq Nat \ {0} /\ Counts \subseteq Nat /\ Thresholds \subseteq Nat /\ Dates \subseteq Nat
  /\ Items \cap Parts = {} /\ Options \cap Combinations = {}
  /\ IsFiniteSet(Lots) /\ IsFiniteSet(Orders)
  /\ Most \in Nat /\ None \notin Nat \cup Lots \cup Resources \cup LotRow \cup Taken

VARIABLES
  shelf,     \* the stock columns of each item, option and combination
  lot,       \* MenuItemInventoryLot rows
  held,      \* what each order has taken
  hand,      \* what each request has read and is about to do
  told,      \* the worst level announced of a resource since it last had enough
  books,     \* units counted in less units counted out, while nothing was overwritten
  apart,     \* items whose two counts a known gap has set apart
  unheard    \* resources that fell while a handler was overtaken, or by the merchant's own hand

stockVars == <<shelf, lot, held, hand, told, books, apart, unheard>>

LotsOf(i) == { l \in Lots : lot[l] # None /\ lot[l].item = i }
Remaining(i) == SumFunctionOnSet([l \in Lots |-> IF l \in LotsOf(i) THEN lot[l].remaining ELSE 0], Lots)

\* How short a resource is: 0 enough, 1 LOW_STOCK, 2 OUT_OF_STOCK.
Level(row) ==
  IF ~row.tracked THEN 0
  ELSE IF Or0(row.quantity) <= 0 THEN 2
  ELSE IF row.threshold # None /\ row.quantity <= row.threshold THEN 1 ELSE 0

NotifiesOfFirstFall(before, after) == before = 0 /\ after > 0
ShouldNotify(before, after) == after > before /\ (before = 0 \/ after = 2)

Idle == [op |-> "none"]

StockInit ==
  /\ shelf = [r \in Resources |-> [tracked |-> FALSE, quantity |-> None, threshold |-> None]]
  /\ lot = [l \in Lots |-> None] /\ held = [o \in Orders |-> None]
  /\ hand = [h \in Hands |-> Idle]
  /\ told = [r \in Resources |-> 0] /\ books = [r \in Resources |-> 0]
  /\ apart = {} /\ unheard = {}

-----------------------------------------------------------------------------
(* What the steps have in common.                                          *)

\* A handler reads the resources it is about to change.
Seen(rs) == [r \in rs |-> shelf[r]]
Read(h, work) ==
  /\ hand[h] = Idle
  /\ hand' = [hand EXCEPT ![h] = work]
  /\ UNCHANGED <<shelf, lot, held, told, books, apart, unheard>>

\* New stock columns for `rows`, written by h: the others at work on a
\* resource that recovers have been overtaken.
Write(h, rows) ==
  LET recovers == { r \in DOMAIN rows : Level(shelf[r]) > 0 /\ Level(rows[r]) = 0 } IN
  /\ shelf' = [r \in Resources |-> IF r \in DOMAIN rows THEN rows[r] ELSE shelf[r]]
  /\ hand' = [g \in Hands |->
       IF g = h \/ hand[g] = Idle THEN Idle ELSE [hand[g] EXCEPT !.overtaken = @ \cup (recovers \cap DOMAIN hand[g].seen)]]

\* The handler compares what it read with what it wrote, and publishes.
Announce(h, rows) ==
  LET sent == { r \in DOMAIN rows : ShouldNotify(Level(hand[h].seen[r]), Level(rows[r])) }
      worse(r) == IF r \in sent THEN Max({ told[r], Level(rows[r]) }) ELSE told[r]
  IN  /\ told' = [r \in Resources |->
           IF r \notin DOMAIN rows THEN told[r] ELSE IF Level(rows[r]) = 0 THEN 0 ELSE worse(r)]
      /\ unheard' = { r \in unheard : r \in DOMAIN rows => Level(rows[r]) > 0 } \cup
                    { r \in DOMAIN rows : r \in hand[h].overtaken /\ Level(rows[r]) > 0 }

\* Nobody is told: a rise, or the merchant's own count.
Quietly(rows, byHand) ==
  /\ told' = [r \in Resources |-> IF r \in DOMAIN rows /\ Level(rows[r]) = 0 THEN 0 ELSE told[r]]
  /\ unheard' = { r \in unheard : r \in DOMAIN rows => Level(rows[r]) > 0 } \cup
                { r \in DOMAIN rows : byHand /\ Level(rows[r]) > 0 }

Plus(r, n) == [shelf[r] EXCEPT !.quantity = Or0(@) + n]
CanChangeIfTracked(r, d) == shelf[r].tracked /\ shelf[r].quantity # None
CanChange(r, d) == shelf[r].tracked /\ shelf[r].quantity # None /\ shelf[r].quantity + d >= 0
Changed(r, d) == [shelf[r] EXCEPT !.quantity = @ + d]

-----------------------------------------------------------------------------
(* Lots.                                                                   *)

BeginReceive(h, i, l, q) ==
  /\ shelf[i].tracked /\ lot[l] = None
  /\ \E b \in Batches, e \in Dates \cup { None } :
       Read(h, [op |-> "receive", item |-> i, lot |-> l, quantity |-> q, batch |-> b, expiry |-> e,
                seen |-> Seen({ i }), overtaken |-> {}])

\* The first lot wants the item's number to be zero, as it was read.
FirstLotFits(w) == LotsOf(w.item) = {} => Or0(w.seen[w.item].quantity) = 0
BatchIsNew(i, b, l) == \A other \in LotsOf(i) \ { l } : lot[other].batch # b

ReceiveLot(h) ==
  LET w == hand[h]
      rows == [r \in { w.item } |-> Plus(r, w.quantity)]
  IN
  /\ w.op = "receive" /\ lot[w.lot] = None
  /\ FirstLotFits(w) /\ BatchIsNew(w.item, w.batch, w.lot)
  /\ Or0(shelf[w.item].quantity) + w.quantity <= Most
  /\ lot' = [lot EXCEPT ![w.lot] = [item |-> w.item, batch |-> w.batch, expiry |-> w.expiry,
                                    remaining |-> w.quantity, received |-> w.quantity]]
  /\ Write(h, rows) /\ Quietly(rows, FALSE)
  /\ books' = [books EXCEPT ![w.item] = @ + w.quantity]
  /\ apart' = IF LotsOf(w.item) = {} /\ Or0(shelf[w.item].quantity) # 0 THEN apart \cup { w.item } ELSE apart
  /\ UNCHANGED held

\* Batch number and dates; the quantities stay.
UpdateLot(l) ==
  /\ lot[l] # None
  /\ \E b \in Batches, e \in Dates \cup { None } :
       /\ BatchIsNew(lot[l].item, b, l)
       /\ lot' = [lot EXCEPT ![l].batch = b, ![l].expiry = e]
  /\ UNCHANGED <<shelf, held, hand, told, books, apart, unheard>>

BeginAdjustLot(h, l, d) ==
  /\ lot[l] # None /\ shelf[lot[l].item].tracked
  /\ Read(h, [op |-> "adjustLot", lot |-> l, item |-> lot[l].item, delta |-> d,
              seen |-> Seen({ lot[l].item }), overtaken |-> {}])

LotChangedSilently(l, d) == [lot[l] EXCEPT !.remaining = @ + d]
LotChanged(l, d) == [lot[l] EXCEPT !.remaining = @ + d, !.received = IF d > 0 THEN @ + d ELSE @]

\* Both counts change, or neither.
AdjustLot(h) ==
  LET w == hand[h]
      rows == [r \in { w.item } |-> Changed(r, w.delta)]
  IN
  /\ w.op = "adjustLot"
  /\ lot[w.lot].remaining + w.delta >= 0 /\ CanChange(w.item, w.delta)
  /\ shelf[w.item].quantity + w.delta <= Most /\ LotChanged(w.lot, w.delta).received <= Most
  /\ lot' = [lot EXCEPT ![w.lot] = LotChanged(w.lot, w.delta)]
  /\ Write(h, rows) /\ Announce(h, rows)
  /\ books' = [books EXCEPT ![w.item] = @ + w.delta]
  /\ UNCHANGED <<held, apart>>

-----------------------------------------------------------------------------
(* Counts of an item, an option or a combination.                          *)

\* An item with lots is not adjusted as a whole; that is seen to before the
\* transaction.  Combinations have no adjustment.
BeginAdjust(h, r, d) ==
  /\ r \in Items \cup Options /\ shelf[r].tracked
  /\ r \in Items => LotsOf(r) = {}
  /\ Read(h, [op |-> "adjust", item |-> r, delta |-> d, seen |-> Seen({ r }), overtaken |-> {}])

Adjust(h) ==
  LET w == hand[h]
      rows == [r \in { w.item } |-> Changed(r, w.delta)]
  IN
  /\ w.op = "adjust" /\ CanChange(w.item, w.delta) /\ shelf[w.item].quantity + w.delta <= Most
  /\ Write(h, rows) /\ Announce(h, rows)
  /\ books' = [books EXCEPT ![w.item] = @ + w.delta]
  /\ apart' = IF w.item \in Items /\ LotsOf(w.item) # {} THEN apart \cup { w.item } ELSE apart
  /\ UNCHANGED <<lot, held>>

\* The stock columns of an update, given what was read: tracking is as asked,
\* else on when a number is given, else as it was.
NextTracking(w) ==
  IF w.tracked # None THEN w.tracked
  ELSE w.quantity # None \/ w.threshold # None \/ w.seen[w.item].tracked
NormalizeUpdate(w) ==
  IF ~NextTracking(w) THEN [tracked |-> FALSE, quantity |-> None, threshold |-> None]
  ELSE [tracked |-> TRUE,
        quantity |-> IF w.quantity # None THEN w.quantity
                     ELSE IF w.seen[w.item].tracked THEN shelf[w.item].quantity ELSE 0,
        threshold |-> IF w.threshold # None THEN w.threshold ELSE shelf[w.item].threshold]

\* (The create forms have the same fields; a row is created and then updated.)
BeginUpdate(h, r) ==
  \E t \in { TRUE, FALSE, None }, n \in Counts \cup { None }, m \in Thresholds \cup { None } :
    /\ ~(t = None /\ n = None /\ m = None)
    /\ Read(h, [op |-> "update", item |-> r, tracked |-> t, quantity |-> n, threshold |-> m,
                seen |-> Seen({ r }), overtaken |-> {}])

\* Holders of units of r: the orders that took some.
Holding(r) == { o \in Orders : held[o] # None /\ r \in held[o].resources }
InOrders(r) == SumFunctionOnSet([o \in Orders |-> IF o \in Holding(r) THEN held[o].quantity ELSE 0], Orders)

Update(h) ==
  LET w == hand[h]
      rows == [r \in { w.item } |-> NormalizeUpdate(w)]
  IN
  /\ w.op = "update"
  /\ Write(h, rows) /\ Quietly(rows, TRUE)
  /\ books' = [books EXCEPT ![w.item] = Or0(NormalizeUpdate(w).quantity) + InOrders(w.item)]
  /\ apart' = IF w.item \notin Items \/ LotsOf(w.item) = {} THEN apart
              ELSE IF Or0(NormalizeUpdate(w).quantity) = Remaining(w.item) THEN apart \ { w.item }
              ELSE apart \cup { w.item }
  /\ UNCHANGED <<lot, held>>

-----------------------------------------------------------------------------
(* Orders.                                                                 *)

\* The lots are read, and taken from in the order they expire.
ExpiresBefore(k, l) ==
  IF lot[k].expiry = lot[l].expiry THEN FALSE
  ELSE IF lot[l].expiry = None THEN TRUE ELSE lot[k].expiry # None /\ lot[k].expiry < lot[l].expiry

\* What each lot gives towards n units, when taken in the order `queue`.
Ahead(queue, l) ==
  SumFunctionOnSet([k \in Lots |-> IF k \in DOMAIN queue /\ queue[k] < queue[l] THEN lot[k].remaining ELSE 0], Lots)
Allocate(queue, n) ==
  [l \in Lots |-> IF l \notin DOMAIN queue THEN 0
                  ELSE Max({ 0, Min({ lot[l].remaining, n - Ahead(queue, l) }) })]
TakingOrders(i) ==
  LET open == { l \in LotsOf(i) : lot[l].remaining > 0 } IN
  { queue \in Bijection(open, 1..Cardinality(open)) :
      \A k, l \in open : ExpiresBefore(k, l) => queue[k] < queue[l] }

\* The resources a line takes from are those tracked when its order is built.
BeginReserve(h, o, i, parts, q) ==
  /\ held[o] = None
  /\ \A g \in Hands : hand[g].op = "reserve" => hand[g].order # o
  /\ \E queue \in TakingOrders(i) :
       /\ LotsOf(i) # {} /\ shelf[i].tracked => Remaining(i) >= q
       /\ Read(h, [op |-> "reserve", order |-> o, item |-> i, quantity |-> q,
                   lots |-> IF shelf[i].tracked /\ LotsOf(i) # {} THEN Allocate(queue, q) ELSE [l \in Lots |-> 0],
                   seen |-> Seen({ r \in { i } \cup parts : shelf[r].tracked }), overtaken |-> {}])

\* All the conditional updates succeed, or the transaction is rolled back.
Reserve(h) ==
  LET w == hand[h]
      rows == [r \in DOMAIN w.seen |-> Changed(r, -w.quantity)]
      ok == /\ \A r \in DOMAIN w.seen : CanChange(r, -w.quantity)
            /\ \A l \in Lots : w.lots[l] > 0 => lot[l].remaining >= w.lots[l]
  IN
  /\ w.op = "reserve" /\ ok
  /\ held' = [held EXCEPT ![w.order] = [item |-> w.item, quantity |-> w.quantity,
                                        resources |-> DOMAIN w.seen, lots |-> w.lots]]
  /\ lot' = [l \in Lots |-> IF w.lots[l] > 0 THEN [lot[l] EXCEPT !.remaining = @ - w.lots[l]] ELSE lot[l]]
  /\ Write(h, rows) /\ Announce(h, [r \in DOMAIN w.seen \ Combinations |-> rows[r]])
  /\ apart' = IF LotsOf(w.item) # {} /\ w.item \in DOMAIN w.seen /\ \A l \in Lots : w.lots[l] = 0
              THEN apart \cup { w.item } ELSE apart
  /\ UNCHANGED books

GivesNoLotsBack(o) == [l \in Lots |-> 0]
GivesLotsBack(o) == [l \in Lots |-> held[o].lots[l]]

BackToTracked(o) == { r \in held[o].resources : shelf[r].tracked }
BackTo(o) == held[o].resources

\* By the snapshots of the order: whatever has become of the tracking since.
Restore(o) ==
  LET back == held[o]
      rows == [r \in BackTo(o) |-> Plus(r, back.quantity)]
      toLots == GivesLotsBack(o)
  IN
  /\ back # None
  /\ held' = [held EXCEPT ![o] = None]
  /\ lot' = [l \in Lots |-> IF toLots[l] > 0 THEN [lot[l] EXCEPT !.remaining = @ + toLots[l]] ELSE lot[l]]
  /\ Write(None, rows) /\ Quietly(rows, FALSE)
  /\ apart' = IF /\ LotsOf(back.item) # {} /\ back.item \in back.resources
                 /\ \A l \in Lots : back.lots[l] = 0
              THEN apart \cup { back.item } ELSE apart
  /\ UNCHANGED books

\* Refused, or the process died: nothing was written.
HandFails(h) ==
  /\ hand[h] # Idle
  /\ hand' = [hand EXCEPT ![h] = Idle]
  /\ UNCHANGED <<shelf, lot, held, told, books, apart, unheard>>

-----------------------------------------------------------------------------
RunLots(h) ==
  \/ \E i \in Items, l \in Lots, q \in Amounts : BeginReceive(h, i, l, q)
  \/ \E l \in Lots, q \in Amounts : BeginAdjustLot(h, l, q) \/ BeginAdjustLot(h, l, -q)
  \/ ReceiveLot(h) \/ AdjustLot(h)

RunCounts(h) ==
  \/ \E r \in Resources, q \in Amounts : BeginAdjust(h, r, q) \/ BeginAdjust(h, r, -q)
  \/ \E r \in Resources : BeginUpdate(h, r)
  \/ Adjust(h) \/ Update(h)

RunOrders(h) ==
  \/ \E o \in Orders, i \in Items, parts \in SUBSET Parts, q \in Amounts : BeginReserve(h, o, i, parts, q)
  \/ Reserve(h)

StockNext ==
  \/ \E h \in Hands : RunLots(h) \/ RunCounts(h) \/ RunOrders(h) \/ HandFails(h)
  \/ \E l \in Lots : UpdateLot(l)
  \/ \E o \in Orders : Restore(o)

StockSpec == StockInit /\ [][StockNext]_stockVars
-----------------------------------------------------------------------------
StockTypeOK ==
  /\ shelf \in [Resources -> StockRow]
  /\ \A l \in Lots : lot[l] = None \/ lot[l] \in LotRow
  /\ \A o \in Orders : held[o] = None \/ held[o] \in Taken
  /\ told \in [Resources -> 0..2] /\ books \in [Resources -> Int]
  /\ apart \subseteq Items /\ unheard \subseteq Resources

\* Units are where the books say: on the shelf or with an order.  An order
\* gives back exactly what it took, whatever became of the tracking of the
\* item, its options or its combination in between, and a reservation that
\* fails half way took nothing (menu-inventory-lifecycle.service.ts).
NothingFromNowhere == \A r \in Resources : Or0(shelf[r].quantity) + InOrders(r) = books[r]

\* The number of an item with lots is the sum of what remains in them, on
\* every path but the five that set them apart: a first lot on a number that
\* changed since it was read, a direct adjustment or a reservation that the
\* first lot overtook, an order from before the lots given back, and a
\* merchant's own number.
LotsCoverStock == \A i \in Items \ apart : LotsOf(i) # {} => Or0(shelf[i].quantity) = Remaining(i)

\* What orders have of a lot.
GivenTo(l) == SumFunctionOnSet([o \in Orders |-> IF held[o] # None THEN held[o].lots[l] ELSE 0], Orders)

\* No lot holds more than came in, counting what orders may still give back,
\* and an order that took from lots took its whole quantity.
LotsKeepTheirUnits ==
  /\ \A l \in Lots : lot[l] # None => lot[l].remaining + GivenTo(l) <= lot[l].received
  /\ \A o \in Orders : held[o] # None => SumFunctionOnSet(held[o].lots, Lots) \in { 0, held[o].quantity }

\* A resource that ran low or out was announced as such since it last had
\* enough, unless it recovered while the handler was at work, or the merchant
\* set it so himself.
FallsAreAnnounced ==
  \A r \in (Items \cup Options) \ unheard : Level(shelf[r]) <= told[r]

\* No unit comes from nowhere or is lost: between shelf and orders, between an
\* item's number and its lots, and within each lot.
StockIsKept == StockTypeOK /\ NothingFromNowhere /\ LotsCoverStock /\ LotsKeepTheirUnits
=============================================================================
