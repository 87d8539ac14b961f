------------------------------ MODULE Purchase ------------------------------
(***************************************************************************)
(* From cart to order: the carts of one branch, the promotions it offers,  *)
(* and the submission of a cart as an order.                               *)
(*                                                                         *)
(* A cart mutation reads the cart's lines inside its transaction, adds     *)
(* them up and commits its own change together with that sum.  Under       *)
(* PostgreSQL's READ COMMITTED it does not see what another transaction    *)
(* is about to commit, and nothing locks the cart before it is read; only  *)
(* a line being changed is locked.                                         *)
(*                                                                         *)
(* A submission reads the active cart, prices it, and only then opens the  *)
(* transaction that looks its idempotency key up and creates the order.    *)
(* The menu, the promotion, the cart and the key may change in between.    *)
(***************************************************************************)
EXTENDS Integers, FiniteSets, FiniteSetsExt, Functions

CONSTANTS
  Clients,        \* requests the branch serves at the same time
  Customers, Items, Carts, Lines, Orders, Keys, Promotions,   \* rows that may exist
  Codes,          \* promotion codes
  None,           \* no such row, or no value
  Quantities, Prices, Limits,   \* what the payloads may ask for
  DeliveryFee, Discount, Minimum, Stock  \* amounts

ASSUME PurchaseAssumption ==
  /\ IsFiniteSet(Clients) /\ Clients # {} /\ Stock \in Nat
  /\ IsFiniteSet(Carts) /\ IsFiniteSet(Lines) /\ IsFiniteSet(Orders)
  /\ Quantities \subseteq Nat \ {0} /\ Prices \subseteq Nat /\ Prices # {} /\ IsFiniteSet(Limits)
  /\ Limits \subseteq Nat \ {0} /\ DeliveryFee \in Nat /\ Discount \in Nat /\ Minimum \in Nat
  /\ None \notin Customers \cup Items \cup Carts \cup Lines \cup Orders \cup Keys
                 \cup Promotions \cup Codes

VARIABLES
  menuItem,    \* price and availability of each item
  stock,       \* units left of each item
  cart, line,  \* Cart and CartItem rows
  latest,      \* carts in the order they were last written, newest first
  promotion,   \* Promotion rows
  usage,       \* PromotionUsage rows
  order, payment,   \* the orders placed, and the payment created with each
  answers,     \* what submissions were answered: key, customer, order
  edit,        \* the cart mutation each client has in a transaction
  submission,  \* the checkout each client is submitting
  skewed       \* carts last written by a mutation that missed another one

purchaseVars == <<menuItem, stock, cart, line, latest, promotion, usage, order, payment,
                  answers, edit, submission, skewed>>

menuRows == <<menuItem, stock>>
cartRows == <<cart, line, latest, skewed>>
orderRows == <<order, payment, usage, answers>>

CartRow == [owner : Customers, status : { "ACTIVE", "CHECKED_OUT" }, total : Nat]
CartItem == [cart : Carts, item : Items, quantity : Nat, unitPrice : Nat]
Promotion == [code : Codes, isActive : BOOLEAN, deleted : BOOLEAN, window : { "before", "open", "over" },
              freeDelivery : BOOLEAN, limit : Limits \cup { None }, capped : BOOLEAN]
Order == [key : Keys, customer : Customers, cart : Carts, items : SUBSET Lines, quantity : [Items -> Nat],
          subtotal : Nat, linesTotal : Nat, total : Nat, promotion : Promotions \cup { None },
          clean : BOOLEAN]

\* None is not such a row either.
ASSUME NoneIsNoRow == None \notin CartRow /\ None \notin CartItem /\ None \notin Promotion

LineTotal(l) == l.quantity * l.unitPrice
ItemsOf(rows, k) == { l \in DOMAIN rows : rows[l] # None /\ rows[l].cart = k }
RecomputeTotals(rows, k) == SumFunctionOnSet([l \in ItemsOf(rows, k) |-> LineTotal(rows[l])], ItemsOf(rows, k))

\* The active cart of a customer: the one written last when there are two.
OwnCarts(u) == { k \in Carts : cart[k] # None /\ cart[k].owner = u }
ActiveCarts(u) == { k \in Carts : cart[k] # None /\ cart[k].owner = u /\ cart[k].status = "ACTIVE" }
Newest(ks) == CHOOSE k \in ks : \A other \in ks : latest[k] >= latest[other]
FindActiveCart(u) == IF ActiveCarts(u) = {} THEN None ELSE Newest(ActiveCarts(u))
Touch(k) == latest' = [other \in Carts |->
              IF other = k THEN Cardinality(Carts)
              ELSE IF latest[other] > latest[k] THEN latest[other] - 1 ELSE latest[other]]

NoEdit == [user |-> None, cart |-> None, rows |-> << >>, total |-> 0, overlapped |-> FALSE]
NoSubmission == [step |-> "idle"]
Free(c) == edit[c] = NoEdit /\ submission[c] = NoSubmission

PurchaseInit ==
  /\ menuItem = [i \in Items |-> [available |-> TRUE, price |-> Min(Prices)]]
  /\ stock = [i \in Items |-> Stock]
  /\ cart = [k \in Carts |-> None] /\ line = [l \in Lines |-> None]
  /\ latest = CHOOSE f \in [Carts -> 1..Cardinality(Carts)] : IsInjective(f)
  /\ promotion = [p \in Promotions |-> None] /\ usage = {}
  /\ order = << >> /\ payment = [o \in Orders |-> None] /\ answers = {}
  /\ edit = [c \in Clients |-> NoEdit] /\ submission = [c \in Clients |-> NoSubmission]
  /\ skewed = {}

-----------------------------------------------------------------------------
(* Carts.  A mutation is begun when its transaction has written its lines  *)
(* and added the cart up, and commits later.                               *)

\* The lines with `rows` written over them.
Written(rows) == [l \in Lines |-> IF l \in DOMAIN rows THEN rows[l] ELSE line[l]]
OneRow(l, row) == [x \in { l } |-> row]

SumBefore(rows, k) == RecomputeTotals(line, k)
SumAfter(rows, k) == RecomputeTotals(Written(rows), k)

Locked == UNION { DOMAIN edit[c].rows : c \in Clients }

\* The transaction has written `rows` over the lines and summed cart k.
BeginEdit(c, u, k, rows) ==
  /\ Free(c) /\ DOMAIN rows \cap Locked = {}
  /\ edit' = [edit EXCEPT ![c] = [user |-> u, cart |-> k, rows |-> rows,
                                  total |-> SumAfter(rows, k), overlapped |-> FALSE]]
  /\ UNCHANGED <<menuRows, cartRows, promotion, orderRows, submission>>

\* An add goes to the active cart, or to one the transaction creates: two
\* adds at once create two.
AddCartItem(c, u, i, q) ==
  /\ menuItem[i].available
  /\ \E l \in Lines :
       /\ line[l] = None
       /\ \E k \in Carts :
            /\ \/ k = FindActiveCart(u)
               \/ FindActiveCart(u) = None /\ cart[k] = None /\ \A d \in Clients : edit[d].cart # k
            /\ BeginEdit(c, u, k, OneRow(l, [cart |-> k, item |-> i, quantity |-> q, unitPrice |-> menuItem[i].price]))

Owns(u, l) == line[l] # None /\ cart[line[l].cart].owner = u

\* Selecting options again takes the price of today, else the old one stays.
UpdateCartItem(c, u, l, q, repriced) ==
  /\ Owns(u, l) /\ menuItem[line[l].item].available
  /\ BeginEdit(c, u, line[l].cart,
       OneRow(l, [line[l] EXCEPT !.quantity = q, !.unitPrice = IF repriced THEN menuItem[line[l].item].price ELSE @]))

RemoveCartItem(c, u, l) == Owns(u, l) /\ BeginEdit(c, u, line[l].cart, OneRow(l, None))

ClearBranchCart(c, u) ==
  /\ FindActiveCart(u) # None
  /\ BeginEdit(c, u, FindActiveCart(u), [l \in ItemsOf(line, FindActiveCart(u)) |-> None])

CommitEdit(c) ==
  LET e == edit[c] IN
  /\ e # NoEdit
  /\ line' = Written(e.rows)
  /\ cart' = [cart EXCEPT ![e.cart] =
       IF @ = None THEN [owner |-> e.user, status |-> "ACTIVE", total |-> e.total] ELSE [@ EXCEPT !.total = e.total]]
  /\ Touch(e.cart)
  /\ skewed' = IF e.overlapped THEN skewed \cup { e.cart } ELSE skewed \ { e.cart }
  /\ edit' = [d \in Clients |-> IF d = c THEN NoEdit
                                ELSE IF edit[d].cart = e.cart THEN [edit[d] EXCEPT !.overlapped = TRUE] ELSE edit[d]]
  /\ UNCHANGED <<menuRows, promotion, orderRows, submission>>

-----------------------------------------------------------------------------
(* Promotions.  A deleted promotion keeps its row, and its code.           *)

Offered(p) == promotion[p] # None /\ ~promotion[p].deleted
CodeIsAvailable(code, p) == \A other \in Promotions \ { p } : Offered(other) => promotion[other].code # code
\* The unique index on (branchId, code) counts the deleted rows too.
CodeIsIndexed(code, p) == \E other \in Promotions \ { p } : promotion[other] # None /\ promotion[other].code = code

SavePromotion(p, row) ==
  /\ CodeIsAvailable(row.code, p) /\ ~CodeIsIndexed(row.code, p)
  /\ promotion' = [promotion EXCEPT ![p] = row]
  /\ UNCHANGED <<menuRows, cartRows, orderRows, edit, submission>>

NewPromotion(code, free, n, w) ==
  [code |-> code, isActive |-> TRUE, deleted |-> FALSE, window |-> w,
   freeDelivery |-> free, limit |-> n, capped |-> n # None]

CreatePromotion(p) ==
  /\ promotion[p] = None
  /\ \E code \in Codes, free \in BOOLEAN, n \in Limits \cup { None }, w \in { "before", "open" } :
       SavePromotion(p, NewPromotion(code, free, n, w))

\* The administrator's form has a limit as well, but the service does not store it.
CreateByAdmin(p) ==
  /\ promotion[p] = None
  /\ \E code \in Codes, free \in BOOLEAN, w \in { "before", "open" } :
       SavePromotion(p, NewPromotion(code, free, None, w))

UpdatePromotion(p) ==
  /\ Offered(p)
  /\ \E code \in Codes, active \in BOOLEAN, n \in Limits \cup { None } :
       SavePromotion(p, [promotion[p] EXCEPT !.code = code, !.isActive = active, !.limit = n,
                                             !.capped = @ /\ n # None])

\* Nor does the administrator's update touch the limit.
UpdateByAdmin(p) ==
  /\ Offered(p)
  /\ \E code \in Codes, active \in BOOLEAN :
       SavePromotion(p, [promotion[p] EXCEPT !.code = code, !.isActive = active])

DeletePromotion(p) ==
  /\ Offered(p)
  /\ promotion' = [promotion EXCEPT ![p].deleted = TRUE]
  /\ UNCHANGED <<menuRows, cartRows, orderRows, edit, submission>>

\* The clock reaches startsAt, then endsAt.
PromotionAges(p) ==
  /\ promotion[p] # None /\ promotion[p].window # "over"
  /\ promotion' = [promotion EXCEPT ![p].window = IF @ = "before" THEN "open" ELSE "over"]
  /\ UNCHANGED <<menuRows, cartRows, orderRows, edit, submission>>

Uses(p, u) == Cardinality({ o \in Orders : <<p, u, o>> \in usage })
HasUsesLeftOrOne(p, u) == promotion[p].limit # None => Uses(p, u) <= promotion[p].limit
HasUsesLeft(p, u) == promotion[p].limit # None => Uses(p, u) < promotion[p].limit

Applies(p, s) ==
  /\ Offered(p) /\ promotion[p].code = s.code
  /\ promotion[p].isActive /\ promotion[p].window = "open"
  /\ s.subtotal >= Minimum
  /\ HasUsesLeft(p, s.customer)

-----------------------------------------------------------------------------
(* Submissions.                                                            *)

Placed == DOMAIN order
OrderWith(key) == { o \in Placed : order[o].key = key }
ItemsReady(k) == \A l \in ItemsOf(line, k) : menuItem[line[l].item].available /\ stock[line[l].item] >= line[l].quantity

\* The validated checkout context: the active cart, as its row and its lines say.
ReadContext(c, u, key, pickup, code) ==
  LET k == FindActiveCart(u) IN
  /\ Free(c)
  /\ k # None /\ ItemsOf(line, k) # {} /\ ItemsReady(k)
  /\ submission' = [submission EXCEPT ![c] =
       [step |-> "read", customer |-> u, key |-> key, pickup |-> pickup, code |-> code, cart |-> k,
        rows |-> [l \in ItemsOf(line, k) |-> line[l]], subtotal |-> cart[k].total, clean |-> k \notin skewed,
        promotion |-> None, total |-> 0, due |-> 0]]
  /\ UNCHANGED <<menuRows, cartRows, promotion, orderRows, edit>>

SameFeeForPickup(pickup) == DeliveryFee
Fee(pickup) == IF pickup THEN 0 ELSE DeliveryFee

UncappedDiscount(s) == Discount
CappedDiscount(s) == Min({ Discount, s.subtotal })

Priced(s, p) ==
  LET discount == IF p = None \/ promotion[p].freeDelivery THEN 0 ELSE CappedDiscount(s)
      fee == IF p # None /\ promotion[p].freeDelivery THEN 0 ELSE Fee(s.pickup)
  IN  [s EXCEPT !.step = "priced", !.promotion = p, !.total = s.subtotal - discount + fee,
                !.due = IF s.pickup THEN s.subtotal - discount ELSE s.subtotal - discount + fee]

PriceSubmission(c) ==
  /\ submission[c].step = "read"
  /\ \E p \in Promotions \cup { None } :
       /\ IF submission[c].code = None THEN p = None
          ELSE p # None /\ Applies(p, submission[c])
       /\ submission' = [submission EXCEPT ![c] = Priced(@, p)]
  /\ UNCHANGED <<menuRows, cartRows, promotion, orderRows, edit>>

Answer(c, o) ==
  /\ answers' = answers \cup { [key |-> submission[c].key, customer |-> submission[c].customer, order |-> o] }
  /\ submission' = [submission EXCEPT ![c] = NoSubmission]

AnyonesOrder(c, o) == TRUE
Mine(c, o) == order[o].customer = submission[c].customer

\* A known key is answered with its order, if it is the customer's own.
ReplayOrder(c) ==
  \E o \in OrderWith(submission[c].key) :
    /\ Mine(c, o) /\ Answer(c, o)
    /\ UNCHANGED <<menuRows, cartRows, promotion, order, payment, usage, edit>>

LookUpKey(c) ==
  /\ submission[c].step = "priced"
  /\ \/ ReplayOrder(c)
     \/ /\ OrderWith(submission[c].key) = {}
        /\ submission' = [submission EXCEPT ![c].step = "submitting"]
        /\ UNCHANGED <<menuRows, cartRows, promotion, orderRows, edit>>

Ordered(s, i) ==
  SumFunctionOnSet([l \in DOMAIN s.rows |-> s.rows[l].quantity], { l \in DOMAIN s.rows : s.rows[l].item = i })

NoIndexOnKeys(key) == TRUE
KeyIsFree(key) == OrderWith(key) = {}

\* Stock is taken, the order, its payment and its use of the promotion are
\* created and the cart is spent in one transaction.
CreateOrder(c) ==
  LET s == submission[c] IN
  /\ s.step = "submitting" /\ KeyIsFree(s.key)
  /\ \A i \in Items : stock[i] >= Ordered(s, i)
  /\ stock' = [i \in Items |-> stock[i] - Ordered(s, i)]
  /\ \E o \in Orders \ Placed :
       /\ order' = [other \in Placed \cup { o } |-> IF other # o THEN order[other] ELSE
            [key |-> s.key, customer |-> s.customer, cart |-> s.cart, items |-> DOMAIN s.rows,
             quantity |-> [i \in Items |-> Ordered(s, i)],
             subtotal |-> s.subtotal, total |-> s.due, promotion |-> s.promotion,
             linesTotal |-> RecomputeTotals(s.rows, s.cart), clean |-> s.clean]]
       /\ payment' = [payment EXCEPT ![o] = s.total]
       /\ usage' = IF s.promotion = None THEN usage ELSE usage \cup { <<s.promotion, s.customer, o>> }
       /\ Answer(c, o)
  /\ cart' = [cart EXCEPT ![s.cart].status = "CHECKED_OUT"] /\ Touch(s.cart)
  /\ UNCHANGED <<menuItem, line, promotion, edit, skewed>>

\* (The same with the units left taken.)
KeyCollidesAfterReserving(c) ==
  /\ submission[c].step = "submitting" /\ OrderWith(submission[c].key) # {}
  /\ submission' = [submission EXCEPT ![c].step = "collided"]
  /\ stock' = [i \in Items |-> Max({ 0, stock[i] - Ordered(submission[c], i) })]
  /\ UNCHANGED <<menuItem, cartRows, promotion, orderRows, edit>>

\* The unique index on idempotencyKey stops the transaction: it is rolled
\* back, and the order it collided with is looked up outside of it.
KeyCollides(c) ==
  /\ submission[c].step = "submitting" /\ OrderWith(submission[c].key) # {}
  /\ submission' = [submission EXCEPT ![c].step = "collided"]
  /\ UNCHANGED <<menuRows, cartRows, promotion, orderRows, edit>>

ReplayAfterCollision(c) == submission[c].step = "collided" /\ ReplayOrder(c)

\* Refused, failed, or its process died: every step before the commit leaves no trace.
RequestFails(c) ==
  /\ ~Free(c)
  /\ edit' = [edit EXCEPT ![c] = NoEdit] /\ submission' = [submission EXCEPT ![c] = NoSubmission]
  /\ UNCHANGED <<menuRows, cartRows, promotion, orderRows>>

-----------------------------------------------------------------------------
\* The merchant changes an item's price, or takes it off the menu and back.
ChangeItem(i) ==
  /\ \E p \in Prices, a \in BOOLEAN :
       /\ [available |-> a, price |-> p] # menuItem[i]
       /\ menuItem' = [menuItem EXCEPT ![i] = [available |-> a, price |-> p]]
  /\ UNCHANGED <<stock, cartRows, promotion, orderRows, edit, submission>>

EditCart(c) ==
  \/ \E u \in Customers :
       \/ \E i \in Items, q \in Quantities : AddCartItem(c, u, i, q)
       \/ \E l \in Lines, q \in Quantities, repriced \in BOOLEAN : UpdateCartItem(c, u, l, q, repriced)
       \/ \E l \in Lines : RemoveCartItem(c, u, l)
       \/ ClearBranchCart(c, u)
  \/ CommitEdit(c)

Proceed(c) ==
  \/ PriceSubmission(c) \/ LookUpKey(c) \/ CreateOrder(c) \/ KeyCollides(c) \/ ReplayAfterCollision(c)

Submit(c) ==
  \/ \E u \in Customers, key \in Keys, pickup \in BOOLEAN, code \in Codes \cup { None } :
       ReadContext(c, u, key, pickup, code)
  \/ Proceed(c)

RunPromotions ==
  \E p \in Promotions :
    \/ CreatePromotion(p) \/ UpdatePromotion(p) \/ DeletePromotion(p)
    \/ PromotionAges(p)

AdminPromotions == \E p \in Promotions : CreateByAdmin(p) \/ UpdateByAdmin(p)

PurchaseNext ==
  \/ \E c \in Clients : EditCart(c) \/ Submit(c) \/ RequestFails(c)
  \/ \E i \in Items : ChangeItem(i)
  \/ RunPromotions \/ AdminPromotions

PurchaseSpec == PurchaseInit /\ [][PurchaseNext]_purchaseVars

-----------------------------------------------------------------------------
UnderWay(k) == { c \in Clients : submission[c] # NoSubmission /\ submission[c].cart = k }
Claiming(p, u) ==
  { c \in Clients : /\ submission[c].step \in { "priced", "submitting", "collided" }
                    /\ submission[c].promotion = p /\ submission[c].customer = u }

PurchaseTypeOK ==
  /\ menuItem \in [Items -> [available : BOOLEAN, price : Prices]] /\ stock \in [Items -> Nat]
  /\ \A k \in Carts : cart[k] = None \/ cart[k] \in CartRow
  /\ \A l \in Lines : line[l] = None \/ line[l] \in CartItem
  /\ latest \in [Carts -> 1..Cardinality(Carts)]
  /\ \A p \in Promotions : promotion[p] = None \/ promotion[p] \in Promotion
  /\ usage \subseteq Promotions \X Customers \X Orders
  /\ Placed \subseteq Orders /\ \A o \in Placed : order[o] \in Order
  /\ \A o \in Orders : payment[o] = None \/ payment[o] \in Nat
  /\ answers \subseteq [key : Keys, customer : Customers, order : Orders]
  /\ skewed \subseteq Carts

\* Whatever the timing of two submissions with one idempotency key, all that
\* succeed are answered with one order, and it is the asking customer's: the
\* look-up in the transaction, the unique index and the look-up after a
\* collision leave no gap (checkout-submission.service.ts).
AnswersAgree ==
  /\ \A a \in answers : /\ a.order \in Placed
                        /\ order[a.order].key = a.key /\ order[a.order].customer = a.customer
  /\ \A a, b \in answers : a.key = b.key => a.order = b.order

\* Every order has a payment of exactly its total, though the two amounts are
\* computed apart: the order's from the delivery type, the payment's from
\* whether the context has an address.
PaymentIsTheTotal == \A o \in Orders : IF o \notin Placed THEN payment[o] = None ELSE payment[o] = order[o].total

\* Units leave the shelf only with an order that lists them: a refused,
\* failed, replayed or colliding submission takes none.
StockIsAccounted ==
  \A i \in Items : stock[i] + SumFunctionOnSet([o \in Placed |-> order[o].quantity[i]], Placed) = Stock

\* A cart's total is the sum of its lines unless the mutation that wrote it
\* last missed one that committed meanwhile; the next undisturbed mutation
\* puts it right.  An order made of a cart whose total was right adds up.
TotalsHeal ==
  /\ \A k \in Carts : cart[k] # None /\ k \notin skewed => cart[k].total = RecomputeTotals(line, k)
  /\ \A o \in Placed : order[o].clean => order[o].subtotal = order[o].linesTotal

\* The per-customer limit is counted before the transaction that records the
\* use.  It is overrun, but by no more than the submissions of that customer
\* that are under way together; and a use is recorded exactly for the orders
\* the promotion priced.
OverrunIsBounded ==
  /\ \A p \in Promotions, u \in Customers :
       promotion[p] # None /\ promotion[p].capped =>
         Uses(p, u) + Cardinality(Claiming(p, u)) <= Max(Limits) - 1 + Cardinality(Clients)
  /\ usage = { <<order[o].promotion, order[o].customer, o>> : o \in { q \in Placed : order[q].promotion # None } }

\* A cart still active has no order, and a spent one has no more orders than
\* submissions of it were under way together: later ones find no cart.
SpentOnlyTogether ==
  \A k \in Carts :
    LET made == { o \in Placed : order[o].cart = k } IN
    /\ made # {} => /\ cart[k].status = "CHECKED_OUT"
                    /\ Cardinality(made) + Cardinality(UnderWay(k)) <= Cardinality(Clients)

\* Submissions implement the ledger of CheckoutLedger.tla.
Ledger == INSTANCE CheckoutLedger WITH
  placed <- { [key |-> order[o].key, order |-> o, customer |-> order[o].customer] : o \in Placed }
LedgerSpec == Ledger!Spec

\* "Maximum number of times a single customer can use this promotion."
\* (create-promotion.dto.ts)  Two submissions priced together both use it.
PerCustomerLimitKept ==
  \A p \in Promotions, u \in Customers :
    promotion[p] # None /\ promotion[p].capped => Uses(p, u) <= Max(Limits)

\* What a purchase leaves behind agrees: the answers with the key, the payment
\* with the order, the shelf with the orders, a cart's total with its lines and
\* a spent cart with its orders, whichever submissions and edits crossed.
PurchaseAgrees == PurchaseTypeOK /\ AnswersAgree /\ PaymentIsTheTotal /\ StockIsAccounted /\ TotalsHeal /\ SpentOnlyTogether
=============================================================================
