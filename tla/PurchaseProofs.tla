--------------------------- MODULE PurchaseProofs ---------------------------
(***************************************************************************)
(* Two arguments about purchases, for any number of clients, carts, keys   *)
(* and promotions, whoever submits, repeats, collides, edits or dies.      *)
(*                                                                         *)
(* One order per key: orders are only ever added, and only under a key     *)
(* that no order has; a submission keeps its key and its customer from the *)
(* context it read to its answer; and whatever is answered names an order  *)
(* under that key of that customer.                                        *)
(*                                                                         *)
(* The books (BooksInv): a mutation in flight holds lines of its own cart  *)
(* and knows its total unless it was told of another; a submission in      *)
(* flight knows the total its lines had, its two amounts agree, and its    *)
(* claim on a promotion turns into a use; a cart with an order is spent.   *)
(***************************************************************************)
EXTENDS Purchase, Sums, FunctionTheorems, TLAPS

Submitting(c) == submission[c].step # "idle"

SubmissionsFit ==
  /\ DOMAIN submission = Clients
  /\ \A c \in Clients : Submitting(c) =>
       /\ { "step", "key", "customer" } \subseteq DOMAIN submission[c]
       /\ submission[c].key \in Keys /\ submission[c].customer \in Customers

OneOrderPerKey == \A o, p \in Placed : order[o].key = order[p].key => o = p

PurchaseInv == Placed \subseteq Orders /\ OneOrderPerKey /\ AnswersAgree /\ SubmissionsFit

\* What no handler but the submissions touches.
ledgerRows == <<order, answers, submission>>
-----------------------------------------------------------------------------
\* At first nothing is placed.
LEMMA NothingPlaced == PurchaseInit => PurchaseInv
<1> SUFFICES ASSUME PurchaseInit PROVE PurchaseInv
  OBVIOUS
<1>1. Placed = {} /\ answers = {}
  BY DEF PurchaseInit, Placed
<1>2. SubmissionsFit
  BY DEF PurchaseInit, SubmissionsFit, Submitting, NoSubmission
<1>3. QED
  BY <1>1, <1>2 DEF PurchaseInv, OneOrderPerKey, AnswersAgree

\* A submission that goes on, or ends, keeps its key and its customer.
LEMMA SubmissionChanges ==
  ASSUME SubmissionsFit, NEW c \in Clients, NEW s, submission' = [submission EXCEPT ![c] = s],
         s.step # "idle" => /\ { "step", "key", "customer" } \subseteq DOMAIN s
                            /\ s.key \in Keys /\ s.customer \in Customers
  PROVE  SubmissionsFit'
BY DEF SubmissionsFit, Submitting

\* A known order is answered.
LEMMA Replayed ==
  ASSUME PurchaseInv, NEW c \in Clients, Submitting(c), ReplayOrder(c) PROVE PurchaseInv' /\ order' = order
<1> USE DEF PurchaseInv
<1>1. PICK o \in OrderWith(submission[c].key) : Mine(c, o) /\ Answer(c, o) /\ order' = order
  BY DEF ReplayOrder
<1>2. o \in Placed /\ order[o].key = submission[c].key /\ order[o].customer = submission[c].customer
  BY <1>1 DEF OrderWith, Mine
<1>3. /\ answers' = answers \cup { [key |-> submission[c].key, customer |-> submission[c].customer, order |-> o] }
      /\ submission' = [submission EXCEPT ![c] = NoSubmission]
  BY <1>1 DEF Answer
<1>4. SubmissionsFit'
  BY <1>3, SubmissionChanges DEF NoSubmission
<1>5. Placed' = Placed
  BY <1>1 DEF Placed
<1>6. AnswersAgree'
  BY <1>1, <1>2, <1>3, <1>5 DEF AnswersAgree, OneOrderPerKey
<1>7. QED
  BY <1>1, <1>4, <1>5, <1>6 DEF OneOrderPerKey

\* An order is added under a key that none has.
LEMMA Created ==
  ASSUME PurchaseInv, NEW c \in Clients, CreateOrder(c)
  PROVE  /\ PurchaseInv'
         /\ \E o \in Orders \ Placed :
              /\ Placed' = Placed \cup { o } /\ \A p \in Placed : order'[p] = order[p]
              /\ order'[o].key = submission[c].key /\ order'[o].customer = submission[c].customer
              /\ submission[c].key \in Keys /\ submission[c].customer \in Customers
              /\ \A p \in Placed : order[p].key # submission[c].key
<1> USE DEF PurchaseInv
<1>1. Submitting(c) /\ \A p \in Placed : order[p].key # submission[c].key
  BY DEF CreateOrder, Submitting, KeyIsFree, OrderWith
<1>a. PICK o \in Orders \ Placed :
        /\ \E row : /\ order' = [p \in Placed \cup { o } |-> IF p # o THEN order[p] ELSE row]
                    /\ row.key = submission[c].key /\ row.customer = submission[c].customer
        /\ Answer(c, o)
  BY DEF CreateOrder
<1>2. PICK row : /\ order' = [p \in Placed \cup { o } |-> IF p # o THEN order[p] ELSE row]
                 /\ row.key = submission[c].key /\ row.customer = submission[c].customer
  BY <1>a
<1>3. /\ Placed' = Placed \cup { o } /\ \A p \in Placed : order'[p] = order[p]
      /\ order'[o] = row
  BY <1>a, <1>2 DEF Placed
<1>4. /\ answers' = answers \cup { [key |-> submission[c].key, customer |-> submission[c].customer, order |-> o] }
      /\ submission' = [submission EXCEPT ![c] = NoSubmission]
  BY <1>a DEF Answer
<1>5. SubmissionsFit'
  BY <1>4, SubmissionChanges DEF NoSubmission
<1>6. OneOrderPerKey'
  BY <1>1, <1>2, <1>3 DEF OneOrderPerKey
<1>7. AnswersAgree'
  <2>1. \A a \in answers' : /\ a.order \in Placed' /\ order'[a.order].key = a.key
                            /\ order'[a.order].customer = a.customer
    BY <1>2, <1>3, <1>4 DEF AnswersAgree
  <2>2. QED
    BY <1>6, <2>1 DEF AnswersAgree, OneOrderPerKey
<1>8. QED
  BY <1>1, <1>2, <1>3, <1>5, <1>6, <1>7 DEF SubmissionsFit

\* The steps of a submission that place and answer nothing.
LEMMA GoesOn ==
  ASSUME PurchaseInv, NEW c \in Clients,
         \/ \E u \in Customers, key \in Keys, pickup \in BOOLEAN, code \in Codes \cup { None } :
              ReadContext(c, u, key, pickup, code)
         \/ PriceSubmission(c) \/ KeyCollides(c) \/ RequestFails(c)
         \/ Submitting(c) /\ submission' = [submission EXCEPT ![c].step = "submitting"] /\ UNCHANGED <<order, answers>>
  PROVE  PurchaseInv' /\ order' = order
<1> USE DEF PurchaseInv
<1>1. UNCHANGED <<order, answers>>
  BY DEF ReadContext, PriceSubmission, KeyCollides, RequestFails, orderRows
<1>2. SubmissionsFit'
  <2>1. CASE \E u \in Customers, key \in Keys, pickup \in BOOLEAN, code \in Codes \cup { None } :
               ReadContext(c, u, key, pickup, code)
    <3>1. PICK u \in Customers, key \in Keys, pickup \in BOOLEAN, code \in Codes \cup { None } :
            ReadContext(c, u, key, pickup, code)
      BY <2>1
    <3> DEFINE s(k) == [step |-> "read", customer |-> u, key |-> key, pickup |-> pickup, code |-> code, cart |-> k,
                        rows |-> [l \in ItemsOf(line, k) |-> line[l]], subtotal |-> cart[k].total,
                        clean |-> k \notin skewed, promotion |-> None, total |-> 0, due |-> 0]
    <3>2. \A k : { "step", "key", "customer" } \subseteq DOMAIN s(k) /\ s(k).key = key /\ s(k).customer = u
      OBVIOUS
    <3>3. \E k : submission' = [submission EXCEPT ![c] = s(k)]
      BY <3>1, Zenon DEF ReadContext
    <3>4. PICK k : submission' = [submission EXCEPT ![c] = s(k)]
      BY <3>3
    <3>5. PICK t : t = s(k)
      OBVIOUS
    <3>6. { "step", "key", "customer" } \subseteq DOMAIN t /\ t.key = key /\ t.customer = u
      BY <3>2, <3>5, Zenon
    <3>7. submission' = [submission EXCEPT ![c] = t]
      BY <3>4, <3>5, Zenon
    <3> HIDE DEF s
    <3>8. QED
      BY <3>6, <3>7, SubmissionChanges
  <2>2. CASE PriceSubmission(c)
    <3>1. Submitting(c)
      BY <2>2 DEF PriceSubmission, Submitting
    <3>2. PICK p \in Promotions \cup { None } : submission' = [submission EXCEPT ![c] = Priced(submission[c], p)]
      BY <2>2 DEF PriceSubmission, SubmissionsFit
    <3>3. /\ DOMAIN Priced(submission[c], p) = DOMAIN submission[c]
          /\ Priced(submission[c], p).key = submission[c].key /\ Priced(submission[c], p).customer = submission[c].customer
      BY <3>1 DEF Priced, SubmissionsFit
    <3>4. QED
      BY <3>1, <3>2, <3>3, SubmissionChanges DEF SubmissionsFit
  <2>3. CASE \/ KeyCollides(c)
             \/ Submitting(c) /\ submission' = [submission EXCEPT ![c].step = "submitting"]
    <3>1. Submitting(c)
      BY <2>3 DEF KeyCollides, Submitting
    <3>2. PICK x \in { "collided", "submitting" } : submission' = [submission EXCEPT ![c] = [submission[c] EXCEPT !.step = x]]
      BY <2>3 DEF KeyCollides
    <3>3. /\ DOMAIN [submission[c] EXCEPT !.step = x] = DOMAIN submission[c]
          /\ [submission[c] EXCEPT !.step = x].key = submission[c].key
          /\ [submission[c] EXCEPT !.step = x].customer = submission[c].customer
      BY <3>1 DEF SubmissionsFit
    <3>4. QED
      BY <3>1, <3>2, <3>3, SubmissionChanges DEF SubmissionsFit
  <2>4. CASE RequestFails(c)
    BY <2>4, SubmissionChanges DEF RequestFails, NoSubmission
  <2>5. QED
    BY <2>1, <2>2, <2>3, <2>4
<1>3. QED
  BY <1>1, <1>2 DEF Placed, OneOrderPerKey, AnswersAgree

\* Edits, prices and promotions touch no order and no submission.
LEMMA OthersTouchNoOrder ==
  ASSUME NEW c \in Clients, EditCart(c) \/ (\E i \in Items : ChangeItem(i)) \/ RunPromotions \/ AdminPromotions
  PROVE  UNCHANGED ledgerRows
<1>1. CASE EditCart(c)
  <2>1. \A u, k, rows : BeginEdit(c, u, k, rows) => UNCHANGED ledgerRows
    BY DEF BeginEdit, ledgerRows, orderRows
  <2>2. CommitEdit(c) => UNCHANGED ledgerRows
    BY DEF CommitEdit, ledgerRows, orderRows
  <2>3. QED
    BY <1>1, <2>1, <2>2, Zenon DEF EditCart, AddCartItem, UpdateCartItem, RemoveCartItem, ClearBranchCart
<1>2. CASE \E i \in Items : ChangeItem(i)
  BY <1>2 DEF ChangeItem, ledgerRows, orderRows
<1>3. CASE RunPromotions \/ AdminPromotions
  <2>1. ASSUME NEW p \in Promotions PROVE \A row : SavePromotion(p, row) => UNCHANGED ledgerRows
    BY DEF SavePromotion, ledgerRows, orderRows
  <2>2. ASSUME NEW p \in Promotions, CreatePromotion(p) \/ CreateByAdmin(p) PROVE UNCHANGED ledgerRows
    BY <2>1, <2>2 DEF CreatePromotion, CreateByAdmin
  <2>3. ASSUME NEW p \in Promotions, UpdatePromotion(p) \/ UpdateByAdmin(p) PROVE UNCHANGED ledgerRows
    BY <2>1, <2>3 DEF UpdatePromotion, UpdateByAdmin
  <2>4. ASSUME NEW p \in Promotions, DeletePromotion(p) \/ PromotionAges(p) PROVE UNCHANGED ledgerRows
    BY <2>4 DEF DeletePromotion, PromotionAges, ledgerRows, orderRows
  <2>5. QED
    BY <1>3, <2>2, <2>3, <2>4 DEF RunPromotions, AdminPromotions
<1>4. QED
  BY <1>1, <1>2, <1>3

PlacedRows == { [key |-> order[o].key, order |-> o, customer |-> order[o].customer] : o \in Placed }

\* Every step places one order under a new key, or none.
LEMMA PurchaseStep ==
  ASSUME PurchaseInv, [PurchaseNext]_purchaseVars
  PROVE  PurchaseInv' /\ [Ledger!Next]_PlacedRows
<1>1. UNCHANGED order => UNCHANGED PlacedRows
  BY DEF PlacedRows, Placed
<1>2. CASE UNCHANGED ledgerRows
  BY <1>1, <1>2 DEF ledgerRows, PurchaseInv, SubmissionsFit, Submitting, OneOrderPerKey, AnswersAgree, Placed
<1>3. ASSUME NEW c \in Clients, Submit(c) PROVE PurchaseInv' /\ [Ledger!Next]_PlacedRows
  <2>1. CASE CreateOrder(c)
    <3>1. PICK o \in Orders \ Placed :
            /\ Placed' = Placed \cup { o } /\ \A p \in Placed : order'[p] = order[p]
            /\ order'[o].key = submission[c].key /\ order'[o].customer = submission[c].customer
            /\ submission[c].key \in Keys /\ submission[c].customer \in Customers
            /\ \A p \in Placed : order[p].key # submission[c].key
      BY <2>1, Created
    <3>2. PlacedRows' = PlacedRows \cup { [key |-> submission[c].key, order |-> o, customer |-> submission[c].customer] }
      BY <3>1 DEF PlacedRows
    <3>3. \A t \in PlacedRows : t.key # submission[c].key /\ t.order # o
      BY <3>1 DEF PlacedRows
    <3>4. PICK k \in Keys, u \in Customers : k = submission[c].key /\ u = submission[c].customer
      BY <3>1
    <3>5. Ledger!Next
      <4>1. Ledger!Place(k, o, u)
        BY <3>2, <3>3, <3>4 DEF Ledger!Place, PlacedRows
      <4>2. QED
        BY <4>1 DEF Ledger!Next
    <3>6. QED
      BY <2>1, <3>5, Created
  <2>2. CASE LookUpKey(c) \/ ReplayAfterCollision(c)
    <3>1. Submitting(c)
      BY <2>2 DEF LookUpKey, ReplayAfterCollision, Submitting
    <3>2. CASE ReplayOrder(c)
      BY <1>1, <3>1, <3>2, Replayed
    <3>3. CASE submission' = [submission EXCEPT ![c].step = "submitting"] /\ UNCHANGED <<order, answers>>
      BY <1>1, <3>1, <3>3, GoesOn
    <3>4. QED
      BY <2>2, <3>2, <3>3 DEF LookUpKey, ReplayAfterCollision, orderRows
  <2>3. CASE \/ PriceSubmission(c) \/ KeyCollides(c)
             \/ \E u \in Customers, key \in Keys, pickup \in BOOLEAN, code \in Codes \cup { None } :
                  ReadContext(c, u, key, pickup, code)
    BY <1>1, <2>3, GoesOn
  <2>4. QED
    BY <1>3, <2>1, <2>2, <2>3 DEF Submit, Proceed
<1>4. ASSUME NEW c \in Clients, RequestFails(c) PROVE PurchaseInv' /\ [Ledger!Next]_PlacedRows
  BY <1>1, <1>4, GoesOn
<1>5. UNCHANGED purchaseVars => UNCHANGED ledgerRows
  BY DEF purchaseVars, ledgerRows
<1>6. (\E i \in Items : ChangeItem(i)) \/ RunPromotions \/ AdminPromotions => UNCHANGED ledgerRows
  BY OthersTouchNoOrder, PurchaseAssumption
<1>7. QED
  BY <1>2, <1>3, <1>4, <1>5, <1>6, OthersTouchNoOrder DEF PurchaseNext

\* Whoever repeats a submission and whenever, all that succeed under one
\* idempotency key are answered with one order, the asking customer's
\* (checkout-submission.service.ts).
THEOREM AnswersAlwaysAgree == PurchaseSpec => []AnswersAgree
<1>1. PurchaseInv /\ [PurchaseNext]_purchaseVars => PurchaseInv'
  BY PurchaseStep
<1>2. PurchaseInv => AnswersAgree
  BY DEF PurchaseInv
<1>3. QED
  BY NothingPlaced, <1>1, <1>2, PTL DEF PurchaseSpec

\* Submissions implement the ledger: an order is placed under a key that has
\* none, and nothing becomes of it afterwards.
THEOREM PurchaseImplementsLedger == PurchaseSpec => LedgerSpec
<1>1. PurchaseInit => Ledger!Init
  BY DEF PurchaseInit, Ledger!Init, Placed
<1>2. PurchaseInv /\ [PurchaseNext]_purchaseVars => PurchaseInv'
  BY PurchaseStep
<1>3. PurchaseInv /\ [PurchaseNext]_purchaseVars =>
        [Ledger!Next]_({ [key |-> order[o].key, order |-> o, customer |-> order[o].customer] : o \in Placed })
  BY PurchaseStep DEF PlacedRows
<1>4. QED
  BY NothingPlaced, <1>1, <1>2, <1>3, PTL DEF PurchaseSpec, LedgerSpec, Ledger!Spec

-----------------------------------------------------------------------------
\* Written lines, edits and submissions as they can be.
RowSets(R) == UNION { [D -> R] : D \in SUBSET Lines }
Edit == [user : Customers, cart : Carts, rows : RowSets(CartItem \cup { None }), total : Nat, overlapped : BOOLEAN]
Submission ==
  [step : { "read", "priced", "submitting", "collided" }, customer : Customers, key : Keys, pickup : BOOLEAN,
   code : Codes \cup { None }, cart : Carts, rows : RowSets(CartItem), subtotal : Nat, clean : BOOLEAN,
   promotion : Promotions \cup { None }, total : Nat, due : Nat]

TypesFit ==
  /\ menuItem \in [Items -> [available : BOOLEAN, price : Prices]] /\ stock \in [Items -> Nat]
  /\ cart \in [Carts -> CartRow \cup { None }] /\ line \in [Lines -> CartItem \cup { None }]
  /\ latest \in [Carts -> 1 .. Cardinality(Carts)]
  /\ promotion \in [Promotions -> Promotion \cup { None }]
  /\ usage \subseteq Promotions \X Customers \X Orders
  /\ Placed \subseteq Orders /\ \A o \in Placed : order[o] \in Order
  /\ payment \in [Orders -> Nat \cup { None }]
  /\ answers \subseteq [key : Keys, customer : Customers, order : Orders]
  /\ skewed \subseteq Carts
  /\ edit \in [Clients -> Edit \cup { NoEdit }]
  /\ submission \in [Clients -> Submission \cup { NoSubmission }]

\* The types of the proof give the type invariant.
LEMMA TypesOK == ASSUME TypesFit PROVE PurchaseTypeOK
BY DEF TypesFit, PurchaseTypeOK

\* What a set of written lines is.
LEMMA RowSetsFit ==
  ASSUME NEW R, NEW rows
  PROVE  rows \in RowSets(R) <=> DOMAIN rows \subseteq Lines /\ rows \in [DOMAIN rows -> R]
BY DEF RowSets

\* A client without mutation or submission is told from one that has one.
LEMMA NoEditIsNone ==
  NoEdit \notin Edit /\ NoSubmission \notin Submission /\ \A s \in Submission : s.step # "idle"
<1>1. NoEdit \notin Edit
  BY PurchaseAssumption DEF NoEdit, Edit
<1>2. \A s \in Submission : s.step # "idle"
  BY DEF Submission
<1>3. QED
  BY <1>1, <1>2 DEF NoSubmission

-----------------------------------------------------------------------------
\* A cart has finitely many lines.
LEMMA ItemsFinite ==
  ASSUME NEW rows, DOMAIN rows \subseteq Lines, NEW k
  PROVE  IsFiniteSet(ItemsOf(rows, k)) /\ IsFiniteSet(DOMAIN rows)
<1>1. ItemsOf(rows, k) \in SUBSET Lines /\ DOMAIN rows \in SUBSET Lines
  BY DEF ItemsOf
<1>2. QED
  BY <1>1, PartIsFinite, PurchaseAssumption

\* A cart's total is a number.
LEMMA TotalIsNat ==
  ASSUME NEW rows \in RowSets(CartItem \cup { None }), NEW k PROVE RecomputeTotals(rows, k) \in Nat
<1> DEFINE f == [l \in ItemsOf(rows, k) |-> LineTotal(rows[l])]
<1>1. DOMAIN rows \subseteq Lines /\ rows \in [DOMAIN rows -> CartItem \cup { None }]
  BY RowSetsFit
<1>2. ASSUME NEW l \in ItemsOf(rows, k) PROVE f[l] \in Nat
  <2>1. rows[l] \in CartItem
    BY <1>1 DEF ItemsOf
  <2>2. rows[l].quantity \in Nat /\ rows[l].unitPrice \in Nat
    BY <2>1 DEF CartItem
  <2>3. QED
    BY <2>2 DEF LineTotal
<1>3. IsFiniteSet(ItemsOf(rows, k))
  BY <1>1, ItemsFinite
<1> HIDE DEF f
<1>4. SumFunctionOnSet(f, ItemsOf(rows, k)) \in Nat
  BY <1>2, <1>3, SumNat
<1>5. QED
  BY <1>4 DEF RecomputeTotals, f

\* Two versions of the lines that agree on a cart give it one total.
LEMMA SameTotal ==
  ASSUME NEW rows \in RowSets(CartItem \cup { None }), NEW others \in RowSets(CartItem \cup { None }), NEW k,
         ItemsOf(rows, k) = ItemsOf(others, k), \A l \in ItemsOf(rows, k) : rows[l] = others[l]
  PROVE  RecomputeTotals(rows, k) = RecomputeTotals(others, k)
<1>1. [l \in ItemsOf(rows, k) |-> LineTotal(rows[l])] = [l \in ItemsOf(others, k) |-> LineTotal(others[l])]
  OBVIOUS
<1>2. QED
  BY <1>1 DEF RecomputeTotals

\* So is the quantity of an item that a submission orders.
LEMMA OrderedIsNat ==
  ASSUME NEW s, s.rows \in RowSets(CartItem), NEW i PROVE Ordered(s, i) \in Nat
<1> DEFINE f == [l \in DOMAIN s.rows |-> s.rows[l].quantity]
           L == { l \in DOMAIN s.rows : s.rows[l].item = i }
<1>1. DOMAIN s.rows \subseteq Lines /\ s.rows \in [DOMAIN s.rows -> CartItem]
  BY RowSetsFit
<1>2. \A l \in DOMAIN s.rows : f[l] \in Nat
  BY <1>1 DEF CartItem
<1>3. L \in SUBSET Lines /\ L \subseteq DOMAIN s.rows
  BY <1>1
<1>4. IsFiniteSet(L)
  BY <1>3, PartIsFinite, PurchaseAssumption
<1> HIDE DEF f, L
<1>5. SumFunctionOnSet(f, L) \in Nat
  BY <1>2, <1>3, <1>4, SumNat
<1>6. QED
  BY <1>5 DEF Ordered, f, L

\* The smaller of two numbers.
LEMMA MinOfTwo == ASSUME NEW a \in Int, NEW b \in Int PROVE Min({a, b}) = IF a <= b THEN a ELSE b
BY DEF Min

\* There is a least price.
LEMMA LeastPrice == Min(Prices) \in Prices
<1>1. PICK p \in Prices : p \in Nat
  BY PurchaseAssumption
<1> DEFINE S == { x \in Prices : x <= p }
           f == [x \in S |-> p - x]
<1>2. p \in S /\ \A x \in S : f[x] = p - x /\ x \in Prices /\ x \in Nat /\ x <= p
  BY <1>1, PurchaseAssumption
<1>3. \A x \in S : f[x] \in Nat
  BY <1>1, <1>2
<1>4. IsFiniteSet(S)
  <2> HIDE DEF S
  <2>1. S \in SUBSET (0 .. p)
    BY <1>1, <1>2
  <2>2. IsFiniteSet(0 .. p)
    BY <1>1, FS_Interval
  <2>3. QED
    BY <2>1, <2>2, PartIsFinite
<1>5. \A y \in Prices : y \in Nat /\ (y \in S \/ y > p)
  BY <1>1, PurchaseAssumption
<1> HIDE DEF f, S
<1>6. PICK x \in S : \A y \in S : f[x] >= f[y]
  BY <1>2, <1>3, <1>4, Highest
<1>7. \A y \in S : p - x >= p - y
  BY <1>2, <1>6
<1>8. x \in Prices /\ \A y \in Prices : x <= y
  BY <1>1, <1>2, <1>5, <1>7
<1>9. QED
  BY <1>8 DEF Min

\* There is a highest limit, if there is any.
LEMMA MostOfLimits == Limits # {} => Max(Limits) \in Limits /\ \A n \in Limits : n <= Max(Limits)
<1> SUFFICES ASSUME Limits # {} PROVE Max(Limits) \in Limits /\ \A n \in Limits : n <= Max(Limits)
  OBVIOUS
<1> DEFINE f == [n \in Limits |-> n]
<1>1. IsFiniteSet(Limits) /\ \A n \in Limits : f[n] \in Nat
  BY PurchaseAssumption
<1>2. PICK x \in Limits : \A y \in Limits : f[x] >= f[y]
  BY <1>1, Highest
<1>3. \A y \in Limits : x >= y
  BY <1>2
<1>4. Max(Limits) \in Limits /\ \A y \in Limits : Max(Limits) >= y
  BY <1>3 DEF Max
<1>5. QED
  BY <1>4, PurchaseAssumption

\* The active cart that is found is one: among a customer's carts there is a newest.
LEMMA ActiveIsFound ==
  ASSUME TypesFit, NEW u, FindActiveCart(u) # None
  PROVE  /\ FindActiveCart(u) \in Carts /\ cart[FindActiveCart(u)] \in CartRow
         /\ cart[FindActiveCart(u)].status = "ACTIVE" /\ cart[FindActiveCart(u)].owner = u
<1> DEFINE ks == ActiveCarts(u)
<1>1. ks # {} /\ FindActiveCart(u) = Newest(ks)
  BY DEF FindActiveCart
<1>2. ks \in SUBSET Carts
  BY DEF ActiveCarts
<1>3. IsFiniteSet(ks)
  BY <1>2, PartIsFinite, PurchaseAssumption
<1>4. \A k \in ks : latest[k] \in Nat
  BY <1>2 DEF TypesFit
<1> HIDE DEF ks
<1>5. \E k \in ks : \A other \in ks : latest[k] >= latest[other]
  BY <1>1, <1>3, <1>4, Highest
<1>6. Newest(ks) \in ks
  BY <1>5 DEF Newest
<1>7. QED
  BY <1>1, <1>2, <1>6 DEF ks, ActiveCarts, TypesFit

\* Touching a cart moves the others down within their range.
LEMMA TouchFits ==
  ASSUME NEW k \in Carts, Touch(k), latest \in [Carts -> 1 .. Cardinality(Carts)]
  PROVE  latest' \in [Carts -> 1 .. Cardinality(Carts)]
<1>1. Cardinality(Carts) \in Nat
  BY FS_CardinalityType, PurchaseAssumption
<1>2. QED
  BY <1>1 DEF Touch

\* The carts can be put in an order at the start.
LEMMA FirstOrder ==
  \E f \in [Carts -> 1 .. Cardinality(Carts)] : IsInjective(f)
<1>1. ExistsBijection(1 .. Cardinality(Carts), Carts)
  BY FS_CardinalityType, PurchaseAssumption
<1>2. ExistsBijection(Carts, 1 .. Cardinality(Carts))
  BY <1>1, Fun_ExistsBijSymmetric
<1>3. QED
  BY <1>2 DEF ExistsBijection, Bijection, Injection, IsInjective

-----------------------------------------------------------------------------
(* What the handlers do, in terms of rows.                                 *)

OfCart(row, k) == row = None \/ row.cart = k

\* A mutation writes lines of one cart.
WritesOf(rows, k) == \A l \in DOMAIN rows : OfCart(line[l], k) /\ OfCart(rows[l], k)

\* Writing one line of a cart.
LEMMA OneRowFits ==
  ASSUME NEW l \in Lines, NEW row \in CartItem \cup { None }, NEW k, OfCart(line[l], k), OfCart(row, k)
  PROVE  OneRow(l, row) \in RowSets(CartItem \cup { None }) /\ WritesOf(OneRow(l, row), k)
<1>1. OneRow(l, row) \in [{l} -> CartItem \cup { None }] /\ {l} \in SUBSET Lines
  BY DEF OneRow
<1>2. OneRow(l, row) \in RowSets(CartItem \cup { None })
  BY <1>1 DEF RowSets
<1>3. DOMAIN OneRow(l, row) = {l} /\ OneRow(l, row)[l] = row
  BY DEF OneRow
<1>4. QED
  BY <1>2, <1>3 DEF WritesOf

\* Whatever mutation begins, it writes lines of one cart.
LEMMA Begun ==
  ASSUME TypesFit, NEW c \in Clients, EditCart(c), ~CommitEdit(c)
  PROVE  \E u \in Customers, k \in Carts : \E rows \in RowSets(CartItem \cup { None }) :
           BeginEdit(c, u, k, rows) /\ WritesOf(rows, k)
<1> DEFINE Goal == \E u \in Customers, k \in Carts : \E rows \in RowSets(CartItem \cup { None }) :
           BeginEdit(c, u, k, rows) /\ WritesOf(rows, k)
           R == CartItem \cup { None }
<1>0. line \in [Lines -> CartItem \cup { None }] /\ menuItem \in [Items -> [available : BOOLEAN, price : Prices]]
  BY DEF TypesFit
<1>1. ASSUME NEW u \in Customers, NEW i \in Items, NEW q \in Quantities, AddCartItem(c, u, i, q) PROVE Goal
  <2> DEFINE row(k) == [cart |-> k, item |-> i, quantity |-> q, unitPrice |-> menuItem[i].price]
  <2>1. PICK l \in Lines, k \in Carts : line[l] = None /\ BeginEdit(c, u, k, OneRow(l, row(k)))
    BY <1>1, Zenon DEF AddCartItem
  <2>2. menuItem[i].price \in Nat /\ q \in Nat
    BY <1>0, PurchaseAssumption
  <2>3. row(k) \in CartItem /\ row(k).cart = k
    BY <2>2 DEF CartItem
  <2> HIDE DEF row
  <2>4. OneRow(l, row(k)) \in RowSets(R) /\ WritesOf(OneRow(l, row(k)), k)
    <3>1. OfCart(line[l], k) /\ OfCart(row(k), k) /\ row(k) \in CartItem \cup { None }
      BY <2>1, <2>3 DEF OfCart
    <3>2. QED
      BY <3>1, OneRowFits
  <2>5. QED
    BY <2>1, <2>4
<1>2. ASSUME NEW u \in Customers, NEW l \in Lines, NEW q \in Quantities, NEW repriced \in BOOLEAN,
             UpdateCartItem(c, u, l, q, repriced)
      PROVE  Goal
  <2> DEFINE price == IF repriced THEN menuItem[line[l].item].price ELSE line[l].unitPrice
             row == [line[l] EXCEPT !.quantity = q, !.unitPrice = price]
  <2>1. line[l] \in CartItem /\ BeginEdit(c, u, line[l].cart, OneRow(l, row))
    BY <1>0, <1>2 DEF UpdateCartItem, Owns
  <2>2. line[l].item \in Items /\ line[l].cart \in Carts /\ line[l].unitPrice \in Nat
    BY <2>1 DEF CartItem
  <2>3. price \in Nat /\ q \in Nat
    BY <1>0, <2>2, PurchaseAssumption
  <2> HIDE DEF price
  <2>4. row \in CartItem /\ row.cart = line[l].cart
    BY <2>1, <2>3 DEF CartItem
  <2> HIDE DEF row
  <2>5. OneRow(l, row) \in RowSets(R) /\ WritesOf(OneRow(l, row), line[l].cart)
    <3>1. OfCart(line[l], line[l].cart) /\ OfCart(row, line[l].cart) /\ row \in CartItem \cup { None }
      BY <2>1, <2>4 DEF OfCart
    <3>2. QED
      BY <3>1, OneRowFits
  <2>6. QED
    BY <2>1, <2>2, <2>5
<1>3. ASSUME NEW u \in Customers, NEW l \in Lines, RemoveCartItem(c, u, l) PROVE Goal
  <2>1. line[l] \in CartItem /\ BeginEdit(c, u, line[l].cart, OneRow(l, None))
    BY <1>0, <1>3 DEF RemoveCartItem, Owns
  <2>2. line[l].cart \in Carts
    BY <2>1 DEF CartItem
  <2>3. OneRow(l, None) \in RowSets(R) /\ WritesOf(OneRow(l, None), line[l].cart)
    <3>1. OfCart(line[l], line[l].cart) /\ OfCart(None, line[l].cart) /\ None \in CartItem \cup { None }
      BY DEF OfCart
    <3>2. QED
      BY <3>1, OneRowFits
  <2>4. QED
    BY <2>1, <2>2, <2>3
<1>4. ASSUME NEW u \in Customers, ClearBranchCart(c, u) PROVE Goal
  <2> DEFINE k == FindActiveCart(u)
             rows == [l \in ItemsOf(line, k) |-> None]
  <2>1. k \in Carts /\ BeginEdit(c, u, k, rows)
    BY <1>4, ActiveIsFound DEF ClearBranchCart
  <2>2. ItemsOf(line, k) \in SUBSET Lines
    BY <1>0 DEF ItemsOf
  <2>3. rows \in RowSets(R) /\ WritesOf(rows, k)
    <3>1. rows \in [ItemsOf(line, k) -> R]
      OBVIOUS
    <3>2. \A l \in ItemsOf(line, k) : OfCart(line[l], k)
      BY DEF ItemsOf, OfCart
    <3>3. QED
      BY <2>2, <3>1, <3>2 DEF RowSets, WritesOf, OfCart
  <2> HIDE DEF k, rows
  <2>4. QED
    BY <2>1, <2>3
<1>5. QED
  BY <1>1, <1>2, <1>3, <1>4 DEF EditCart

\* The lines stay lines when a mutation writes over them.
LEMMA WrittenFits ==
  ASSUME TypesFit, NEW rows \in RowSets(CartItem \cup { None })
  PROVE  /\ Written(rows) \in [Lines -> CartItem \cup { None }]
         /\ Written(rows) \in RowSets(CartItem \cup { None }) /\ line \in RowSets(CartItem \cup { None })
         /\ \A k : SumAfter(rows, k) \in Nat
<1>1. rows \in [DOMAIN rows -> CartItem \cup { None }]
  BY RowSetsFit
<1>2. Written(rows) \in [Lines -> CartItem \cup { None }] /\ line \in [Lines -> CartItem \cup { None }]
  BY <1>1 DEF Written, TypesFit
<1>3. Written(rows) \in RowSets(CartItem \cup { None }) /\ line \in RowSets(CartItem \cup { None })
  BY <1>2, RowSetsFit
<1>4. QED
  BY <1>2, <1>3, TotalIsNat DEF SumAfter

\* The order made of a submission.
MadeOf(s) ==
  [key |-> s.key, customer |-> s.customer, cart |-> s.cart, items |-> DOMAIN s.rows,
   quantity |-> [i \in Items |-> Ordered(s, i)],
   subtotal |-> s.subtotal, total |-> s.due, promotion |-> s.promotion,
   linesTotal |-> RecomputeTotals(s.rows, s.cart), clean |-> s.clean]

\* The order made of a submission is an order.
LEMMA MadeFits ==
  ASSUME NEW s \in Submission
  PROVE  MadeOf(s) \in Order
<1>1. /\ s.key \in Keys /\ s.customer \in Customers /\ s.cart \in Carts /\ s.subtotal \in Nat /\ s.due \in Nat
      /\ s.promotion \in Promotions \cup { None } /\ s.clean \in BOOLEAN /\ s.rows \in RowSets(CartItem)
  BY DEF Submission
<1>2. DOMAIN s.rows \in SUBSET Lines /\ s.rows \in [DOMAIN s.rows -> CartItem]
  BY <1>1, RowSetsFit
<1>3. s.rows \in RowSets(CartItem \cup { None })
  BY <1>2, RowSetsFit
<1>4. RecomputeTotals(s.rows, s.cart) \in Nat
  BY <1>3, TotalIsNat
<1>5. [i \in Items |-> Ordered(s, i)] \in [Items -> Nat]
  BY <1>1, OrderedIsNat
<1>6. QED
  BY <1>1, <1>2, <1>4, <1>5 DEF MadeOf, Order

\* Pricing computes one amount twice: the order's from the delivery type, the payment's from the address.
LEMMA PricedFits ==
  ASSUME NEW s \in Submission, NEW p \in Promotions \cup { None }
  PROVE  /\ Priced(s, p) \in Submission
         /\ Priced(s, p).step = "priced" /\ Priced(s, p).promotion = p /\ Priced(s, p).total = Priced(s, p).due
         /\ Priced(s, p).customer = s.customer /\ Priced(s, p).cart = s.cart /\ Priced(s, p).rows = s.rows
         /\ Priced(s, p).subtotal = s.subtotal /\ Priced(s, p).clean = s.clean /\ Priced(s, p).key = s.key
<1> DEFINE discount == IF p = None \/ promotion[p].freeDelivery THEN 0 ELSE CappedDiscount(s)
           fee == IF p # None /\ promotion[p].freeDelivery THEN 0 ELSE Fee(s.pickup)
           total == s.subtotal - discount + fee
           due == IF s.pickup THEN s.subtotal - discount ELSE s.subtotal - discount + fee
           result == [s EXCEPT !.step = "priced", !.promotion = p, !.total = total, !.due = due]
<1>1. s.subtotal \in Nat /\ s.pickup \in BOOLEAN /\ Discount \in Nat /\ DeliveryFee \in Nat
  BY PurchaseAssumption DEF Submission
<1>2. CappedDiscount(s) \in Nat /\ CappedDiscount(s) <= s.subtotal
  BY <1>1, MinOfTwo DEF CappedDiscount
<1>3. fee \in Nat /\ (s.pickup => fee = 0)
  BY <1>1 DEF Fee
<1>4. discount \in Nat /\ discount <= s.subtotal
  BY <1>1, <1>2
<1> HIDE DEF fee, discount
<1>5. total \in Nat /\ due \in Nat /\ total = due
  BY <1>1, <1>3, <1>4
<1> HIDE DEF total, due
<1>6. /\ result \in Submission
      /\ result.step = "priced" /\ result.promotion = p /\ result.total = total /\ result.due = due
      /\ result.customer = s.customer /\ result.cart = s.cart /\ result.rows = s.rows
      /\ result.subtotal = s.subtotal /\ result.clean = s.clean /\ result.key = s.key
  BY <1>5 DEF Submission
<1>7. Priced(s, p) = result
  BY DEF Priced, result, total, due, discount, fee
<1> HIDE DEF result
<1>8. QED
  BY <1>5, <1>6, <1>7

\* A submission that only moves on keeps what it has.
LEMMA StepFits ==
  ASSUME NEW s \in Submission, NEW x \in { "submitting", "collided" }
  PROVE  LET t == [s EXCEPT !.step = x] IN
         /\ t \in Submission /\ t.step = x /\ t.promotion = s.promotion /\ t.total = s.total /\ t.due = s.due
         /\ t.customer = s.customer /\ t.cart = s.cart /\ t.rows = s.rows
         /\ t.subtotal = s.subtotal /\ t.clean = s.clean /\ t.key = s.key
BY DEF Submission

ReadSubmission(u, key, pickup, code) ==
  LET k == FindActiveCart(u) IN
  [step |-> "read", customer |-> u, key |-> key, pickup |-> pickup, code |-> code, cart |-> k,
   rows |-> [l \in ItemsOf(line, k) |-> line[l]], subtotal |-> cart[k].total, clean |-> k \notin skewed,
   promotion |-> None, total |-> 0, due |-> 0]

\* The context that is read is a submission of an active cart.
LEMMA ReadFits ==
  ASSUME TypesFit, NEW c \in Clients, NEW u \in Customers, NEW key \in Keys, NEW pickup \in BOOLEAN,
         NEW code \in Codes \cup { None }, ReadContext(c, u, key, pickup, code)
  PROVE  /\ submission' = [submission EXCEPT ![c] = ReadSubmission(u, key, pickup, code)]
         /\ ReadSubmission(u, key, pickup, code) \in Submission
         /\ FindActiveCart(u) \in Carts /\ cart[FindActiveCart(u)] \in CartRow
         /\ cart[FindActiveCart(u)].status = "ACTIVE"
<1> DEFINE k == FindActiveCart(u)
           rows == [l \in ItemsOf(line, k) |-> line[l]]
           total == cart[k].total
           clean == (k \notin skewed)
<1>1. submission' = [submission EXCEPT ![c] = ReadSubmission(u, key, pickup, code)] /\ k # None
  BY DEF ReadContext, ReadSubmission
<1>2. k \in Carts /\ cart[k] \in CartRow /\ cart[k].status = "ACTIVE"
  BY <1>1, ActiveIsFound
<1>3. total \in Nat /\ clean \in BOOLEAN
  BY <1>2 DEF CartRow
<1>4. ItemsOf(line, k) \in SUBSET Lines /\ rows \in [ItemsOf(line, k) -> CartItem]
  BY DEF ItemsOf, TypesFit
<1>5. rows \in RowSets(CartItem)
  BY <1>4 DEF RowSets
<1>6. ReadSubmission(u, key, pickup, code) =
        [step |-> "read", customer |-> u, key |-> key, pickup |-> pickup, code |-> code, cart |-> k,
         rows |-> rows, subtotal |-> total, clean |-> clean, promotion |-> None, total |-> 0, due |-> 0]
  BY DEF ReadSubmission
<1> HIDE DEF rows, total, clean, k
<1>7. ReadSubmission(u, key, pickup, code) \in Submission
  BY <1>2, <1>3, <1>5, <1>6 DEF Submission
<1>8. QED
  BY <1>1, <1>2, <1>7 DEF k

-----------------------------------------------------------------------------
(* Each step keeps the types.                                              *)

EditOf(u, k, rows) == [user |-> u, cart |-> k, rows |-> rows, total |-> SumAfter(rows, k), overlapped |-> FALSE]

\* A mutation begins.
LEMMA BeginTypes ==
  ASSUME TypesFit, NEW c \in Clients, NEW u \in Customers, NEW k \in Carts, NEW rows \in RowSets(CartItem \cup { None }),
         BeginEdit(c, u, k, rows)
  PROVE  TypesFit' /\ EditOf(u, k, rows) \in Edit /\ edit' = [edit EXCEPT ![c] = EditOf(u, k, rows)]
<1>1. SumAfter(rows, k) \in Nat
  BY WrittenFits
<1>2. EditOf(u, k, rows) \in Edit
  BY <1>1 DEF EditOf, Edit
<1>3. edit' = [edit EXCEPT ![c] = EditOf(u, k, rows)]
  BY DEF BeginEdit, EditOf
<1>4. edit' \in [Clients -> Edit \cup { NoEdit }]
  BY <1>2, <1>3 DEF TypesFit
<1>5. QED
  BY <1>2, <1>3, <1>4 DEF BeginEdit, TypesFit, menuRows, cartRows, orderRows, Placed

\* The cart row as a mutation commits it.
CartAfter(e) ==
  IF cart[e.cart] = None THEN [owner |-> e.user, status |-> "ACTIVE", total |-> e.total]
  ELSE [cart[e.cart] EXCEPT !.total = e.total]

\* The cart's row when a mutation commits.
LEMMA CommitRows ==
  ASSUME TypesFit, NEW c \in Clients, CommitEdit(c)
  PROVE  LET e == edit[c] IN
         /\ e \in Edit /\ e.cart \in Carts
         /\ CartAfter(e) \in CartRow /\ CartAfter(e).total = e.total
         /\ cart[e.cart] # None => CartAfter(e).status = cart[e.cart].status
         /\ cart' = [cart EXCEPT ![e.cart] = CartAfter(e)]
<1> DEFINE e == edit[c]
<1>1. e \in Edit
  BY DEF CommitEdit, TypesFit
<1> HIDE DEF e
<1>2. e.cart \in Carts /\ e.total \in Nat /\ e.user \in Customers
  BY <1>1 DEF Edit
<1>3. cart[e.cart] \in CartRow \cup { None } /\ cart \in [Carts -> CartRow \cup { None }]
  BY <1>2 DEF TypesFit
<1>4. CartAfter(e) \in CartRow /\ CartAfter(e).total = e.total
  <2>1. CASE cart[e.cart] = None
    BY <1>2, <2>1 DEF CartAfter, CartRow
  <2>2. CASE cart[e.cart] # None
    BY <1>2, <1>3, <2>2 DEF CartAfter, CartRow
  <2>3. QED
    BY <2>1, <2>2
<1>5. cart[e.cart] # None => CartAfter(e).status = cart[e.cart].status
  BY <1>3 DEF CartAfter, CartRow
<1>6. cart' = [cart EXCEPT ![e.cart] = CartAfter(e)]
  BY DEF CommitEdit, CartAfter, e
<1>7. QED
  BY <1>1, <1>2, <1>4, <1>5, <1>6 DEF e

\* A mutation that is told of another keeps its lines.
LEMMA Overlapping ==
  ASSUME NEW e \in Edit
  PROVE  LET f == [e EXCEPT !.overlapped = TRUE] IN
         f \in Edit /\ f.overlapped /\ f.cart = e.cart /\ f.rows = e.rows /\ f.user = e.user /\ f.total = e.total
BY DEF Edit

\* The mutations in flight after one of cart k has committed.
LEMMA EditsLeft ==
  ASSUME TypesFit, NEW c \in Clients, CommitEdit(c)
  PROVE  /\ edit' \in [Clients -> Edit \cup { NoEdit }] /\ edit'[c] = NoEdit
         /\ \A d \in Clients \ { c } :
              /\ edit[d] = NoEdit => edit'[d] = NoEdit
              /\ edit'[d] \in Edit => /\ edit[d] \in Edit /\ edit'[d].cart = edit[d].cart
                                      /\ edit'[d].rows = edit[d].rows /\ edit'[d].total = edit[d].total
                                      /\ ~edit'[d].overlapped => ~edit[d].overlapped /\ edit[d].cart # edit[c].cart
<1>1. edit[c].cart \in Carts
  BY CommitRows
<1>2. NoEdit.cart = None /\ None \notin Carts /\ edit \in [Clients -> Edit \cup { NoEdit }]
  BY PurchaseAssumption DEF NoEdit, TypesFit
<1>3. edit' = [d \in Clients |-> IF d = c THEN NoEdit
                                 ELSE IF edit[d].cart = edit[c].cart THEN [edit[d] EXCEPT !.overlapped = TRUE] ELSE edit[d]]
  BY DEF CommitEdit
<1>4. ASSUME NEW d \in Clients \ { c }
      PROVE  /\ edit'[d] \in Edit \cup { NoEdit } /\ (edit[d] = NoEdit => edit'[d] = NoEdit)
             /\ edit'[d] \in Edit => /\ edit[d] \in Edit /\ edit'[d].cart = edit[d].cart
                                     /\ edit'[d].rows = edit[d].rows /\ edit'[d].total = edit[d].total
                                     /\ ~edit'[d].overlapped => ~edit[d].overlapped /\ edit[d].cart # edit[c].cart
  <2>1. CASE edit[d] = NoEdit
    <3>1. edit'[d] = NoEdit
      BY <1>1, <1>2, <1>3, <2>1
    <3>2. QED
      BY <2>1, <3>1, NoEditIsNone
  <2>2. CASE edit[d] \in Edit
    <3>1. CASE edit[d].cart = edit[c].cart
      <4>1. edit'[d] = [edit[d] EXCEPT !.overlapped = TRUE]
        BY <1>3, <3>1
      <4>2. QED
        BY <2>2, <4>1, Overlapping, NoEditIsNone
    <3>2. CASE edit[d].cart # edit[c].cart
      BY <1>3, <2>2, <3>2, NoEditIsNone
    <3>3. QED
      BY <3>1, <3>2
  <2>3. QED
    BY <1>2, <2>1, <2>2
<1>5. QED
  BY <1>3, <1>4

\* A mutation commits.
LEMMA CommitTypes ==
  ASSUME TypesFit, NEW c \in Clients, CommitEdit(c)
  PROVE  TypesFit'
<1> DEFINE e == edit[c]
<1>1. e \in Edit /\ e.cart \in Carts /\ CartAfter(e) \in CartRow /\ cart' = [cart EXCEPT ![e.cart] = CartAfter(e)]
  BY CommitRows
<1>2. e.rows \in RowSets(CartItem \cup { None }) /\ line' = Written(e.rows) /\ Touch(e.cart)
  BY <1>1 DEF Edit, CommitEdit
<1> HIDE DEF e
<1>3. line' \in [Lines -> CartItem \cup { None }] /\ cart' \in [Carts -> CartRow \cup { None }]
  BY <1>1, <1>2, WrittenFits DEF TypesFit
<1>4. latest' \in [Carts -> 1 .. Cardinality(Carts)]
  BY <1>1, <1>2, TouchFits DEF TypesFit
<1>5. skewed' \subseteq Carts
  BY <1>1 DEF CommitEdit, TypesFit, e
<1>6. edit' \in [Clients -> Edit \cup { NoEdit }]
  BY EditsLeft
<1>7. UNCHANGED <<menuRows, promotion, orderRows, submission>>
  BY DEF CommitEdit
<1>8. QED
  BY <1>3, <1>4, <1>5, <1>6, <1>7 DEF TypesFit, menuRows, orderRows, Placed

-----------------------------------------------------------------------------
(* The strengthening: what mutations and submissions in flight know.       *)

Submitted(s) ==
  /\ cart[s.cart] \in CartRow
  /\ s.promotion # None => promotion[s.promotion] \in Promotion
  /\ s.step = "read" => s.promotion = None
  /\ s.step # "read" => s.total = s.due
  /\ s.clean => s.subtotal = RecomputeTotals(s.rows, s.cart)
SubmissionsHold == \A c \in Clients : submission[c] \in Submission => Submitted(submission[c])

EditHolds(e) ==
  /\ WritesOf(e.rows, e.cart)
  /\ ~e.overlapped => e.total = SumAfter(e.rows, e.cart)
EditsHold ==
  /\ \A c \in Clients : edit[c] \in Edit => EditHolds(edit[c])
  /\ \A c, d \in Clients : c # d => DOMAIN edit[c].rows \cap DOMAIN edit[d].rows = {}

OrdersHold ==
  \A o \in Placed : /\ cart[order[o].cart] \in CartRow
                    /\ order[o].promotion # None => promotion[order[o].promotion] \in Promotion
CappedHold == \A p \in Promotions : promotion[p] # None /\ promotion[p].capped => promotion[p].limit # None

BooksInv ==
  /\ TypesFit /\ SubmissionsHold /\ EditsHold /\ OrdersHold /\ CappedHold
  /\ PaymentIsTheTotal /\ StockIsAccounted /\ TotalsHeal /\ OverrunIsBounded /\ SpentOnlyTogether

\* Parts of a finite set are counted.
LEMMA CountParts ==
  ASSUME NEW S, IsFiniteSet(S), NEW T \in SUBSET S
  PROVE  IsFiniteSet(T) /\ Cardinality(T) \in Nat /\ Cardinality(S) \in Nat /\ Cardinality(T) <= Cardinality(S)
BY FS_Subset, FS_CardinalityType

\* The counts of the properties are numbers, at most that of the clients.
LEMMA CountsFit ==
  \A p, u, k : /\ Uses(p, u) \in Nat /\ Cardinality(Claiming(p, u)) \in Nat /\ Cardinality(UnderWay(k)) \in Nat
                 /\ Cardinality(Claiming(p, u)) <= Cardinality(Clients)
                 /\ Cardinality(UnderWay(k)) <= Cardinality(Clients) /\ Cardinality(Clients) \in Nat
<1>1. ASSUME NEW p, NEW u, NEW k
      PROVE  /\ { o \in Orders : <<p, u, o>> \in usage } \in SUBSET Orders
             /\ Claiming(p, u) \in SUBSET Clients /\ UnderWay(k) \in SUBSET Clients
  BY DEF Claiming, UnderWay
<1>2. QED
  BY <1>1, CountParts, PurchaseAssumption DEF Uses

\* A smaller set counts less.
LEMMA Shrinks ==
  ASSUME NEW S, IsFiniteSet(S), NEW T \in SUBSET S, NEW U \in SUBSET T
  PROVE  Cardinality(U) <= Cardinality(T) /\ Cardinality(U) \in Nat /\ Cardinality(T) \in Nat
<1>1. IsFiniteSet(T)
  BY CountParts
<1>2. QED
  BY <1>1, CountParts

\* The limits, when no use is added and no claim is made.
LEMMA FewerClaims ==
  ASSUME TypesFit, CappedHold, OverrunIsBounded, UNCHANGED <<promotion, usage, order>>,
         \A p \in Promotions, u \in Customers : Claiming(p, u)' \subseteq Claiming(p, u)
  PROVE  OverrunIsBounded'
<1>1. ASSUME NEW p \in Promotions, NEW u \in Customers, promotion'[p] # None /\ promotion'[p].capped
      PROVE  (Uses(p, u) + Cardinality(Claiming(p, u)) <= Max(Limits) - 1 + Cardinality(Clients))'
  <2>1. Uses(p, u) + Cardinality(Claiming(p, u)) <= Max(Limits) - 1 + Cardinality(Clients)
    BY <1>1 DEF OverrunIsBounded
  <2>2. Uses(p, u)' = Uses(p, u)
    BY DEF Uses
  <2>3. Claiming(p, u) \in SUBSET Clients /\ Claiming(p, u)' \in SUBSET Claiming(p, u)
    BY DEF Claiming
  <2>4. Cardinality(Claiming(p, u)') <= Cardinality(Claiming(p, u)) /\ Cardinality(Claiming(p, u)') \in Nat
    BY <2>3, Shrinks, PurchaseAssumption
  <2>5. /\ Uses(p, u) \in Nat /\ Cardinality(Claiming(p, u)) \in Nat /\ Cardinality(Clients) \in Nat
    BY CountsFit
  <2>6. Max(Limits) \in Nat
    <3>1. promotion[p] \in Promotion /\ promotion[p].limit # None
      BY <1>1 DEF TypesFit, CappedHold
    <3>2. Limits # {}
      BY <3>1 DEF Promotion
    <3>3. QED
      BY <3>2, MostOfLimits, PurchaseAssumption
  <2>7. QED
    BY <2>1, <2>2, <2>4, <2>5, <2>6
<1>2. QED
  BY <1>1 DEF OverrunIsBounded, Placed

\* What was made of a cart, when no order is added and nobody begins to submit one that is spent.
LEMMA FewerUnderWay ==
  ASSUME TypesFit, SpentOnlyTogether, UNCHANGED order,
         \A k \in Carts : { o \in Placed : order[o].cart = k } # {} =>
            cart'[k].status = cart[k].status /\ UnderWay(k)' \subseteq UnderWay(k)
  PROVE  SpentOnlyTogether'
<1> DEFINE made(k) == { o \in Placed : order[o].cart = k }
<1>1. ASSUME NEW k \in Carts, made(k) # {}
      PROVE  cart'[k].status = "CHECKED_OUT" /\ Cardinality(made(k)) + Cardinality(UnderWay(k)') <= Cardinality(Clients)
  <2>1. cart[k].status = "CHECKED_OUT" /\ Cardinality(made(k)) + Cardinality(UnderWay(k)) <= Cardinality(Clients)
    BY <1>1 DEF SpentOnlyTogether
  <2>2. cart'[k].status = cart[k].status /\ UnderWay(k)' \in SUBSET UnderWay(k)
    BY <1>1
  <2>3. UnderWay(k) \in SUBSET Clients
    BY DEF UnderWay
  <2>4. Cardinality(UnderWay(k)') <= Cardinality(UnderWay(k)) /\ Cardinality(UnderWay(k)') \in Nat /\ Cardinality(UnderWay(k)) \in Nat
    BY <2>2, <2>3, Shrinks, PurchaseAssumption
  <2>5. Cardinality(made(k)) \in Nat /\ Cardinality(Clients) \in Nat
    <3>1. made(k) \in SUBSET Orders
      BY DEF TypesFit
    <3>2. QED
      BY <3>1, CountParts, CountsFit, PurchaseAssumption
  <2>6. QED
    BY <2>1, <2>2, <2>4, <2>5
<1>2. \A k : made(k)' = made(k)
  BY DEF Placed
<1>3. QED
  BY <1>1, <1>2 DEF SpentOnlyTogether

-----------------------------------------------------------------------------
(* Mutations.                                                              *)

\* A mutation of one cart leaves the totals of the others alone.
LEMMA OtherTotals ==
  ASSUME TypesFit, NEW rows \in RowSets(CartItem \cup { None }), NEW k, WritesOf(rows, k), NEW other, other # k
  PROVE  RecomputeTotals(Written(rows), other) = RecomputeTotals(line, other)
<1>1. Written(rows) \in [Lines -> CartItem \cup { None }] /\ line \in [Lines -> CartItem \cup { None }]
  BY WrittenFits DEF TypesFit
<1>2. \A l \in Lines : Written(rows)[l] = line[l] \/ (OfCart(line[l], k) /\ OfCart(Written(rows)[l], k))
  BY DEF WritesOf, Written
<1>3. ItemsOf(Written(rows), other) = ItemsOf(line, other)
  BY <1>1, <1>2 DEF ItemsOf, OfCart
<1>4. \A l \in ItemsOf(line, other) : Written(rows)[l] = line[l]
  BY <1>1, <1>2 DEF ItemsOf, OfCart
<1>5. Written(rows) \in RowSets(CartItem \cup { None }) /\ line \in RowSets(CartItem \cup { None })
  BY WrittenFits
<1>6. QED
  BY <1>3, <1>4, <1>5, SameTotal

\* A mutation that begins knows its cart's total, and its lines are its own.
LEMMA BeginBooks ==
  ASSUME BooksInv, NEW c \in Clients, NEW u \in Customers, NEW k \in Carts, NEW rows \in RowSets(CartItem \cup { None }),
         BeginEdit(c, u, k, rows), WritesOf(rows, k)
  PROVE  BooksInv'
<1> DEFINE e == EditOf(u, k, rows)
<1>0. TypesFit
  BY DEF BooksInv
<1>1. TypesFit' /\ e \in Edit /\ edit' = [edit EXCEPT ![c] = e]
  BY <1>0, BeginTypes
<1>2. e.rows = rows /\ e.cart = k /\ e.total = SumAfter(rows, k)
  BY DEF EditOf
<1>3. UNCHANGED <<menuItem, stock, cart, line, latest, promotion, usage, order, payment, answers, submission, skewed>>
  BY DEF BeginEdit, menuRows, cartRows, orderRows
<1>4. DOMAIN rows \cap Locked = {}
  BY DEF BeginEdit
<1> HIDE DEF e
<1>5. \A x, y : SumAfter(x, y)' = SumAfter(x, y) /\ WritesOf(x, y)' = WritesOf(x, y)
  BY <1>3 DEF SumAfter, Written, RecomputeTotals, ItemsOf, WritesOf
<1>6. EditsHold'
  <2>1. edit \in [Clients -> Edit \cup { NoEdit }] /\ EditsHold
    BY DEF BooksInv, TypesFit
  <2>2. ASSUME NEW d \in Clients, NEW f \in Edit, edit'[d] = f PROVE EditHolds(f)'
    <3>1. EditHolds(f)' <=> EditHolds(f)
      BY <1>5 DEF EditHolds
    <3>2. CASE d = c
      BY <1>1, <1>2, <2>1, <2>2, <3>1, <3>2 DEF EditHolds
    <3>3. CASE d # c
      BY <1>1, <2>1, <2>2, <3>1, <3>3 DEF EditsHold
    <3>4. QED
      BY <3>2, <3>3
  <2>3. \A d \in Clients : DOMAIN rows \cap DOMAIN edit[d].rows = {}
    BY <1>4 DEF Locked
  <2>4. \A d, f \in Clients : d # f => DOMAIN edit'[d].rows \cap DOMAIN edit'[f].rows = {}
    BY <1>1, <1>2, <2>1, <2>3 DEF EditsHold
  <2>5. QED
    BY <2>2, <2>4 DEF EditsHold
<1>7. SubmissionsHold'
  BY <1>3 DEF BooksInv, SubmissionsHold, Submitted
<1>8. OverrunIsBounded' /\ SpentOnlyTogether'
  BY <1>3 DEF BooksInv, OverrunIsBounded, SpentOnlyTogether, Uses, Claiming, UnderWay, Placed
<1>9. /\ OrdersHold' /\ CappedHold' /\ PaymentIsTheTotal' /\ StockIsAccounted' /\ TotalsHeal'
  BY <1>3 DEF BooksInv, OrdersHold, CappedHold, PaymentIsTheTotal, StockIsAccounted, TotalsHeal, Placed,
              RecomputeTotals, ItemsOf
<1>10. QED
  BY <1>1, <1>6, <1>7, <1>8, <1>9 DEF BooksInv

\* A mutation that commits makes its cart's total right, or known to be skewed, and marks those it overlapped.
LEMMA CommitBooks ==
  ASSUME BooksInv, NEW c \in Clients, CommitEdit(c)
  PROVE  BooksInv'
<1> DEFINE e == edit[c]
           k == e.cart
<1>0. TypesFit /\ TypesFit'
  BY CommitTypes DEF BooksInv
<1>1. /\ e \in Edit /\ k \in Carts /\ CartAfter(e) \in CartRow /\ CartAfter(e).total = e.total
      /\ cart[k] # None => CartAfter(e).status = cart[k].status
      /\ cart' = [cart EXCEPT ![k] = CartAfter(e)]
  BY <1>0, CommitRows
<1>2. e.rows \in RowSets(CartItem \cup { None }) /\ line' = Written(e.rows)
  BY <1>1 DEF Edit, CommitEdit
<1>3. WritesOf(e.rows, k) /\ (~e.overlapped => e.total = RecomputeTotals(line', k))
  BY <1>1, <1>2 DEF BooksInv, EditsHold, EditHolds, SumAfter
<1>4. skewed' = IF e.overlapped THEN skewed \cup { k } ELSE skewed \ { k }
  BY DEF CommitEdit
<1>5. UNCHANGED <<menuItem, stock, promotion, usage, order, payment, answers, submission>>
  BY DEF CommitEdit, menuRows, orderRows
<1>6. cart \in [Carts -> CartRow \cup { None }] /\ line \in [Lines -> CartItem \cup { None }]
  BY <1>0 DEF TypesFit
<1>7. /\ edit' \in [Clients -> Edit \cup { NoEdit }] /\ edit'[c] = NoEdit
      /\ \A d \in Clients \ { c } :
           /\ edit[d] = NoEdit => edit'[d] = NoEdit
           /\ edit'[d] \in Edit => /\ edit[d] \in Edit /\ edit'[d].cart = edit[d].cart
                                   /\ edit'[d].rows = edit[d].rows /\ edit'[d].total = edit[d].total
                                   /\ ~edit'[d].overlapped => ~edit[d].overlapped /\ edit[d].cart # k
  BY <1>0, EditsLeft
<1> HIDE DEF e, k
<1>8. \A other : other # k => RecomputeTotals(line', other) = RecomputeTotals(line, other)
  BY <1>0, <1>2, <1>3, OtherTotals
<1>9. TotalsHeal'
  <2>1. \A x \in Carts : cart'[x] # None /\ x \notin skewed' => cart'[x].total = RecomputeTotals(line', x)
    <3>1. ASSUME NEW x \in Carts, x # k, cart'[x] # None, x \notin skewed'
          PROVE  cart'[x].total = RecomputeTotals(line', x)
      BY <1>1, <1>4, <1>6, <1>8, <3>1 DEF BooksInv, TotalsHeal
    <3>2. k \notin skewed' => cart'[k].total = RecomputeTotals(line', k)
      BY <1>1, <1>3, <1>4, <1>6
    <3>3. QED
      BY <3>1, <3>2
  <2>2. \A o \in Placed' : order'[o].clean => order'[o].subtotal = order'[o].linesTotal
    BY <1>5 DEF BooksInv, TotalsHeal, Placed
  <2>3. TotalsHeal' <=>
          /\ \A x \in Carts : cart'[x] # None /\ x \notin skewed' => cart'[x].total = RecomputeTotals(line', x)
          /\ \A o \in Placed' : order'[o].clean => order'[o].subtotal = order'[o].linesTotal
    BY DEF TotalsHeal, RecomputeTotals, ItemsOf
  <2>4. QED
    BY <2>1, <2>2, <2>3
<1>10. EditsHold'
  <2>1. ASSUME NEW d \in Clients, NEW g \in Edit, edit'[d] = g PROVE EditHolds(g)'
    <3>1. PICK f \in Edit : f = edit[d] /\ d # c /\ g.cart = f.cart /\ g.rows = f.rows /\ g.total = f.total
                            /\ (~g.overlapped => ~f.overlapped /\ f.cart # k)
      BY <1>7, <2>1, NoEditIsNone
    <3>2. EditHolds(f) /\ DOMAIN f.rows \cap DOMAIN e.rows = {}
      BY <3>1 DEF BooksInv, EditsHold, e
    <3>3. f.rows \in RowSets(CartItem \cup { None }) /\ DOMAIN f.rows \subseteq Lines
      BY <3>1, RowSetsFit DEF Edit
    <3> DEFINE both == [l \in Lines |-> IF l \in DOMAIN f.rows THEN f.rows[l] ELSE line'[l]]
    <3>4. \A l \in DOMAIN f.rows : line'[l] = line[l]
      BY <1>2, <3>2, <3>3 DEF Written
    <3>5. WritesOf(g.rows, g.cart)'
      BY <3>1, <3>2, <3>4 DEF EditHolds, WritesOf
    <3>6. f.cart # k => RecomputeTotals(both, f.cart) = RecomputeTotals(Written(f.rows), f.cart)
      <4>1. SUFFICES ASSUME f.cart # k PROVE RecomputeTotals(both, f.cart) = RecomputeTotals(Written(f.rows), f.cart)
        OBVIOUS
      <4>2. line' \in [Lines -> CartItem \cup { None }] /\ Written(f.rows) \in RowSets(CartItem \cup { None })
            /\ Written(f.rows) \in [Lines -> CartItem \cup { None }]
        BY <1>0, <3>3, WrittenFits DEF TypesFit
      <4>3. both \in [Lines -> CartItem \cup { None }]
        BY <3>3, <4>2, RowSetsFit
      <4>4. both \in RowSets(CartItem \cup { None })
        BY <4>3, RowSetsFit
      <4>5. \A l \in Lines : both[l] = Written(f.rows)[l]
                             \/ (OfCart(both[l], k) /\ OfCart(Written(f.rows)[l], k))
        BY <1>2, <1>3 DEF Written, WritesOf
      <4> HIDE DEF both
      <4>6. ItemsOf(both, f.cart) = ItemsOf(Written(f.rows), f.cart)
        BY <4>1, <4>2, <4>3, <4>5 DEF ItemsOf, OfCart
      <4>7. \A l \in ItemsOf(both, f.cart) : both[l] = Written(f.rows)[l]
        BY <4>1, <4>3, <4>5 DEF ItemsOf, OfCart
      <4>8. QED
        BY <4>2, <4>4, <4>6, <4>7, SameTotal
    <3>7. SumAfter(g.rows, g.cart)' = RecomputeTotals(both, f.cart)
      BY <3>1 DEF SumAfter, Written, RecomputeTotals, ItemsOf
    <3>8. ~g.overlapped => g.total = SumAfter(g.rows, g.cart)'
      <4>1. SUFFICES ASSUME ~g.overlapped PROVE g.total = SumAfter(g.rows, g.cart)'
        OBVIOUS
      <4>2. f.total = SumAfter(f.rows, f.cart) /\ f.cart # k
        BY <3>1, <3>2, <4>1 DEF EditHolds
      <4> HIDE DEF both
      <4>3. QED
        BY <3>1, <3>6, <3>7, <4>2 DEF SumAfter
    <3>9. QED
      BY <3>5, <3>8 DEF EditHolds
  <2>2. \A d, f \in Clients : d # f => DOMAIN edit'[d].rows \cap DOMAIN edit'[f].rows = {}
    <3>1. ASSUME NEW d \in Clients PROVE edit'[d].rows = edit[d].rows \/ DOMAIN edit'[d].rows = {}
      <4>1. edit'[d] = NoEdit \/ edit'[d].rows = edit[d].rows
        BY <1>7
      <4>2. DOMAIN NoEdit.rows = {}
        BY DEF NoEdit
      <4>3. QED
        BY <4>1, <4>2
    <3>2. QED
      BY <3>1 DEF BooksInv, EditsHold
  <2>3. QED
    BY <2>1, <2>2 DEF EditsHold
<1>11. SubmissionsHold'
  <2>1. ASSUME NEW d \in Clients, NEW s \in Submission, submission[d] = s PROVE Submitted(s)'
    <3>1. Submitted(s) /\ s.cart \in Carts
      BY <2>1 DEF BooksInv, SubmissionsHold, Submission
    <3>2. cart'[s.cart] \in CartRow
      BY <1>1, <1>6, <3>1 DEF Submitted
    <3>3. QED
      BY <1>5, <3>1, <3>2 DEF Submitted, RecomputeTotals, ItemsOf
  <2>2. QED
    BY <1>5, <2>1 DEF SubmissionsHold
<1>12. OverrunIsBounded'
  BY <1>5 DEF BooksInv, OverrunIsBounded, Uses, Claiming, Placed
<1>13. SpentOnlyTogether'
  <2>1. ASSUME NEW x \in Carts, { o \in Placed : order[o].cart = x } # {}
        PROVE  cart'[x].status = cart[x].status /\ UnderWay(x)' \subseteq UnderWay(x)
    <3>1. cart[x].status = "CHECKED_OUT"
      BY <2>1 DEF BooksInv, SpentOnlyTogether
    <3>2. cart[x] # None
      BY <2>1, NoneIsNoRow DEF BooksInv, OrdersHold
    <3>3. QED
      BY <1>1, <1>5, <1>6, <3>2 DEF UnderWay
  <2>2. QED
    BY <1>0, <1>5, <2>1, FewerUnderWay DEF BooksInv
<1>14. OrdersHold'
  <2>1. \A x \in Carts : cart[x] \in CartRow => cart'[x] \in CartRow
    BY <1>1, <1>6
  <2>2. \A o \in Placed : order[o].cart \in Carts
    BY <1>0 DEF TypesFit, Order
  <2>3. OrdersHold /\ Placed' = Placed
    BY <1>5 DEF BooksInv, Placed
  <2>4. QED
    BY <1>5, <2>1, <2>2, <2>3 DEF OrdersHold
<1>15. CappedHold' /\ PaymentIsTheTotal' /\ StockIsAccounted'
  BY <1>5 DEF BooksInv, CappedHold, PaymentIsTheTotal, StockIsAccounted, Placed
<1>16. QED
  BY <1>0, <1>9, <1>10, <1>11, <1>12, <1>13, <1>14, <1>15 DEF BooksInv

-----------------------------------------------------------------------------
(* Promotions.                                                             *)

\* A promotion is capped from its creation or never, and no handler brings its row back to nothing.
LEMMA PromotionChanges ==
  ASSUME BooksInv, RunPromotions \/ AdminPromotions
  PROVE  /\ UNCHANGED <<menuItem, stock, cart, line, latest, usage, order, payment, answers, edit, submission, skewed>>
         /\ \E p \in Promotions, row \in Promotion :
              /\ promotion' = [promotion EXCEPT ![p] = row]
              /\ row.capped => row.limit # None
              /\ promotion[p] # None /\ row.capped => promotion[p].capped
<1> DEFINE Goal ==
      /\ UNCHANGED <<menuItem, stock, cart, line, latest, usage, order, payment, answers, edit, submission, skewed>>
      /\ \E p \in Promotions, row \in Promotion :
              /\ promotion' = [promotion EXCEPT ![p] = row]
              /\ row.capped => row.limit # None
              /\ promotion[p] # None /\ row.capped => promotion[p].capped
<1>0. promotion \in [Promotions -> Promotion \cup { None }] /\ CappedHold
  BY DEF BooksInv, TypesFit
<1>1. ASSUME NEW p \in Promotions, NEW row \in Promotion, promotion' = [promotion EXCEPT ![p] = row],
             UNCHANGED <<menuRows, cartRows, orderRows, edit, submission>>,
             row.capped => row.limit # None, promotion[p] # None /\ row.capped => promotion[p].capped
      PROVE  Goal
  BY <1>1 DEF menuRows, cartRows, orderRows
<1> HIDE DEF Goal
<1>2. ASSUME NEW p \in Promotions, CreatePromotion(p) PROVE Goal
  <2>1. PICK code \in Codes, free \in BOOLEAN, n \in Limits \cup { None }, w \in { "before", "open" } :
          SavePromotion(p, NewPromotion(code, free, n, w))
    BY <1>2 DEF CreatePromotion
  <2>2. NewPromotion(code, free, n, w) \in Promotion /\ NewPromotion(code, free, n, w).capped = (n # None)
        /\ NewPromotion(code, free, n, w).limit = n
    BY DEF NewPromotion, Promotion
  <2>3. promotion[p] = None
    BY <1>2 DEF CreatePromotion
  <2>4. QED
    BY <1>1, <2>1, <2>2, <2>3 DEF SavePromotion
<1>3. ASSUME NEW p \in Promotions, CreateByAdmin(p) PROVE Goal
  <2>1. PICK code \in Codes, free \in BOOLEAN, w \in { "before", "open" } :
          SavePromotion(p, NewPromotion(code, free, None, w))
    BY <1>3 DEF CreateByAdmin
  <2>2. NewPromotion(code, free, None, w) \in Promotion /\ NewPromotion(code, free, None, w).capped = FALSE
    BY DEF NewPromotion, Promotion
  <2>3. QED
    BY <1>1, <2>1, <2>2 DEF SavePromotion
<1>4. ASSUME NEW p \in Promotions, Offered(p) PROVE promotion[p] \in Promotion /\ promotion[p].capped \in BOOLEAN
  BY <1>0, <1>4 DEF Offered, Promotion
<1>5. ASSUME NEW p \in Promotions, UpdatePromotion(p) PROVE Goal
  <2>1. PICK code \in Codes, active \in BOOLEAN, n \in Limits \cup { None } :
          SavePromotion(p, [promotion[p] EXCEPT !.code = code, !.isActive = active, !.limit = n, !.capped = @ /\ n # None])
    BY <1>5 DEF UpdatePromotion
  <2> DEFINE row == [promotion[p] EXCEPT !.code = code, !.isActive = active, !.limit = n, !.capped = @ /\ n # None]
  <2>2. promotion[p] \in Promotion
    BY <1>4, <1>5 DEF UpdatePromotion
  <2>3. row \in Promotion /\ row.limit = n /\ row.capped = (promotion[p].capped /\ n # None)
    BY <2>2 DEF Promotion
  <2> HIDE DEF row
  <2>4. SavePromotion(p, row)
    BY <2>1 DEF row
  <2>5. QED
    BY <1>1, <2>3, <2>4 DEF SavePromotion
<1>6. ASSUME NEW p \in Promotions, UpdateByAdmin(p) PROVE Goal
  <2>1. PICK code \in Codes, active \in BOOLEAN : SavePromotion(p, [promotion[p] EXCEPT !.code = code, !.isActive = active])
    BY <1>6 DEF UpdateByAdmin
  <2> DEFINE row == [promotion[p] EXCEPT !.code = code, !.isActive = active]
  <2>2. promotion[p] \in Promotion /\ promotion[p] # None
    BY <1>4, <1>6, NoneIsNoRow DEF UpdateByAdmin
  <2>3. row \in Promotion /\ row.limit = promotion[p].limit /\ row.capped = promotion[p].capped
    BY <2>2 DEF Promotion
  <2> HIDE DEF row
  <2>4. SavePromotion(p, row)
    BY <2>1 DEF row
  <2>5. QED
    BY <1>0, <1>1, <2>2, <2>3, <2>4 DEF SavePromotion, CappedHold
<1>7. ASSUME NEW p \in Promotions, DeletePromotion(p) PROVE Goal
  <2> DEFINE row == [promotion[p] EXCEPT !.deleted = TRUE]
  <2>1. promotion' = [promotion EXCEPT ![p] = row] /\ UNCHANGED <<menuRows, cartRows, orderRows, edit, submission>>
    BY <1>7 DEF DeletePromotion
  <2>2. promotion[p] \in Promotion /\ promotion[p] # None
    BY <1>4, <1>7, NoneIsNoRow DEF DeletePromotion
  <2>3. row \in Promotion /\ row.limit = promotion[p].limit /\ row.capped = promotion[p].capped
    BY <2>2 DEF Promotion
  <2> HIDE DEF row
  <2>4. QED
    BY <1>0, <1>1, <2>1, <2>2, <2>3 DEF CappedHold
<1>8. ASSUME NEW p \in Promotions, PromotionAges(p) PROVE Goal
  <2> DEFINE w == IF promotion[p].window = "before" THEN "open" ELSE "over"
             row == [promotion[p] EXCEPT !.window = w]
  <2>1. promotion' = [promotion EXCEPT ![p] = row] /\ UNCHANGED <<menuRows, cartRows, orderRows, edit, submission>>
    BY <1>8 DEF PromotionAges
  <2>2. promotion[p] \in Promotion /\ promotion[p] # None
    BY <1>0, <1>8 DEF PromotionAges
  <2>3. row \in Promotion /\ row.limit = promotion[p].limit /\ row.capped = promotion[p].capped
    BY <2>2 DEF Promotion
  <2> HIDE DEF row
  <2>4. QED
    BY <1>0, <1>1, <2>1, <2>2, <2>3 DEF CappedHold
<1>9. Goal
  BY <1>2, <1>3, <1>5, <1>6, <1>7, <1>8 DEF RunPromotions, AdminPromotions
<1>10. QED
  BY <1>9 DEF Goal

\* A promotion that is new is used and claimed by nobody.
LEMMA NewIsUnused ==
  ASSUME BooksInv, NEW p \in Promotions, promotion[p] = None, NEW u \in Customers
  PROVE  Uses(p, u) = 0 /\ Cardinality(Claiming(p, u)) = 0
<1>1. promotion[p] \notin Promotion
  BY NoneIsNoRow
<1>2. \A o \in Orders : <<p, u, o>> \notin usage
  <2>1. SUFFICES ASSUME NEW o \in Orders, <<p, u, o>> \in usage PROVE FALSE
    OBVIOUS
  <2>2. usage = { <<order[q].promotion, order[q].customer, q>> : q \in { r \in Placed : order[r].promotion # None } }
    BY DEF BooksInv, OverrunIsBounded
  <2>3. PICK q \in Placed : order[q].promotion # None /\ <<p, u, o>> = <<order[q].promotion, order[q].customer, q>>
    BY <2>1, <2>2
  <2>4. QED
    BY <1>1, <2>3 DEF BooksInv, OrdersHold
<1>3. Claiming(p, u) = {}
  <2>1. SUFFICES ASSUME NEW c \in Claiming(p, u) PROVE FALSE
    OBVIOUS
  <2>2. c \in Clients /\ submission[c].step # "idle" /\ submission[c].promotion = p
    BY DEF Claiming
  <2>3. submission[c] \in Submission
    BY <2>2 DEF BooksInv, TypesFit, NoSubmission
  <2>4. Submitted(submission[c])
    BY <2>2, <2>3 DEF BooksInv, SubmissionsHold
  <2>5. p # None
    BY PurchaseAssumption
  <2>6. QED
    BY <1>1, <2>2, <2>4, <2>5 DEF Submitted
<1>4. { o \in Orders : <<p, u, o>> \in usage } = {}
  BY <1>2
<1>5. QED
  BY <1>3, <1>4, FS_EmptySet DEF Uses

\* A new promotion is within its limit, and a changed one is capped only if it was.
LEMMA PromotionBooks ==
  ASSUME BooksInv, RunPromotions \/ AdminPromotions
  PROVE  BooksInv'
<1>1. UNCHANGED <<menuItem, stock, cart, line, latest, usage, order, payment, answers, edit, submission, skewed>>
  BY PromotionChanges
<1>2. PICK p \in Promotions, row \in Promotion :
              /\ promotion' = [promotion EXCEPT ![p] = row]
              /\ row.capped => row.limit # None
              /\ promotion[p] # None /\ row.capped => promotion[p].capped
  BY PromotionChanges
<1>3. promotion \in [Promotions -> Promotion \cup { None }]
  BY DEF BooksInv, TypesFit
<1>4. \A q : q \in Promotions /\ promotion[q] \in Promotion => promotion'[q] \in Promotion
  BY <1>2, <1>3
<1>5. TypesFit'
  BY <1>1, <1>2, <1>3 DEF BooksInv, TypesFit, Placed
<1>6. SubmissionsHold'
  <2>1. ASSUME NEW d \in Clients, NEW s \in Submission, submission[d] = s PROVE Submitted(s)'
    <3>1. Submitted(s) /\ (s.promotion # None => s.promotion \in Promotions)
      BY <2>1 DEF BooksInv, SubmissionsHold, Submission
    <3>2. s.promotion # None => promotion'[s.promotion] \in Promotion
      BY <1>4, <3>1 DEF Submitted
    <3>3. QED
      BY <1>1, <3>1, <3>2 DEF Submitted, RecomputeTotals, ItemsOf
  <2>2. QED
    BY <1>1, <2>1 DEF SubmissionsHold
<1>7. OrdersHold'
  <2>1. \A o \in Placed : order[o].promotion # None => order[o].promotion \in Promotions
    BY DEF BooksInv, TypesFit, Order
  <2>2. OrdersHold /\ Placed' = Placed
    BY <1>1 DEF BooksInv, Placed
  <2>3. QED
    BY <1>1, <1>4, <2>1, <2>2 DEF OrdersHold
<1>8. CappedHold'
  BY <1>2, <1>3 DEF BooksInv, CappedHold
<1>9. EditsHold'
  <2>1. \A x, y : SumAfter(x, y)' = SumAfter(x, y) /\ WritesOf(x, y)' = WritesOf(x, y)
    BY <1>1 DEF SumAfter, Written, RecomputeTotals, ItemsOf, WritesOf
  <2>2. QED
    BY <1>1, <2>1 DEF BooksInv, EditsHold, EditHolds
<1>10. OverrunIsBounded'
  <2>1. ASSUME NEW q \in Promotions, NEW u \in Customers, promotion'[q] # None /\ promotion'[q].capped
        PROVE  Uses(q, u) + Cardinality(Claiming(q, u)) <= Max(Limits) - 1 + Cardinality(Clients)
    <3>1. CASE q = p /\ promotion[p] = None
      <4>1. row.capped /\ row.limit \in Limits
        BY <1>2, <1>3, <2>1, <3>1 DEF Promotion
      <4>2. Limits \subseteq Nat \ {0} /\ Max(Limits) \in Limits
        BY <4>1, MostOfLimits, PurchaseAssumption
      <4>3. Max(Limits) \in Nat /\ Max(Limits) >= 1 /\ Cardinality(Clients) \in Nat
        <5>1. Max(Limits) \in Nat \ {0}
          BY <4>2, Zenon
        <5>2. Cardinality(Clients) \in Nat
          BY CountsFit
        <5>3. QED
          BY <5>1, <5>2
      <4>4. Uses(q, u) = 0 /\ Cardinality(Claiming(q, u)) = 0
        BY <3>1, NewIsUnused
      <4>5. QED
        BY <4>3, <4>4
    <3>2. CASE ~(q = p /\ promotion[p] = None)
      <4>1. promotion[q] # None /\ promotion[q].capped
        BY <1>2, <1>3, <2>1, <3>2
      <4>2. QED
        BY <4>1 DEF BooksInv, OverrunIsBounded
    <3>3. QED
      BY <3>1, <3>2
  <2>2. \A q, u : Uses(q, u)' = Uses(q, u) /\ Claiming(q, u)' = Claiming(q, u)
    BY <1>1 DEF Uses, Claiming
  <2>3. QED
    BY <1>1, <2>1, <2>2 DEF BooksInv, OverrunIsBounded, Placed
<1>11. /\ PaymentIsTheTotal' /\ StockIsAccounted' /\ TotalsHeal' /\ SpentOnlyTogether'
  BY <1>1 DEF BooksInv, PaymentIsTheTotal, StockIsAccounted, TotalsHeal, SpentOnlyTogether, UnderWay, Placed,
              RecomputeTotals, ItemsOf
<1>12. QED
  BY <1>5, <1>6, <1>7, <1>8, <1>9, <1>10, <1>11 DEF BooksInv

-----------------------------------------------------------------------------
(* Submissions before their transaction, and after it.                     *)

\* A submission that moves on disturbs nothing but the limits and the spent carts, which are left to show.
LEMMA SubmissionMoves ==
  ASSUME BooksInv, NEW c \in Clients, NEW s \in Submission \cup { NoSubmission },
         submission' = [submission EXCEPT ![c] = s], s \in Submission => Submitted(s),
         UNCHANGED <<menuItem, stock, cart, line, latest, promotion, usage, order, payment, skewed>>,
         edit' = edit \/ edit' = [edit EXCEPT ![c] = NoEdit],
         answers' \subseteq [key : Keys, customer : Customers, order : Orders],
         OverrunIsBounded', SpentOnlyTogether'
  PROVE  BooksInv'
<1>1. TypesFit'
  BY DEF BooksInv, TypesFit, Placed
<1>2. SubmissionsHold'
  <2>1. ASSUME NEW d \in Clients, NEW t \in Submission, submission'[d] = t PROVE Submitted(t)'
    <3>1. Submitted(t)' <=> Submitted(t)
      BY DEF Submitted, RecomputeTotals, ItemsOf
    <3>2. submission[d] = t \/ t = s
      BY <2>1 DEF BooksInv, TypesFit
    <3>3. QED
      BY <3>1, <3>2 DEF BooksInv, SubmissionsHold
  <2>2. QED
    BY <2>1 DEF SubmissionsHold
<1>3. EditsHold'
  <2>1. \A x, y : SumAfter(x, y)' = SumAfter(x, y) /\ WritesOf(x, y)' = WritesOf(x, y)
    BY DEF SumAfter, Written, RecomputeTotals, ItemsOf, WritesOf
  <2>2. DOMAIN NoEdit.rows = {}
    BY DEF NoEdit
  <2>3. edit \in [Clients -> Edit \cup { NoEdit }] /\ EditsHold
    BY DEF BooksInv, TypesFit
  <2>4. ASSUME NEW d \in Clients, NEW e \in Edit, edit'[d] = e PROVE EditHolds(e)'
    <3>1. edit[d] = e
      BY <2>3, <2>4, NoEditIsNone
    <3>2. QED
      BY <2>1, <2>3, <3>1 DEF EditsHold, EditHolds
  <2>5. \A d \in Clients : edit'[d].rows = edit[d].rows \/ DOMAIN edit'[d].rows = {}
    BY <2>2, <2>3
  <2>6. QED
    BY <2>3, <2>4, <2>5 DEF EditsHold
<1>4. /\ OrdersHold' /\ CappedHold' /\ PaymentIsTheTotal' /\ StockIsAccounted' /\ TotalsHeal'
  BY DEF BooksInv, OrdersHold, CappedHold, PaymentIsTheTotal, StockIsAccounted, TotalsHeal, Placed,
         RecomputeTotals, ItemsOf
<1>5. QED
  BY <1>1, <1>2, <1>3, <1>4 DEF BooksInv

\* A submission that goes on with what it has, or ends, claims and spends nothing new.
LEMMA NothingNew ==
  ASSUME BooksInv, NEW c \in Clients, NEW s, submission' = [submission EXCEPT ![c] = s],
         \/ s = NoSubmission
         \/ /\ submission[c] \in Submission /\ submission[c].step # "read"
            /\ s.promotion = submission[c].promotion /\ s.customer = submission[c].customer
            /\ s.cart = submission[c].cart,
         UNCHANGED <<cart, promotion, usage, order>>
  PROVE  OverrunIsBounded' /\ SpentOnlyTogether'
<1>0. submission \in [Clients -> Submission \cup { NoSubmission }] /\ TypesFit
  BY DEF BooksInv, TypesFit
<1>1. \A p, u : Claiming(p, u)' \subseteq Claiming(p, u)
  <2>1. ASSUME NEW p, NEW u, NEW d \in Claiming(p, u)' PROVE d \in Claiming(p, u)
    <3>1. d \in Clients /\ submission'[d].step \in { "priced", "submitting", "collided" }
          /\ submission'[d].promotion = p /\ submission'[d].customer = u
      BY <2>1 DEF Claiming
    <3>2. CASE d # c
      BY <1>0, <3>1, <3>2 DEF Claiming
    <3>3. CASE d = c
      <4>1. s # NoSubmission
        BY <1>0, <3>1, <3>3 DEF NoSubmission
      <4>2. submission[c] \in Submission /\ submission[c].step \in { "priced", "submitting", "collided" }
        BY <4>1 DEF Submission
      <4>3. QED
        BY <1>0, <3>1, <3>3, <4>1, <4>2 DEF Claiming
    <3>4. QED
      BY <3>2, <3>3
  <2>2. QED
    BY <2>1
<1>2. \A k : UnderWay(k)' \subseteq UnderWay(k)
  BY <1>0, NoEditIsNone DEF UnderWay
<1>3. OverrunIsBounded'
  BY <1>0, <1>1, FewerClaims DEF BooksInv
<1>4. SpentOnlyTogether'
  BY <1>0, <1>2, FewerUnderWay DEF BooksInv
<1>5. QED
  BY <1>3, <1>4

\* A submission that begins has an active cart, of which no order was made.
LEMMA ReadBooks ==
  ASSUME BooksInv, NEW c \in Clients, NEW u \in Customers, NEW key \in Keys, NEW pickup \in BOOLEAN,
         NEW code \in Codes \cup { None }, ReadContext(c, u, key, pickup, code)
  PROVE  BooksInv'
<1> DEFINE k == FindActiveCart(u)
           r == ReadSubmission(u, key, pickup, code)
<1>0. TypesFit /\ submission \in [Clients -> Submission \cup { NoSubmission }]
  BY DEF BooksInv, TypesFit
<1>1. /\ submission' = [submission EXCEPT ![c] = r] /\ r \in Submission
      /\ k \in Carts /\ cart[k] \in CartRow /\ cart[k].status = "ACTIVE"
  BY <1>0, ReadFits
<1>2. /\ r.cart = k /\ r.step = "read" /\ r.promotion = None /\ r.subtotal = cart[k].total
      /\ r.clean = (k \notin skewed) /\ r.rows = [l \in ItemsOf(line, k) |-> line[l]]
  BY DEF ReadSubmission
<1>3. UNCHANGED <<menuItem, stock, cart, line, latest, promotion, usage, order, payment, answers, edit, skewed>>
  BY DEF ReadContext, menuRows, cartRows, orderRows
<1> HIDE DEF r, k
<1>4. RecomputeTotals(r.rows, k) = RecomputeTotals(line, k)
  <2>1. line \in [Lines -> CartItem \cup { None }] /\ line \in RowSets(CartItem \cup { None })
    BY <1>0, RowSetsFit DEF TypesFit
  <2>2. ItemsOf(line, k) \in SUBSET Lines /\ \A l \in ItemsOf(line, k) : line[l] \in CartItem /\ line[l].cart = k /\ line[l] # None
    BY <2>1 DEF ItemsOf
  <2>3. r.rows \in [ItemsOf(line, k) -> CartItem \cup { None }] /\ DOMAIN r.rows = ItemsOf(line, k)
    BY <1>2, <2>2
  <2>4. r.rows \in RowSets(CartItem \cup { None })
    BY <2>2, <2>3 DEF RowSets
  <2>5. \A l \in ItemsOf(line, k) : r.rows[l] = line[l]
    BY <1>2
  <2>6. ItemsOf(r.rows, k) = ItemsOf(line, k)
    <3>1. ItemsOf(r.rows, k) = { l \in ItemsOf(line, k) : r.rows[l] # None /\ r.rows[l].cart = k }
      BY <2>3 DEF ItemsOf
    <3>2. QED
      BY <2>2, <2>5, <3>1
  <2>7. QED
    BY <2>1, <2>4, <2>5, <2>6, SameTotal
<1>5. Submitted(r)
  <2>1. r.clean => r.subtotal = RecomputeTotals(r.rows, r.cart)
    <3>1. SUFFICES ASSUME k \notin skewed PROVE cart[k].total = RecomputeTotals(line, k)
      BY <1>2, <1>4
    <3>2. cart[k] # None
      BY <1>1, NoneIsNoRow
    <3>3. QED
      BY <1>1, <3>1, <3>2 DEF BooksInv, TotalsHeal
  <2>2. QED
    BY <1>1, <1>2, <2>1 DEF Submitted
<1>6. OverrunIsBounded'
  <2>1. \A p, v : Claiming(p, v)' \subseteq Claiming(p, v)
    BY <1>0, <1>1, <1>2 DEF Claiming
  <2>2. QED
    BY <1>0, <1>3, <2>1, FewerClaims DEF BooksInv
<1>7. SpentOnlyTogether'
  <2>1. ASSUME NEW x \in Carts, { o \in Placed : order[o].cart = x } # {}
        PROVE  cart'[x].status = cart[x].status /\ UnderWay(x)' \subseteq UnderWay(x)
    <3>1. x # k
      BY <1>1, <2>1 DEF BooksInv, SpentOnlyTogether
    <3>2. UnderWay(x)' \subseteq UnderWay(x)
      BY <1>0, <1>1, <1>2, <3>1 DEF UnderWay
    <3>3. QED
      BY <1>3, <3>2
  <2>2. QED
    BY <1>0, <1>3, <2>1, FewerUnderWay DEF BooksInv
<1>8. answers' \subseteq [key : Keys, customer : Customers, order : Orders]
  BY <1>0, <1>3 DEF TypesFit
<1>9. QED
  BY <1>1, <1>3, <1>5, <1>6, <1>7, <1>8, SubmissionMoves

\* A submission that has begun is a whole one.
LEMMA InFlight ==
  ASSUME BooksInv, NEW c \in Clients, submission[c].step # "idle"
  PROVE  submission[c] \in Submission /\ Submitted(submission[c])
BY DEF BooksInv, TypesFit, SubmissionsHold, NoSubmission

\* A promotion applies while uses are left; the claims are at most as many as the clients.
LEMMA PriceBooks ==
  ASSUME BooksInv, NEW c \in Clients, PriceSubmission(c)
  PROVE  BooksInv'
<1> DEFINE t == submission[c]
<1>0. TypesFit /\ submission \in [Clients -> Submission \cup { NoSubmission }]
  BY DEF BooksInv, TypesFit
<1>1. t \in Submission /\ Submitted(t) /\ t.step = "read"
  BY InFlight DEF PriceSubmission
<1>2. PICK p \in Promotions \cup { None } :
        /\ p = None \/ (p # None /\ Applies(p, t))
        /\ submission' = [submission EXCEPT ![c] = Priced(t, p)]
  BY <1>0 DEF PriceSubmission
<1>3. PICK s : s = Priced(t, p)
  OBVIOUS
<1>4. UNCHANGED <<menuItem, stock, cart, line, latest, promotion, usage, order, payment, answers, edit, skewed>>
  BY DEF PriceSubmission, menuRows, cartRows, orderRows
<1> HIDE DEF t
<1>5. /\ s \in Submission /\ s.step = "priced" /\ s.promotion = p /\ s.total = s.due
      /\ s.customer = t.customer /\ s.cart = t.cart /\ s.rows = t.rows /\ s.subtotal = t.subtotal /\ s.clean = t.clean
  BY <1>1, <1>3, PricedFits
<1>6. p # None => p \in Promotions /\ promotion[p] # None /\ promotion[p] \in Promotion
  BY <1>0, <1>2 DEF Applies, Offered, TypesFit
<1>7. Submitted(s)
  BY <1>1, <1>5, <1>6 DEF Submitted
<1>8. t.customer \in Customers /\ t.promotion = None
  BY <1>1 DEF Submission, Submitted
<1>9. OverrunIsBounded'
  <2>1. ASSUME NEW q \in Promotions, NEW u \in Customers, promotion[q] # None, promotion[q].capped
        PROVE  Uses(q, u) + Cardinality(Claiming(q, u)') <= Max(Limits) - 1 + Cardinality(Clients)
    <3>1. promotion[q] \in Promotion /\ promotion[q].limit \in Limits /\ promotion[q].limit # None
      BY <1>0, <2>1 DEF BooksInv, TypesFit, CappedHold, Promotion
    <3>2. Max(Limits) \in Limits /\ \A n \in Limits : n <= Max(Limits)
      BY <3>1, MostOfLimits
    <3>3. \A n \in Limits : n \in Nat
      BY PurchaseAssumption
    <3>4. Uses(q, u) \in Nat /\ Cardinality(Clients) \in Nat
      BY CountsFit
    <3>5. Claiming(q, u)' \in SUBSET Clients
      BY DEF Claiming
    <3>6. CASE q = p /\ u = t.customer
      <4>1. Applies(p, t)
        BY <1>2, <3>6, PurchaseAssumption
      <4>2. Uses(q, u) < promotion[q].limit
        BY <3>1, <3>6, <4>1 DEF Applies, HasUsesLeft
      <4>3. Cardinality(Claiming(q, u)') <= Cardinality(Clients) /\ Cardinality(Claiming(q, u)') \in Nat
        BY <3>5, CountParts, PurchaseAssumption
      <4>4. promotion[q].limit \in Nat /\ promotion[q].limit <= Max(Limits) /\ Max(Limits) \in Nat
        BY <3>1, <3>2, <3>3
      <4>5. QED
        BY <3>4, <4>2, <4>3, <4>4
    <3>7. CASE ~(q = p /\ u = t.customer)
      <4>1. Claiming(q, u)' \subseteq Claiming(q, u)
        BY <1>0, <1>2, <1>3, <1>5, <3>7 DEF Claiming
      <4>2. Claiming(q, u) \in SUBSET Clients
        BY DEF Claiming
      <4>3. /\ Cardinality(Claiming(q, u)') <= Cardinality(Claiming(q, u))
            /\ Cardinality(Claiming(q, u)') \in Nat /\ Cardinality(Claiming(q, u)) \in Nat
        BY <4>1, <4>2, Shrinks, PurchaseAssumption
      <4>4. Uses(q, u) + Cardinality(Claiming(q, u)) <= Max(Limits) - 1 + Cardinality(Clients)
        BY <2>1 DEF BooksInv, OverrunIsBounded
      <4>5. Max(Limits) \in Nat
        BY <3>2, <3>3
      <4>6. QED
        BY <3>4, <4>3, <4>4, <4>5
    <3>8. QED
      BY <3>6, <3>7
  <2>2. \A q, u : Uses(q, u)' = Uses(q, u)
    BY <1>4 DEF Uses
  <2>3. QED
    BY <1>4, <2>1, <2>2 DEF BooksInv, OverrunIsBounded, Placed
<1>10. SpentOnlyTogether'
  <2>1. \A k : UnderWay(k)' \subseteq UnderWay(k)
    BY <1>0, <1>1, <1>2, <1>3, <1>5, NoEditIsNone DEF UnderWay, t
  <2>2. QED
    BY <1>0, <1>4, <2>1, FewerUnderWay DEF BooksInv
<1>11. answers' \subseteq [key : Keys, customer : Customers, order : Orders]
  BY <1>0, <1>4 DEF TypesFit
<1>12. QED
  BY <1>2, <1>3, <1>4, <1>5, <1>7, <1>9, <1>10, <1>11, SubmissionMoves

\* A known order is answered.
LEMMA ReplayBooks ==
  ASSUME BooksInv, NEW c \in Clients, submission[c].step # "idle", ReplayOrder(c)
  PROVE  BooksInv'
<1>1. PICK o \in OrderWith(submission[c].key) :
        Answer(c, o) /\ UNCHANGED <<menuRows, cartRows, promotion, order, payment, usage, edit>>
  BY DEF ReplayOrder
<1>2. o \in Orders /\ submission[c] \in Submission
  BY InFlight DEF OrderWith, BooksInv, TypesFit
<1>3. submission' = [submission EXCEPT ![c] = NoSubmission]
      /\ answers' = answers \cup { [key |-> submission[c].key, customer |-> submission[c].customer, order |-> o] }
  BY <1>1 DEF Answer
<1>4. answers' \subseteq [key : Keys, customer : Customers, order : Orders]
  BY <1>2, <1>3 DEF BooksInv, TypesFit, Submission
<1>5. UNCHANGED <<menuItem, stock, cart, line, latest, promotion, usage, order, payment, edit, skewed>>
  BY <1>1 DEF menuRows, cartRows
<1>6. OverrunIsBounded' /\ SpentOnlyTogether'
  BY <1>3, <1>5, NothingNew
<1>7. QED
  BY <1>3, <1>4, <1>5, <1>6, NoEditIsNone, SubmissionMoves

\* The key is unknown, or has just been taken.
LEMMA GoesOnBooks ==
  ASSUME BooksInv, NEW c \in Clients, NEW x \in { "submitting", "collided" },
         submission[c].step \notin { "idle", "read" }, submission' = [submission EXCEPT ![c].step = x],
         UNCHANGED <<menuRows, cartRows, promotion, orderRows, edit>>
  PROVE  BooksInv'
<1> DEFINE t == submission[c]
<1>1. t \in Submission /\ Submitted(t)
  BY InFlight
<1>2. PICK s : s = [t EXCEPT !.step = x]
  OBVIOUS
<1>3. /\ s \in Submission /\ s.step = x /\ s.promotion = t.promotion /\ s.total = t.total /\ s.due = t.due
      /\ s.customer = t.customer /\ s.cart = t.cart /\ s.rows = t.rows /\ s.subtotal = t.subtotal /\ s.clean = t.clean
  BY <1>1, <1>2, StepFits
<1>4. submission' = [submission EXCEPT ![c] = s]
  BY <1>2
<1>5. Submitted(s)
  BY <1>1, <1>3 DEF Submitted
<1>6. /\ UNCHANGED <<menuItem, stock, cart, line, latest, promotion, usage, order, payment, answers, edit, skewed>>
      /\ answers' \subseteq [key : Keys, customer : Customers, order : Orders]
  BY DEF menuRows, cartRows, orderRows, BooksInv, TypesFit
<1> HIDE DEF t
<1>7. OverrunIsBounded' /\ SpentOnlyTogether'
  BY <1>1, <1>3, <1>4, <1>6, NothingNew DEF t
<1>8. QED
  BY <1>3, <1>4, <1>5, <1>6, <1>7, SubmissionMoves

\* A request that fails leaves no trace.
LEMMA FailBooks ==
  ASSUME BooksInv, NEW c \in Clients, RequestFails(c)
  PROVE  BooksInv'
<1>1. /\ submission' = [submission EXCEPT ![c] = NoSubmission] /\ edit' = [edit EXCEPT ![c] = NoEdit]
      /\ UNCHANGED <<menuItem, stock, cart, line, latest, promotion, usage, order, payment, answers, skewed>>
      /\ answers' \subseteq [key : Keys, customer : Customers, order : Orders]
  BY DEF RequestFails, menuRows, cartRows, orderRows, BooksInv, TypesFit
<1>2. OverrunIsBounded' /\ SpentOnlyTogether'
  BY <1>1, NothingNew
<1>3. QED
  BY <1>1, <1>2, NoEditIsNone, SubmissionMoves

-----------------------------------------------------------------------------
(* The transaction that creates the order.                                 *)

\* One element more.
LEMMA CountMore ==
  ASSUME NEW S, IsFiniteSet(S), NEW x, x \notin S
  PROVE  Cardinality(S \cup {x}) = Cardinality(S) + 1
BY FS_AddElement

\* One element less.
LEMMA CountLess ==
  ASSUME NEW S, IsFiniteSet(S), NEW x \in S
  PROVE  Cardinality(S \ {x}) = Cardinality(S) - 1
BY FS_RemoveElement

\* The order takes its units off the shelf, its claim becomes a use, and its cart is spent.
LEMMA CreateBooks ==
  ASSUME BooksInv, NEW c \in Clients, CreateOrder(c)
  PROVE  BooksInv'
<1> DEFINE s == submission[c]
           k == s.cart
           spent == [cart[k] EXCEPT !.status = "CHECKED_OUT"]
<1>0. TypesFit /\ submission \in [Clients -> Submission \cup { NoSubmission }]
  BY DEF BooksInv, TypesFit
<1>1. s \in Submission /\ Submitted(s) /\ s.step = "submitting"
  BY InFlight DEF CreateOrder
<1>2. PICK o \in Orders \ Placed :
        /\ order' = [other \in Placed \cup { o } |-> IF other # o THEN order[other] ELSE MadeOf(s)]
        /\ payment' = [payment EXCEPT ![o] = s.total]
        /\ usage' = IF s.promotion = None THEN usage ELSE usage \cup { <<s.promotion, s.customer, o>> }
        /\ Answer(c, o)
  BY Zenon DEF CreateOrder, MadeOf
<1>3. /\ \A i \in Items : stock[i] >= Ordered(s, i)
      /\ stock' = [i \in Items |-> stock[i] - Ordered(s, i)]
      /\ cart' = [cart EXCEPT ![k].status = "CHECKED_OUT"] /\ Touch(k)
      /\ UNCHANGED <<menuItem, line, promotion, edit, skewed>>
  BY Zenon DEF CreateOrder
<1>4. /\ submission' = [submission EXCEPT ![c] = NoSubmission]
      /\ answers' = answers \cup { [key |-> s.key, customer |-> s.customer, order |-> o] }
  BY <1>2 DEF Answer
<1> HIDE DEF s
<1>5. /\ s.key \in Keys /\ s.customer \in Customers /\ k \in Carts /\ s.total \in Nat /\ s.rows \in RowSets(CartItem)
      /\ s.promotion \in Promotions \cup { None } /\ s.total = s.due
  BY <1>1 DEF Submission, Submitted
<1>6. cart[k] \in CartRow /\ cart \in [Carts -> CartRow \cup { None }]
  BY <1>0, <1>1 DEF Submitted, TypesFit
<1> HIDE DEF k
<1>7. spent \in CartRow /\ spent.status = "CHECKED_OUT" /\ spent.total = cart[k].total
  BY <1>6 DEF CartRow
<1>8. cart' = [cart EXCEPT ![k] = spent]
  BY <1>3
<1> HIDE DEF spent
<1>9. /\ cart' \in [Carts -> CartRow \cup { None }]
      /\ \A x \in Carts : (cart[x] \in CartRow => cart'[x] \in CartRow)
  BY <1>5, <1>6, <1>7, <1>8
<1>10. PICK row \in Order : row = MadeOf(s)
  BY <1>1, MadeFits
<1>11. /\ row.cart = k /\ row.customer = s.customer /\ row.promotion = s.promotion /\ row.total = s.total
       /\ row.subtotal = s.subtotal /\ row.linesTotal = RecomputeTotals(s.rows, k) /\ row.clean = s.clean
       /\ \A i \in Items : row.quantity[i] = Ordered(s, i)
  BY <1>5, <1>10 DEF MadeOf, k
<1>12. /\ Placed' = Placed \cup { o } /\ o \notin Placed /\ o \in Orders /\ order'[o] = row
       /\ \A x \in Placed : order'[x] = order[x]
  BY <1>2, <1>10 DEF Placed
<1>13. IsFiniteSet(Placed) /\ Placed \subseteq Orders
  BY <1>0, PartIsFinite, PurchaseAssumption DEF TypesFit
<1>14. \A i \in Items : Ordered(s, i) \in Nat /\ stock[i] \in Nat
  BY <1>0, <1>5, OrderedIsNat DEF TypesFit
<1>15. TypesFit'
  <2>1. stock' \in [Items -> Nat]
    BY <1>3, <1>14
  <2>2. usage' \subseteq Promotions \X Customers \X Orders
    BY <1>0, <1>2, <1>5 DEF TypesFit
  <2>3. Placed' \subseteq Orders /\ \A x \in Placed' : order'[x] \in Order
    BY <1>0, <1>12 DEF TypesFit
  <2>4. payment' \in [Orders -> Nat \cup { None }]
    BY <1>0, <1>2, <1>5 DEF TypesFit
  <2>5. answers' \subseteq [key : Keys, customer : Customers, order : Orders]
    BY <1>0, <1>2, <1>4, <1>5 DEF TypesFit
  <2>6. latest' \in [Carts -> 1 .. Cardinality(Carts)]
    BY <1>0, <1>3, <1>5, TouchFits DEF TypesFit
  <2>7. submission' \in [Clients -> Submission \cup { NoSubmission }]
    BY <1>0, <1>4
  <2>8. QED
    BY <1>0, <1>3, <1>9, <2>1, <2>2, <2>3, <2>4, <2>5, <2>6, <2>7 DEF TypesFit
<1>16. SubmissionsHold'
  <2>1. ASSUME NEW d \in Clients, NEW t \in Submission, submission'[d] = t PROVE Submitted(t)'
    <3>1. submission[d] = t /\ t.cart \in Carts
      BY <1>0, <1>4, <2>1, NoEditIsNone DEF Submission
    <3>2. Submitted(t)
      BY <3>1 DEF BooksInv, SubmissionsHold
    <3>3. cart'[t.cart] \in CartRow
      BY <1>9, <3>1, <3>2 DEF Submitted
    <3>4. QED
      BY <1>3, <3>2, <3>3 DEF Submitted, RecomputeTotals, ItemsOf
  <2>2. QED
    BY <2>1 DEF SubmissionsHold
<1>17. EditsHold'
  <2>1. \A x, y : SumAfter(x, y)' = SumAfter(x, y) /\ WritesOf(x, y)' = WritesOf(x, y)
    BY <1>3 DEF SumAfter, Written, RecomputeTotals, ItemsOf, WritesOf
  <2>2. QED
    BY <1>3, <2>1 DEF BooksInv, EditsHold, EditHolds
<1>18. OrdersHold'
  <2>1. ASSUME NEW x \in Placed, NEW r \in Order, r = order[x]
        PROVE  cart'[r.cart] \in CartRow /\ (r.promotion # None => promotion'[r.promotion] \in Promotion)
    BY <1>3, <1>9, <2>1 DEF BooksInv, OrdersHold, Order
  <2>2. cart'[row.cart] \in CartRow /\ (row.promotion # None => promotion'[row.promotion] \in Promotion)
    BY <1>1, <1>3, <1>5, <1>6, <1>9, <1>11 DEF Submitted
  <2>3. \A x \in Placed : order[x] \in Order
    BY <1>0 DEF TypesFit
  <2>4. QED
    BY <1>12, <2>1, <2>2, <2>3 DEF OrdersHold
<1>19. CappedHold'
  BY <1>3 DEF BooksInv, CappedHold
<1>20. PaymentIsTheTotal'
  BY <1>0, <1>2, <1>11, <1>12 DEF BooksInv, PaymentIsTheTotal, TypesFit
<1>21. StockIsAccounted'
  <2>1. ASSUME NEW i \in Items
        PROVE  stock'[i] + SumFunctionOnSet([x \in Placed' |-> order'[x].quantity[i]], Placed') = Stock
    <3> DEFINE f == [x \in Placed |-> order[x].quantity[i]]
               g == [x \in Placed' |-> order'[x].quantity[i]]
    <3>1. \A x \in Placed : f[x] \in Int /\ g[x] = f[x] /\ g[x] \in Int
      BY <1>0, <1>12 DEF TypesFit, Order
    <3>2. g[o] = Ordered(s, i) /\ g[o] \in Int
      BY <1>11, <1>12, <1>14
    <3>3. stock[i] + SumFunctionOnSet(f, Placed) = Stock
      BY DEF BooksInv, StockIsAccounted
    <3> HIDE DEF f, g
    <3>4. SumFunctionOnSet(g, Placed) = SumFunctionOnSet(f, Placed)
      BY <1>13, <3>1, SumAgree
    <3>5. SumFunctionOnSet(g, Placed \cup { o }) = g[o] + SumFunctionOnSet(g, Placed)
      BY <1>12, <1>13, <3>1, <3>2, SumAdd
    <3>6. SumFunctionOnSet(f, Placed) \in Int
      BY <1>13, <3>1, SumInt
    <3>7. stock'[i] + SumFunctionOnSet(g, Placed') = Stock
      BY <1>3, <1>12, <1>14, <3>2, <3>3, <3>4, <3>5, <3>6
    <3>8. QED
      BY <3>7 DEF g
  <2>2. QED
    BY <2>1 DEF StockIsAccounted
<1>22. TotalsHeal'
  <2>1. ASSUME NEW x \in Carts, cart'[x] # None, x \notin skewed' PROVE cart'[x].total = RecomputeTotals(line, x)
    <3>1. cart[x] # None /\ cart'[x].total = cart[x].total
      BY <1>5, <1>6, <1>7, <1>8, <2>1, NoneIsNoRow
    <3>2. QED
      BY <1>3, <2>1, <3>1 DEF BooksInv, TotalsHeal
  <2>2. row.clean => row.subtotal = row.linesTotal
    BY <1>1, <1>11 DEF Submitted, k
  <2>3. \A x \in Placed' : order'[x].clean => order'[x].subtotal = order'[x].linesTotal
    BY <1>12, <2>2 DEF BooksInv, TotalsHeal
  <2>4. \A x : RecomputeTotals(line, x)' = RecomputeTotals(line, x)
    BY <1>3 DEF RecomputeTotals, ItemsOf
  <2>5. QED
    BY <2>1, <2>3, <2>4 DEF TotalsHeal
<1>23. OverrunIsBounded'
  <2>0. usage = { <<order[x].promotion, order[x].customer, x>> : x \in { q \in Placed : order[q].promotion # None } }
    BY DEF BooksInv, OverrunIsBounded
  <2>1. \A p, u : <<p, u, o>> \notin usage
    BY <1>12, <2>0
  <2>2. ASSUME NEW p \in Promotions, NEW u \in Customers, promotion'[p] # None, promotion'[p].capped
        PROVE  (Uses(p, u) + Cardinality(Claiming(p, u)) <= Max(Limits) - 1 + Cardinality(Clients))'
    <3> DEFINE used == { x \in Orders : <<p, u, x>> \in usage }
    <3>1. Cardinality(used) + Cardinality(Claiming(p, u)) <= Max(Limits) - 1 + Cardinality(Clients)
      BY <1>3, <2>2 DEF BooksInv, OverrunIsBounded, Uses
    <3>2. Claiming(p, u)' = Claiming(p, u) \ { c }
      BY <1>0, <1>4 DEF Claiming, NoSubmission
    <3>3. Claiming(p, u) \in SUBSET Clients /\ used \in SUBSET Orders
      BY DEF Claiming
    <3>4. IsFiniteSet(used) /\ IsFiniteSet(Claiming(p, u)) /\ Cardinality(used) \in Nat /\ Cardinality(Claiming(p, u)) \in Nat
      BY <3>3, CountParts, PurchaseAssumption
    <3>5. Cardinality(Clients) \in Nat
      BY CountsFit
    <3>6. Max(Limits) \in Nat
      <4>1. promotion[p] \in Promotion /\ promotion[p].limit # None
        BY <1>0, <1>3, <2>2 DEF BooksInv, TypesFit, CappedHold
      <4>2. Limits # {}
        BY <4>1 DEF Promotion
      <4>3. QED
        BY <4>2, MostOfLimits, PurchaseAssumption
    <3>7. CASE p = s.promotion /\ u = s.customer
      <4>1. { x \in Orders : <<p, u, x>> \in usage' } = used \cup { o }
        BY <1>2, <3>7, PurchaseAssumption
      <4>2. o \notin used
        BY <2>1
      <4>3. c \in Claiming(p, u)
        BY <1>1, <3>7 DEF Claiming, s
      <4> HIDE DEF used
      <4>4. Cardinality(used \cup { o }) = Cardinality(used) + 1
        BY <3>4, <4>2, CountMore
      <4>5. Cardinality(Claiming(p, u) \ { c }) = Cardinality(Claiming(p, u)) - 1
        BY <3>4, <4>3, CountLess
      <4>6. Uses(p, u)' = Cardinality(used) + 1
        BY <4>1, <4>4 DEF Uses
      <4>7. QED
        BY <3>1, <3>2, <3>4, <3>5, <3>6, <4>5, <4>6
    <3>8. CASE ~(p = s.promotion /\ u = s.customer)
      <4>1. { x \in Orders : <<p, u, x>> \in usage' } = used
        BY <1>2, <3>8
      <4>2. Claiming(p, u)' \in SUBSET Claiming(p, u)
        BY <3>2
      <4> HIDE DEF used
      <4>3. Cardinality(Claiming(p, u)') <= Cardinality(Claiming(p, u)) /\ Cardinality(Claiming(p, u)') \in Nat
        BY <3>3, <4>2, Shrinks, PurchaseAssumption
      <4>4. Uses(p, u)' = Cardinality(used)
        BY <4>1 DEF Uses
      <4>5. QED
        BY <3>1, <3>4, <3>5, <3>6, <4>3, <4>4
    <3>9. QED
      BY <3>7, <3>8
  <2>3. usage' = { <<order'[x].promotion, order'[x].customer, x>> : x \in { q \in Placed' : order'[q].promotion # None } }
    <3> DEFINE priced == { q \in Placed : order[q].promotion # None }
               now == { q \in Placed' : order'[q].promotion # None }
               use == <<s.promotion, s.customer, o>>
    <3>1. \A x \in priced : x \in Placed /\ order'[x] = order[x]
      BY <1>12
    <3>2. CASE s.promotion = None
      <4>1. now = priced
        BY <1>11, <1>12, <3>2
      <4>2. usage' = usage
        BY <1>2, <3>2
      <4> HIDE DEF priced, now
      <4>3. usage' = { <<order'[x].promotion, order'[x].customer, x>> : x \in now }
        BY <2>0, <3>1, <4>1, <4>2 DEF priced
      <4>4. QED
        BY <4>3 DEF now
    <3>3. CASE s.promotion # None
      <4>1. now = priced \cup { o }
        BY <1>11, <1>12, <3>3
      <4>2. usage' = usage \cup { use }
        BY <1>2, <3>3
      <4>3. use = <<order'[o].promotion, order'[o].customer, o>>
        BY <1>11, <1>12
      <4> HIDE DEF priced, now, use
      <4>4. usage = { <<order[x].promotion, order[x].customer, x>> : x \in priced }
        BY <2>0 DEF priced
      <4>5. usage' = { <<order'[x].promotion, order'[x].customer, x>> : x \in now }
        BY <3>1, <4>1, <4>2, <4>3, <4>4
      <4>6. QED
        BY <4>5 DEF now
    <3>4. QED
      BY <3>2, <3>3
  <2>4. QED
    BY <2>2, <2>3 DEF OverrunIsBounded
<1>24. SpentOnlyTogether'
  <2>1. ASSUME NEW x \in Carts, { q \in Placed' : order'[q].cart = x } # {}
        PROVE  /\ cart'[x].status = "CHECKED_OUT"
               /\ Cardinality({ q \in Placed' : order'[q].cart = x }) + Cardinality(UnderWay(x)') <= Cardinality(Clients)
    <3> DEFINE made == { q \in Placed : order[q].cart = x }
               now == { q \in Placed' : order'[q].cart = x }
    <3>1. made # {} => cart[x].status = "CHECKED_OUT" /\ Cardinality(made) + Cardinality(UnderWay(x)) <= Cardinality(Clients)
      BY DEF BooksInv, SpentOnlyTogether
    <3>2. UnderWay(x)' = UnderWay(x) \ { c }
      BY <1>0, <1>4 DEF UnderWay
    <3>3. made \in SUBSET Orders /\ UnderWay(x) \in SUBSET Clients
      BY <1>13 DEF UnderWay
    <3>4. /\ IsFiniteSet(made) /\ IsFiniteSet(UnderWay(x)) /\ Cardinality(made) \in Nat /\ Cardinality(UnderWay(x)) \in Nat
          /\ Cardinality(Clients) \in Nat /\ Cardinality(UnderWay(x)) <= Cardinality(Clients)
      BY <3>3, CountParts, PurchaseAssumption
    <3>5. CASE x = k
      <4>1. now = made \cup { o } /\ o \notin made
        BY <1>11, <1>12, <3>5
      <4>2. c \in UnderWay(x)
        BY <1>1, <3>5, NoEditIsNone DEF UnderWay, s, k
      <4>3. cart'[x].status = "CHECKED_OUT"
        BY <1>5, <1>6, <1>7, <1>8, <3>5
      <4>4. made = {} => Cardinality(made) = 0
        BY FS_EmptySet
      <4> HIDE DEF made, now
      <4>5. Cardinality(made \cup { o }) = Cardinality(made) + 1
        BY <3>4, <4>1, CountMore
      <4>6. Cardinality(UnderWay(x) \ { c }) = Cardinality(UnderWay(x)) - 1
        BY <3>4, <4>2, CountLess
      <4>7. Cardinality(made) + Cardinality(UnderWay(x)) <= Cardinality(Clients)
        BY <3>1, <3>4, <4>4
      <4>8. Cardinality(now) + Cardinality(UnderWay(x)') <= Cardinality(Clients)
        BY <3>2, <3>4, <4>1, <4>5, <4>6, <4>7
      <4>9. QED
        BY <4>3, <4>8 DEF now
    <3>6. CASE x # k
      <4>1. now = made
        BY <1>11, <1>12, <3>6
      <4>2. UnderWay(x)' \in SUBSET UnderWay(x) /\ cart'[x] = cart[x]
        BY <1>6, <1>8, <3>2, <3>6
      <4> HIDE DEF made, now
      <4>3. Cardinality(UnderWay(x)') <= Cardinality(UnderWay(x)) /\ Cardinality(UnderWay(x)') \in Nat
        BY <3>3, <4>2, Shrinks, PurchaseAssumption
      <4>4. now # {}
        BY <2>1 DEF now
      <4>5. cart'[x].status = "CHECKED_OUT" /\ Cardinality(now) + Cardinality(UnderWay(x)') <= Cardinality(Clients)
        BY <3>1, <3>4, <4>1, <4>2, <4>3, <4>4
      <4>6. QED
        BY <4>5 DEF now
    <3>7. QED
      BY <3>5, <3>6
  <2>2. QED
    BY <2>1 DEF SpentOnlyTogether
<1>25. QED
  BY <1>15, <1>16, <1>17, <1>18, <1>19, <1>20, <1>21, <1>22, <1>23, <1>24 DEF BooksInv

-----------------------------------------------------------------------------
\* Prices change under everybody, and nobody's amounts with them.
LEMMA MenuBooks ==
  ASSUME BooksInv, NEW i \in Items, ChangeItem(i)
  PROVE  BooksInv'
<1>1. UNCHANGED <<stock, cart, line, latest, promotion, usage, order, payment, answers, edit, submission, skewed>>
  BY DEF ChangeItem, cartRows, orderRows
<1>2. menuItem' \in [Items -> [available : BOOLEAN, price : Prices]]
  BY DEF ChangeItem, BooksInv, TypesFit
<1>3. TypesFit'
  BY <1>1, <1>2 DEF BooksInv, TypesFit, Placed
<1>4. EditsHold'
  <2>1. \A x, y : SumAfter(x, y)' = SumAfter(x, y) /\ WritesOf(x, y)' = WritesOf(x, y)
    BY <1>1 DEF SumAfter, Written, RecomputeTotals, ItemsOf, WritesOf
  <2>2. QED
    BY <1>1, <2>1 DEF BooksInv, EditsHold, EditHolds
<1>5. SubmissionsHold' /\ OrdersHold' /\ CappedHold'
  BY <1>1 DEF BooksInv, SubmissionsHold, Submitted, OrdersHold, CappedHold, Placed, RecomputeTotals, ItemsOf
<1>6. OverrunIsBounded' /\ SpentOnlyTogether'
  BY <1>1 DEF BooksInv, OverrunIsBounded, SpentOnlyTogether, Uses, Claiming, UnderWay, Placed
<1>7. PaymentIsTheTotal' /\ StockIsAccounted' /\ TotalsHeal'
  BY <1>1 DEF BooksInv, PaymentIsTheTotal, StockIsAccounted, TotalsHeal, Placed, RecomputeTotals, ItemsOf
<1>8. QED
  BY <1>3, <1>4, <1>5, <1>6, <1>7 DEF BooksInv

\* The books of an empty branch agree.
LEMMA BooksOpen == PurchaseInit => BooksInv
<1> SUFFICES ASSUME PurchaseInit PROVE BooksInv
  OBVIOUS
<1>1. Placed = {} /\ usage = {}
  BY DEF PurchaseInit, Placed
<1>2. TypesFit
  <2>1. menuItem \in [Items -> [available : BOOLEAN, price : Prices]] /\ stock \in [Items -> Nat]
    BY LeastPrice, PurchaseAssumption DEF PurchaseInit
  <2>2. latest \in [Carts -> 1 .. Cardinality(Carts)]
    BY FirstOrder DEF PurchaseInit
  <2>3. QED
    BY <1>1, <2>1, <2>2 DEF PurchaseInit, TypesFit
<1>3. SubmissionsHold /\ EditsHold
  <2>1. \A c \in Clients : submission[c] = NoSubmission /\ edit[c] = NoEdit
    BY DEF PurchaseInit
  <2>2. DOMAIN NoEdit.rows = {}
    BY DEF NoEdit
  <2>3. QED
    BY <2>1, <2>2, NoEditIsNone DEF SubmissionsHold, EditsHold
<1>4. OrdersHold /\ CappedHold /\ PaymentIsTheTotal /\ TotalsHeal
  BY <1>1 DEF PurchaseInit, OrdersHold, CappedHold, PaymentIsTheTotal, TotalsHeal
<1>5. StockIsAccounted
  <2>1. \A f : SumFunctionOnSet(f, {}) = 0
    BY SumEmpty
  <2>2. \A i \in Items : stock[i] = Stock
    BY DEF PurchaseInit
  <2>3. Stock \in Nat
    BY PurchaseAssumption
  <2>4. QED
    BY <1>1, <2>1, <2>2, <2>3 DEF StockIsAccounted
<1>6. OverrunIsBounded
  <2>1. \A p \in Promotions : promotion[p] = None
    BY DEF PurchaseInit
  <2>2. QED
    BY <1>1, <2>1 DEF OverrunIsBounded
<1>7. SpentOnlyTogether
  BY <1>1 DEF SpentOnlyTogether
<1>8. QED
  BY <1>2, <1>3, <1>4, <1>5, <1>6, <1>7 DEF BooksInv

\* Every step keeps them.
LEMMA BooksStep ==
  ASSUME BooksInv, [PurchaseNext]_purchaseVars
  PROVE  BooksInv'
<1>1. ASSUME NEW c \in Clients, EditCart(c) PROVE BooksInv'
  <2>1. CASE CommitEdit(c)
    BY <2>1, CommitBooks
  <2>2. CASE ~CommitEdit(c)
    <3>1. TypesFit
      BY DEF BooksInv
    <3>2. QED
      BY <1>1, <2>2, <3>1, Begun, BeginBooks
  <2>3. QED
    BY <2>1, <2>2
<1>2. ASSUME NEW c \in Clients, Submit(c) PROVE BooksInv'
  <2>1. CASE \E u \in Customers, key \in Keys, pickup \in BOOLEAN, code \in Codes \cup { None } :
               ReadContext(c, u, key, pickup, code)
    BY <2>1, ReadBooks
  <2>2. CASE PriceSubmission(c)
    BY <2>2, PriceBooks
  <2>3. CASE LookUpKey(c)
    BY <2>3, ReplayBooks, GoesOnBooks DEF LookUpKey
  <2>4. CASE CreateOrder(c)
    BY <2>4, CreateBooks
  <2>5. CASE KeyCollides(c)
    BY <2>5, GoesOnBooks DEF KeyCollides
  <2>6. CASE ReplayAfterCollision(c)
    BY <2>6, ReplayBooks DEF ReplayAfterCollision
  <2>7. QED
    BY <1>2, <2>1, <2>2, <2>3, <2>4, <2>5, <2>6 DEF Submit, Proceed
<1>3. CASE UNCHANGED purchaseVars
  <2>1. \A x, y : SumAfter(x, y)' = SumAfter(x, y) /\ WritesOf(x, y)' = WritesOf(x, y)
    BY <1>3 DEF purchaseVars, SumAfter, Written, RecomputeTotals, ItemsOf, WritesOf
  <2>2. TypesFit' /\ EditsHold' /\ OrdersHold' /\ CappedHold'
    BY <1>3, <2>1 DEF purchaseVars, BooksInv, TypesFit, EditsHold, EditHolds, OrdersHold, CappedHold, Placed
  <2>3. SubmissionsHold' /\ OverrunIsBounded' /\ SpentOnlyTogether'
    BY <1>3 DEF purchaseVars, BooksInv, SubmissionsHold, Submitted, OverrunIsBounded, SpentOnlyTogether, Uses,
                Claiming, UnderWay, Placed, RecomputeTotals, ItemsOf
  <2>4. PaymentIsTheTotal' /\ StockIsAccounted' /\ TotalsHeal'
    BY <1>3 DEF purchaseVars, BooksInv, PaymentIsTheTotal, StockIsAccounted, TotalsHeal, Placed, RecomputeTotals, ItemsOf
  <2>5. QED
    BY <2>2, <2>3, <2>4 DEF BooksInv
<1>4. QED
  BY <1>1, <1>2, <1>3, FailBooks, MenuBooks, PromotionBooks DEF PurchaseNext

\* Carts, orders, payments and shelves agree, whichever submissions and edits
\* crossed and whoever died (checkout-submission.service.ts, cart-pricing.service.ts).
THEOREM BooksAgree == PurchaseSpec => []PurchaseAgrees
<1>1. BooksInv /\ [PurchaseNext]_purchaseVars => BooksInv'
  BY BooksStep
<1>2. PurchaseInv /\ [PurchaseNext]_purchaseVars => PurchaseInv'
  BY PurchaseStep
<1>3. BooksInv /\ PurchaseInv => PurchaseAgrees
  BY TypesOK DEF BooksInv, PurchaseInv, PurchaseAgrees
<1>4. QED
  BY NothingPlaced, BooksOpen, <1>1, <1>2, <1>3, PTL DEF PurchaseSpec

\* A promotion's limit is overrun by no more than the submissions that are
\* under way together (promotion-pricing.service.ts).
THEOREM OverrunStaysBounded == PurchaseSpec => []OverrunIsBounded
<1>1. BooksInv /\ [PurchaseNext]_purchaseVars => BooksInv'
  BY BooksStep
<1>2. BooksInv => OverrunIsBounded
  BY DEF BooksInv
<1>3. QED
  BY BooksOpen, <1>1, <1>2, PTL DEF PurchaseSpec
=============================================================================
