---------------------------- MODULE FrontProofs ----------------------------
(***************************************************************************)
(* Storefront and Catalogue, for any number of branches, store types,      *)
(* readers, writers and rows of a menu, however they overlap.  A cache     *)
(* entry says what the database says, but for the reasons that are named;  *)
(* a branch's primary store type is the one approved assignment that is    *)
(* marked; and the rules of a menu hold together.                          *)
(*                                                                         *)
(* The arguments: a reader whom no write has overtaken holds what the      *)
(* database says, and every entry a write changes is deleted, forgotten or *)
(* was read as nothing before (CacheFits).  A transaction nobody has       *)
(* overtaken knows the rows as they are, so that the marks it clears and   *)
(* the one it sets are all there will be (RowsInv).  An edit nobody has    *)
(* overtaken has seen the row it changes, so that the row will be the one  *)
(* it has judged (CatalogueInv).                                           *)
(***************************************************************************)
EXTENDS Catalogue, FiniteSetTheorems, TLAPS

-----------------------------------------------------------------------------
(* The caches.                                                              *)

ReaderFits(x) ==
  /\ DOMAIN x = { "key", "value", "old" } /\ x.key \in Keys /\ x.old \in BOOLEAN
  /\ \A k \in Keys : x.key = k /\ ~x.old => x.value = FreshFront(k)

CacheFits ==
  /\ DOMAIN cache = Keys /\ DOMAIN reader = Readers /\ pending \in [Writers -> SUBSET Keys] /\ gap \subseteq Keys
  /\ \A r \in Readers : reader[r] # None => ReaderFits(reader[r])
  /\ FrontCoherent

\* What the change of an entry's value comes from.
LEMMA ChangesCome ==
  ASSUME NEW k \in Keys, FreshFront(k)' # FreshFront(k)
  PROVE  \/ \E t \in Types : k = StoreTypeKey(t) /\ storeType'[t] # storeType[t]
         \/ k = TypeListKey /\ storeType' # storeType
         \/ k = DiscoveryKey
         \/ \E b \in Branches : k = BranchKey(b) /\ branch'[b] # branch[b]
         \/ \E b \in Branches : k = MenuKey(b) /\ MenuEntry(b)' # MenuEntry(b)
<1>1. \/ \E t \in Types : k = StoreTypeKey(t)
      \/ k = TypeListKey \/ k = DiscoveryKey
      \/ \E b \in Branches : k = BranchKey(b)
      \/ \E b \in Branches : k = MenuKey(b)
  BY FrontAssumption DEF FrontKeys
<1>2. ASSUME NEW t \in Types, k = StoreTypeKey(t) PROVE storeType'[t] # storeType[t]
  <2>1. FreshFront(k) = storeType[t] /\ FreshFront(k)' = storeType'[t]
    BY <1>2 DEF FreshFront, StoreTypeKey
  <2>2. QED
    BY <2>1
<1>3. ASSUME k = TypeListKey PROVE storeType' # storeType
  <2>1. FreshFront(k) = ActiveTypes /\ FreshFront(k)' = ActiveTypes'
    BY <1>3 DEF FreshFront, TypeListKey
  <2>2. QED
    BY <2>1 DEF ActiveTypes
<1>4. ASSUME NEW b \in Branches, k = BranchKey(b) PROVE branch'[b] # branch[b]
  <2>1. FreshFront(k) = branch[b] /\ FreshFront(k)' = branch'[b]
    BY <1>4 DEF FreshFront, BranchKey
  <2>2. QED
    BY <2>1
<1>5. ASSUME NEW b \in Branches, k = MenuKey(b) PROVE MenuEntry(b)' # MenuEntry(b)
  <2>1. FreshFront(k) = MenuEntry(b) /\ FreshFront(k)' = MenuEntry(b)'
    BY <1>5 DEF FreshFront, MenuKey
  <2>2. QED
    BY <2>1
<1>6. QED
  BY <1>1, <1>2, <1>3, <1>4, <1>5

LEMMA NothingChanges ==
  ASSUME UNCHANGED <<storeType, assigned, branch, menu>>, NEW k \in Keys
  PROVE  FreshFront(k)' = FreshFront(k)
BY DEF FreshFront, ActiveTypes, Discoverable, Listed, Approved, HasStatus, MenuEntry

\* A write whose changed entries are deleted or counted as forgotten.
LEMMA WriteIsPublished ==
  ASSUME CacheFits, NEW w \in Writers, NEW d \in SUBSET FrontKeys, NEW f \in SUBSET FrontKeys, Publish(w, d, f),
         \A k \in Keys : FreshFront(k)' # FreshFront(k) => k \in d \cup f \/ FreshFront(k) = None
  PROVE  CacheFits'
<1> DEFINE changed == { k \in Keys : FreshFront(k)' # FreshFront(k) }
<1>1. /\ pending' = [pending EXCEPT ![w] = pending[w] \cup (d \cap Keys)]
      /\ reader' = [r \in Readers |-> IF reader[r] # None /\ reader[r].key \in changed
                                      THEN [reader[r] EXCEPT !.old = TRUE] ELSE reader[r]]
      /\ gap' = gap \cup { k \in f \cap changed : cache[k] # None } /\ cache' = cache
  BY DEF Publish, WriteThrough
<1>2. pending' \in [Writers -> SUBSET Keys] /\ pending'[w] = pending[w] \cup (d \cap Keys)
      /\ \A v \in Writers : v # w => pending'[v] = pending[v]
  BY <1>1 DEF CacheFits
<1>3. Awaited' = Awaited \cup (d \cap Keys)
  BY <1>2 DEF Awaited
<1>4. ASSUME NEW k \in Keys, k \notin gap', k \notin Awaited'
      PROVE  cache'[k] \in { None, FreshFront(k)' }
  <2>1. k \notin gap /\ k \notin Awaited /\ k \notin d /\ cache[k] \in { None, FreshFront(k) }
    BY <1>1, <1>3, <1>4 DEF CacheFits, FrontCoherent
  <2>2. CASE FreshFront(k)' = FreshFront(k)
    BY <1>1, <2>1, <2>2
  <2>3. CASE FreshFront(k)' # FreshFront(k)
    <3>1. k \in f \/ FreshFront(k) = None
      BY <2>1, <2>3
    <3>2. k \in f => cache[k] = None
      BY <1>1, <1>4, <2>3
    <3>3. QED
      BY <1>1, <2>1, <3>1, <3>2
  <2>4. QED
    BY <2>2, <2>3
<1>5. FrontCoherent'
  BY <1>4 DEF FrontCoherent
<1>6. ASSUME NEW r \in Readers, reader'[r] # None PROVE ReaderFits(reader[r])'
  <2>1. CASE reader[r] # None /\ reader[r].key \in changed
    <3>1. reader'[r] = [reader[r] EXCEPT !.old = TRUE] /\ ReaderFits(reader[r])
      BY <1>1, <2>1 DEF CacheFits
    <3>2. QED
      BY <3>1 DEF ReaderFits
  <2>2. CASE ~(reader[r] # None /\ reader[r].key \in changed)
    <3>1. reader'[r] = reader[r]
      BY <1>1, <2>2
    <3>2. ReaderFits(reader[r])
      BY <1>6, <3>1 DEF CacheFits
    <3>3. \A k \in Keys : reader[r].key = k => FreshFront(k)' = FreshFront(k)
      BY <1>6, <2>2, <3>1
    <3>4. QED
      BY <3>1, <3>2, <3>3 DEF ReaderFits
  <2>3. QED
    BY <2>1, <2>2
<1>7. QED
  BY <1>1, <1>2, <1>5, <1>6 DEF CacheFits

\* The readers' and writers' own steps, and those that change no row.
LEMMA CacheStays ==
  ASSUME CacheFits, UNCHANGED <<storeType, assigned, branch, menu>>,
         \/ UNCHANGED cacheVars
         \/ CacheNext
         \/ \E r \in Readers, k \in Keys : Miss(r, k, FreshFront(k))
  PROVE  CacheFits'
<1>1. \A k \in Keys : FreshFront(k)' = FreshFront(k)
  BY NothingChanges
<1>2. \A x : ReaderFits(x) => ReaderFits(x)'
  BY <1>1 DEF ReaderFits
<1>3. CASE UNCHANGED cacheVars
  BY <1>1, <1>2, <1>3 DEF cacheVars, CacheFits, FrontCoherent, Awaited, ReaderFits
<1>4. ASSUME NEW r \in Readers, NEW k \in Keys, Miss(r, k, FreshFront(k)) PROVE CacheFits'
  <2>0. PICK x : x = [key |-> k, value |-> FreshFront(k), old |-> FALSE]
    OBVIOUS
  <2>1. reader' = [reader EXCEPT ![r] = x] /\ UNCHANGED <<cache, pending, gap>>
    BY <1>4, <2>0 DEF Miss
  <2>2. ReaderFits(x)'
    BY <1>1, <2>0 DEF ReaderFits
  <2>3. DOMAIN reader' = Readers /\ \A y \in Readers : reader'[y] = IF y = r THEN x ELSE reader[y]
    BY <2>1 DEF CacheFits
  <2>4. QED
    BY <1>1, <1>2, <2>1, <2>2, <2>3 DEF CacheFits, FrontCoherent, Awaited, ReaderFits
<1>5. ASSUME NEW r \in Readers, Fill(r) PROVE CacheFits'
  <2>1. PICK k \in Keys : k = reader[r].key
    BY <1>5 DEF Fill, CacheFits, ReaderFits
  <2>2. /\ cache' = [cache EXCEPT ![k] = reader[r].value]
        /\ gap' = IF reader[r].old /\ k \notin Awaited THEN gap \cup { k } ELSE gap \ { k }
        /\ reader' = [reader EXCEPT ![r] = None] /\ pending' = pending /\ reader[r] # None
    BY <1>5, <2>1 DEF Fill
  <2>3. ReaderFits(reader[r])
    BY <2>2 DEF CacheFits
  <2>4. DOMAIN cache' = Keys /\ \A j \in Keys : cache'[j] = IF j = k THEN reader[r].value ELSE cache[j]
    BY <2>2 DEF CacheFits
  <2>5. DOMAIN reader' = Readers /\ \A y \in Readers : reader'[y] = IF y = r THEN None ELSE reader[y]
    BY <2>2 DEF CacheFits
  <2>6. gap' \subseteq Keys /\ Awaited' = Awaited
    BY <2>2 DEF CacheFits, Awaited
  <2>7. FrontCoherent'
    <3> SUFFICES ASSUME NEW j \in Keys, j \notin gap', j \notin Awaited' PROVE cache'[j] \in { None, FreshFront(j)' }
      BY DEF FrontCoherent
    <3>1. CASE j = k
      <4>1. ~reader[r].old
        BY <2>2, <2>3, <2>6, <3>1 DEF ReaderFits
      <4>2. reader[r].value = FreshFront(k)
        BY <2>1, <2>3, <4>1 DEF ReaderFits
      <4>3. QED
        BY <1>1, <2>4, <3>1, <4>2
    <3>2. CASE j # k
      BY <1>1, <2>2, <2>4, <2>6, <3>2 DEF CacheFits, FrontCoherent
    <3>3. QED
      BY <3>1, <3>2
  <2>8. QED
    BY <1>2, <2>2, <2>4, <2>5, <2>6, <2>7 DEF CacheFits, ReaderFits
<1>6. ASSUME NEW r \in Readers, FillIsLost(r) PROVE CacheFits'
  <2>1. DOMAIN reader' = Readers /\ (\A y \in Readers : reader'[y] = IF y = r THEN None ELSE reader[y])
        /\ UNCHANGED <<cache, pending, gap>>
    BY <1>6 DEF FillIsLost, CacheFits
  <2>2. QED
    BY <1>1, <1>2, <2>1 DEF CacheFits, FrontCoherent, Awaited, ReaderFits
<1>7. ASSUME NEW w \in Writers, Invalidate(w) \/ InvalidationIsLost(w) PROVE CacheFits'
  <2>1. /\ pending' = [pending EXCEPT ![w] = {}] /\ reader' = reader
        /\ DOMAIN cache' = Keys
        /\ \A k \in Keys : cache'[k] = IF Invalidate(w) /\ k \in pending[w] THEN None ELSE cache[k]
        /\ gap' = IF Invalidate(w) THEN gap \ pending[w] ELSE gap \cup { k \in pending[w] : cache[k] # None }
    <3>1. CASE Invalidate(w)
      BY <3>1 DEF Invalidate, CacheFits
    <3>2. CASE ~Invalidate(w) /\ InvalidationIsLost(w)
      BY <3>2 DEF InvalidationIsLost, CacheFits
    <3>3. QED
      BY <1>7, <3>1, <3>2
  <2>2. pending' \in [Writers -> SUBSET Keys] /\ pending[w] \subseteq Keys
        /\ \A v \in Writers : pending'[v] = IF v = w THEN {} ELSE pending[v]
    BY <2>1 DEF CacheFits
  <2>3. \A k \in Keys : k \in Awaited => k \in Awaited' \/ k \in pending[w]
    BY <2>2 DEF Awaited
  <2>4. gap' \subseteq Keys
    BY <2>1, <2>2 DEF CacheFits
  <2>5. ASSUME NEW k \in Keys, k \notin gap', k \notin Awaited' PROVE cache'[k] \in { None, FreshFront(k) }
    <3>1. CASE k \in pending[w]
      BY <2>1, <2>5, <3>1
    <3>2. CASE k \notin pending[w]
      <4>1. k \notin gap /\ k \notin Awaited
        BY <2>1, <2>3, <2>5, <3>2
      <4>2. QED
        BY <2>1, <3>2, <4>1 DEF CacheFits, FrontCoherent
    <3>3. QED
      BY <3>1, <3>2
  <2>6. QED
    BY <1>1, <1>2, <2>1, <2>2, <2>4, <2>5 DEF CacheFits, FrontCoherent, ReaderFits
<1>8. ASSUME NEW k \in Keys, Expire(k) PROVE CacheFits'
  <2>1. /\ DOMAIN cache' = Keys /\ \A j \in Keys : cache'[j] = IF j = k THEN None ELSE cache[j]
        /\ gap' = gap \ { k } /\ UNCHANGED <<reader, pending>>
    BY <1>8 DEF Expire, CacheFits
  <2>2. QED
    BY <1>1, <1>2, <2>1 DEF CacheFits, FrontCoherent, Awaited, ReaderFits
<1>9. QED
  BY <1>3, <1>4, <1>5, <1>6, <1>7, <1>8 DEF CacheNext

-----------------------------------------------------------------------------
(* The rows of a branch.                                                    *)

Marks(rows) == { t \in Types : rows[t] # None /\ rows[t].primary }
WithStatus(rows, s) == { t \in Types : HasStatus(rows[t], s) }
Choosable(rows) ==
  LET approved == WithStatus(rows, "APPROVED")
  IN  IF approved \cap Marks(rows) # {} THEN approved \cap Marks(rows) ELSE IF approved # {} THEN approved ELSE { None }
Settled(rows, c, cleared) ==
  [t \in Types |-> IF t = c THEN [rows[t] EXCEPT !.primary = TRUE]
                   ELSE IF t \in cleared THEN [rows[t] EXCEPT !.primary = FALSE] ELSE rows[t]]

\* The primary type is the one approved type that is marked.
RowsAgree(rows, p) ==
  /\ Marks(rows) = { p } \ { None }
  /\ p = None => WithStatus(rows, "APPROVED") = {}
  /\ p # None => p \in WithStatus(rows, "APPROVED")

\* What a transaction writes, and the rows as it sees them.
Mark(x) == IF x.mark # None THEN x.mark ELSE IF x.seen = None THEN FALSE ELSE x.seen.primary
RowOf(x) == [status |-> x.status, primary |-> x.status = "APPROVED" /\ Mark(x)]
After(x) == [assigned[x.branch] EXCEPT ![x.type] = RowOf(x)]

RowsFit ==
  /\ storeType \in [Types -> BOOLEAN \cup { None }] /\ assigned \in [Branches -> [Types -> Assignment \cup { None }]]
  /\ branch \in [Branches -> BranchRow \cup { None }] /\ tx \in [Writers -> Transaction \cup { None }]
  /\ raced \subseteq Branches
  /\ \A b \in Branches, t \in Types : assigned[b][t] # None => storeType[t] # None /\ branch[b] # None

\* A transaction that nobody has overtaken knows the rows as they are.
TransactionFits(x) ==
  /\ storeType[x.type] # None /\ branch[x.branch] # None
  /\ x.chosen # None => After(x)[x.chosen] # None
  /\ \A t \in x.cleared : After(x)[t] # None
  /\ x.op = "request" => x.step \in { "read", "saved" } /\ x.status = "PENDING"
  /\ ~x.overtaken =>
       /\ x.seen = assigned[x.branch][x.type]
       /\ x.op = "request" => ~HasStatus(x.seen, "APPROVED")
       /\ x.step \in { "listed", "cleared" } => x.chosen \in Choosable(After(x))
       /\ x.step = "cleared" => x.cleared = Marks(After(x))

BranchAgrees(b) == branch[b] # None => RowsAgree(assigned[b], branch[b].primary)

RowsInv ==
  /\ RowsFit /\ \A w \in Writers : tx[w] # None => TransactionFits(tx[w])
  /\ \A b \in Branches \ raced : BranchAgrees(b)

LEMMA SeenIs == \A w : Seen(w) = After(tx[w])
BY DEF Seen, After, NewRow, RowOf, Mark

LEMMA RowIs == ASSUME NEW x \in Transaction PROVE RowOf(x) \in Assignment /\ RowOf(x).status = x.status
<1>1. x.status \in Status /\ Mark(x) \in BOOLEAN
  BY DEF Transaction, Mark, Assignment
<1> DEFINE b == x.status = "APPROVED" /\ Mark(x)
<1>2. b \in BOOLEAN
  BY <1>1
<1>3. RowOf(x) = [status |-> x.status, primary |-> b]
  BY DEF RowOf
<1> HIDE DEF b
<1>4. QED
  BY <1>1, <1>2, <1>3 DEF Assignment

LEMMA AfterIs ==
  ASSUME RowsFit, NEW x \in Transaction
  PROVE  /\ After(x) \in [Types -> Assignment \cup { None }] /\ After(x)[x.type] = RowOf(x)
         /\ \A t \in Types : t # x.type => After(x)[t] = assigned[x.branch][t]
<1>1. x.branch \in Branches /\ x.type \in Types
  BY DEF Transaction
<1>2. assigned[x.branch] \in [Types -> Assignment \cup { None }]
  BY <1>1 DEF RowsFit
<1>3. RowOf(x) \in Assignment
  BY RowIs
<1>4. QED
  BY <1>1, <1>2, <1>3 DEF After

\* The synchronised rows agree.
LEMMA SettledAgree ==
  ASSUME NEW rows \in [Types -> Assignment \cup { None }], NEW c \in Choosable(rows)
  PROVE  RowsAgree(Settled(rows, c, Marks(rows)), c)
<1> DEFINE new == Settled(rows, c, Marks(rows))
<1>1. ASSUME NEW t \in Types, rows[t] # None
      PROVE  /\ rows[t] \in Assignment /\ [rows[t] EXCEPT !.primary = TRUE] \in Assignment
             /\ [rows[t] EXCEPT !.primary = TRUE].primary /\ [rows[t] EXCEPT !.primary = TRUE].status = rows[t].status
             /\ [rows[t] EXCEPT !.primary = FALSE] \in Assignment
             /\ ~[rows[t] EXCEPT !.primary = FALSE].primary /\ [rows[t] EXCEPT !.primary = FALSE].status = rows[t].status
  BY <1>1 DEF Assignment
<1>2. c # None => c \in Types /\ HasStatus(rows[c], "APPROVED") /\ rows[c] # None
  BY DEF Choosable, WithStatus, HasStatus
<1>3. c = None => WithStatus(rows, "APPROVED") = {}
  BY FrontAssumption DEF Choosable, WithStatus
<1>4. \A t \in Types : new[t] = IF t = c THEN [rows[t] EXCEPT !.primary = TRUE]
                   ELSE IF t \in Marks(rows) THEN [rows[t] EXCEPT !.primary = FALSE] ELSE rows[t]
  BY DEF Settled
<1> HIDE DEF new
<1>5. ASSUME NEW t \in Types
      PROVE  /\ HasStatus(new[t], "APPROVED") <=> HasStatus(rows[t], "APPROVED")
             /\ (new[t] # None /\ new[t].primary) <=> t = c
  <2>1. CASE t = c
    <3>1. new[t] = [rows[t] EXCEPT !.primary = TRUE] /\ rows[t] # None /\ t # None
      BY <1>2, <1>4, <2>1, FrontAssumption
    <3>2. new[t] # None
      BY <1>1, <3>1, FrontAssumption
    <3>3. QED
      BY <1>1, <2>1, <3>1, <3>2 DEF HasStatus
  <2>2. CASE t # c /\ t \in Marks(rows)
    <3>1. new[t] = [rows[t] EXCEPT !.primary = FALSE] /\ rows[t] # None
      BY <1>4, <2>2 DEF Marks
    <3>2. new[t] # None
      BY <1>1, <3>1, FrontAssumption
    <3>3. QED
      BY <1>1, <2>2, <3>1, <3>2 DEF HasStatus
  <2>3. CASE t # c /\ t \notin Marks(rows)
    BY <1>4, <2>3 DEF Marks
  <2>4. QED
    BY <2>1, <2>2, <2>3
<1>6. Marks(new) = { c } \ { None }
  BY <1>2, <1>5, FrontAssumption DEF Marks
<1>7. WithStatus(new, "APPROVED") = WithStatus(rows, "APPROVED")
  BY <1>5 DEF WithStatus
<1>8. c # None => c \in WithStatus(rows, "APPROVED")
  BY <1>2 DEF WithStatus
<1>9. QED
  BY <1>3, <1>6, <1>7, <1>8 DEF RowsAgree, new

LEMMA StoreTypesMove ==
  ASSUME RowsInv, storeType' \in [Types -> BOOLEAN \cup { None }], \A t \in Types : storeType[t] # None => storeType'[t] # None,
         UNCHANGED <<assigned, branch, tx, raced>>
  PROVE  RowsInv'
<1>1. RowsFit'
  BY DEF RowsInv, RowsFit
<1>2. ASSUME NEW w \in Writers, tx[w] # None PROVE TransactionFits(tx[w])'
  <2>1. tx[w] \in Transaction /\ TransactionFits(tx[w])
    BY <1>2 DEF RowsInv, RowsFit
  <2>2. tx[w].type \in Types
    BY <2>1 DEF Transaction
  <2>3. QED
    BY <2>1, <2>2 DEF TransactionFits, After
<1>3. QED
  BY <1>1, <1>2 DEF RowsInv, BranchAgrees

LEMMA BranchesMove ==
  ASSUME RowsInv, NEW b \in Branches, NEW r \in BranchRow, branch' = [branch EXCEPT ![b] = r],
         r.primary = IF branch[b] = None THEN None ELSE branch[b].primary,
         UNCHANGED <<storeType, assigned, tx, raced>>
  PROVE  RowsInv'
<1>1. branch' \in [Branches -> BranchRow \cup { None }] /\ branch'[b] = r /\ r # None
      /\ \A c \in Branches : c # b => branch'[c] = branch[c]
  BY FrontAssumption DEF RowsInv, RowsFit
<1>2. RowsFit'
  BY <1>1 DEF RowsInv, RowsFit
<1>3. ASSUME NEW w \in Writers, tx[w] # None PROVE TransactionFits(tx[w])'
  <2>1. tx[w] \in Transaction /\ TransactionFits(tx[w])
    BY <1>3 DEF RowsInv, RowsFit
  <2>2. tx[w].branch \in Branches
    BY <2>1 DEF Transaction
  <2>3. QED
    BY <1>1, <2>1, <2>2 DEF TransactionFits, After
<1>4. ASSUME NEW c \in Branches \ raced PROVE BranchAgrees(c)'
  <2>1. BranchAgrees(c)
    BY DEF RowsInv
  <2>2. CASE c = b /\ branch[b] = None
    <3>1. \A t \in Types : assigned[b][t] = None
      BY <2>2 DEF RowsInv, RowsFit
    <3>2. Marks(assigned[b]) = {} /\ WithStatus(assigned[b], "APPROVED") = {}
      BY <3>1 DEF Marks, WithStatus, HasStatus
    <3>3. RowsAgree(assigned[b], None)
      BY <3>2 DEF RowsAgree
    <3>4. QED
      BY <1>1, <2>2, <3>3 DEF BranchAgrees
  <2>3. CASE ~(c = b /\ branch[b] = None)
    BY <1>1, <2>1, <2>3 DEF BranchAgrees
  <2>4. QED
    BY <2>2, <2>3
<1>5. QED
  BY <1>2, <1>3, <1>4 DEF RowsInv

\* A transaction goes on, or is rolled back.
LEMMA TransactionsMove ==
  ASSUME RowsInv, NEW w \in Writers, NEW x, tx' = [tx EXCEPT ![w] = x], x = None \/ (x \in Transaction /\ TransactionFits(x)),
         UNCHANGED <<storeType, assigned, branch, raced>>
  PROVE  RowsInv'
<1>1. tx' \in [Writers -> Transaction \cup { None }] /\ tx'[w] = x /\ \A v \in Writers : v # w => tx'[v] = tx[v]
  BY DEF RowsInv, RowsFit
<1>2. RowsFit'
  BY <1>1 DEF RowsInv, RowsFit
<1>3. \A y : TransactionFits(y) => TransactionFits(y)'
  BY DEF TransactionFits, After
<1>4. QED
  BY <1>1, <1>2, <1>3 DEF RowsInv, BranchAgrees

LEMMA SettledFit ==
  ASSUME NEW rows \in [Types -> Assignment \cup { None }], NEW c \in Types \cup { None }, NEW cleared \in SUBSET Types,
         c # None => rows[c] # None, \A t \in cleared : rows[t] # None
  PROVE  /\ Settled(rows, c, cleared) \in [Types -> Assignment \cup { None }]
         /\ \A t \in Types : Settled(rows, c, cleared)[t] # None <=> rows[t] # None
<1> DEFINE new == Settled(rows, c, cleared)
<1>1. \A t \in Types : new[t] = IF t = c THEN [rows[t] EXCEPT !.primary = TRUE]
                   ELSE IF t \in cleared THEN [rows[t] EXCEPT !.primary = FALSE] ELSE rows[t]
  BY DEF Settled
<1>2. ASSUME NEW t \in Types, rows[t] # None
      PROVE  [rows[t] EXCEPT !.primary = TRUE] \in Assignment /\ [rows[t] EXCEPT !.primary = FALSE] \in Assignment
  BY <1>2 DEF Assignment
<1>3. new = [t \in Types |-> new[t]]
  BY DEF Settled
<1> HIDE DEF new
<1>4. ASSUME NEW t \in Types PROVE new[t] \in Assignment \cup { None } /\ (new[t] # None <=> rows[t] # None)
  <2>1. t = c => rows[t] # None
    BY FrontAssumption
  <2>2. CASE t = c \/ t \in cleared
    <3>1. rows[t] # None
      BY <2>1, <2>2
    <3>2. new[t] = [rows[t] EXCEPT !.primary = TRUE] \/ new[t] = [rows[t] EXCEPT !.primary = FALSE]
      BY <1>1, <2>2
    <3>3. new[t] \in Assignment
      BY <1>2, <3>1, <3>2
    <3>4. QED
      BY <3>1, <3>3, FrontAssumption
  <2>3. CASE t # c /\ t \notin cleared
    BY <1>1, <2>3
  <2>4. QED
    BY <2>2, <2>3
<1>5. new \in [Types -> Assignment \cup { None }]
  BY <1>3, <1>4
<1>6. QED
  BY <1>4, <1>5 DEF new

LEMMA FinishMoves ==
  ASSUME RowsInv, NEW w \in Writers, tx[w] # None,
         NEW rows \in [Types -> Assignment \cup { None }], NEW p \in Types \cup { None }, Finish(w, rows, p),
         \A t \in Types : rows[t] # None <=> After(tx[w])[t] # None,
         ~tx[w].overtaken /\ (tx[w].op = "request" => tx[w].branch \notin raced) => RowsAgree(rows, p)
  PROVE  RowsInv'
<1>1. PICK x \in Transaction : x = tx[w]
  BY DEF RowsInv, RowsFit
<1>2. PICK b \in Branches : b = x.branch
  BY DEF Transaction
<1>3. x.type \in Types /\ x.overtaken \in BOOLEAN
  BY DEF Transaction
<1>4. TransactionFits(x)
  BY <1>1 DEF RowsInv
<1>5. /\ assigned' = [assigned EXCEPT ![b] = rows]
      /\ branch' = [branch EXCEPT ![b] = [branch[b] EXCEPT !.primary = p]]
      /\ raced' = IF x.overtaken THEN raced \cup { b } ELSE IF x.op = "request" THEN raced ELSE raced \ { b }
      /\ tx' = [v \in Writers |-> IF v = w THEN None ELSE IF v \in Others(w) THEN [tx[v] EXCEPT !.overtaken = TRUE] ELSE tx[v]]
      /\ storeType' = storeType
  BY <1>1, <1>2 DEF Finish
<1>6. assigned' \in [Branches -> [Types -> Assignment \cup { None }]] /\ assigned'[b] = rows
      /\ \A c \in Branches : c # b => assigned'[c] = assigned[c]
  BY <1>5 DEF RowsInv, RowsFit
<1>7. branch[b] \in BranchRow
  BY <1>2, <1>4 DEF TransactionFits, RowsInv, RowsFit
<1>8. /\ branch' \in [Branches -> BranchRow \cup { None }] /\ branch'[b] # None /\ branch'[b].primary = p
      /\ \A c \in Branches : c # b => branch'[c] = branch[c]
  <2> DEFINE e == [branch[b] EXCEPT !.primary = p]
  <2>0. e \in BranchRow /\ e.primary = p
    BY <1>7 DEF BranchRow
  <2>1. PICK r \in BranchRow : r = e /\ r.primary = p
    BY <2>0
  <2>2. branch' = [branch EXCEPT ![b] = r]
    BY <1>5, <2>1
  <2>3. branch \in [Branches -> BranchRow \cup { None }] /\ r # None
    BY FrontAssumption DEF RowsInv, RowsFit
  <2>4. branch' \in [Branches -> BranchRow \cup { None }] /\ branch'[b] = r /\ \A c \in Branches : c # b => branch'[c] = branch[c]
    BY <2>2, <2>3
  <2>5. r.primary = p
    BY <2>1
  <2>6. QED
    BY <2>3, <2>4, <2>5
<1>9. \A v \in Writers : tx[v] # None => tx[v] \in Transaction /\ TransactionFits(tx[v])
  BY DEF RowsInv, RowsFit
<1>10. ASSUME NEW v \in Writers
       PROVE  tx'[v] = IF v = w THEN None
                       ELSE IF tx[v] # None /\ tx[v].branch = b THEN [tx[v] EXCEPT !.overtaken = TRUE] ELSE tx[v]
  BY <1>1, <1>2, <1>5 DEF Others
<1>11. ASSUME NEW v \in Writers, tx[v] # None
       PROVE  [tx[v] EXCEPT !.overtaken = TRUE] \in Transaction
  BY <1>9, <1>11 DEF Transaction
<1>12. tx' \in [Writers -> Transaction \cup { None }]
  <2>1. DOMAIN tx' = Writers /\ tx' = [v \in Writers |-> tx'[v]]
    BY <1>5
  <2>2. \A v \in Writers : tx'[v] \in Transaction \cup { None }
    BY <1>9, <1>10, <1>11
  <2>3. QED
    BY <2>1, <2>2
<1>13. \A t \in Types : assigned[b][t] # None => rows[t] # None
  <2>1. \A t \in Types : t # x.type => After(x)[t] = assigned[b][t]
    BY <1>2, AfterIs DEF RowsInv
  <2>2. After(x)[x.type] # None
    BY AfterIs, RowIs, FrontAssumption DEF RowsInv
  <2>3. QED
    BY <1>1, <2>1, <2>2
<1>14. ASSUME NEW t \in Types, rows[t] # None PROVE storeType[t] # None
  <2>1. After(x)[t] # None
    BY <1>1, <1>14
  <2>2. CASE t = x.type
    BY <1>4, <2>2 DEF TransactionFits
  <2>3. CASE t # x.type
    BY <1>2, <2>1, <2>3, AfterIs DEF RowsInv, RowsFit
  <2>4. QED
    BY <2>2, <2>3
<1>15. RowsFit'
  <2>1. raced' \subseteq Branches
    BY <1>5 DEF RowsInv, RowsFit
  <2>2. \A c \in Branches, t \in Types : assigned'[c][t] # None => storeType[t] # None /\ branch'[c] # None
    BY <1>6, <1>8, <1>14 DEF RowsInv, RowsFit
  <2>3. QED
    BY <1>5, <1>6, <1>8, <1>12, <2>1, <2>2 DEF RowsInv, RowsFit
<1>16. ASSUME NEW v \in Writers, tx'[v] # None PROVE TransactionFits(tx[v])'
  <2>1. v # w /\ tx[v] # None
    BY <1>10, <1>16, <1>11
  <2>2. PICK y \in Transaction : y = tx[v] /\ TransactionFits(y)
    BY <1>9, <2>1
  <2>3. y.branch \in Branches /\ y.type \in Types /\ y.chosen \in Types \cup { None } /\ y.cleared \subseteq Types
    BY DEF Transaction
  <2>4. CASE y.branch # b
    <3>1. tx'[v] = y
      BY <1>10, <2>1, <2>2, <2>4
    <3>2. assigned'[y.branch] = assigned[y.branch] /\ branch'[y.branch] = branch[y.branch]
      BY <1>6, <1>8, <2>3, <2>4
    <3>3. After(y)' = After(y)
      BY <3>2 DEF After
    <3>4. TransactionFits(y)'
      BY <1>5, <2>2, <3>2, <3>3 DEF TransactionFits
    <3>5. QED
      BY <3>1, <3>4
  <2>5. CASE y.branch = b
    <3>1. PICK z \in Transaction : z = [y EXCEPT !.overtaken = TRUE]
      BY <1>11, <2>1, <2>2
    <3>2. tx'[v] = z
      BY <1>10, <2>1, <2>2, <2>5, <3>1
    <3>3. /\ z.overtaken /\ z.branch = b /\ z.type = y.type /\ z.chosen = y.chosen /\ z.cleared = y.cleared
          /\ z.op = y.op /\ z.step = y.step /\ z.status = y.status /\ z.mark = y.mark /\ z.seen = y.seen
      BY <2>5, <3>1 DEF Transaction
    <3>4. RowOf(z) = RowOf(y) /\ RowOf(y) # None
      BY <3>3, RowIs, FrontAssumption DEF RowOf, Mark
    <3>5. ASSUME NEW t \in Types, After(y)[t] # None PROVE After(z)'[t] # None
      <4>1. After(z)' = [rows EXCEPT ![y.type] = RowOf(y)]
        <5>1. After(z)' = [assigned'[b] EXCEPT ![y.type] = RowOf(y)]
          BY <3>3, <3>4 DEF After
        <5>2. QED
          BY <1>6, <5>1
      <4>2. After(z)'[t] = IF t = y.type THEN RowOf(y) ELSE rows[t]
        BY <4>1
      <4>3. t # y.type => assigned[b][t] # None
        BY <2>5, <3>5, AfterIs DEF RowsInv
      <4>4. QED
        BY <1>13, <3>4, <4>2, <4>3
    <3>6. TransactionFits(z)'
      <4>1. storeType'[z.type] # None /\ branch'[z.branch] # None
        BY <1>5, <1>8, <2>2, <3>3 DEF TransactionFits
      <4>2. z.chosen # None => After(z)'[z.chosen] # None
        BY <2>2, <2>3, <3>3, <3>5 DEF TransactionFits
      <4>3. \A t \in z.cleared : After(z)'[t] # None
        BY <2>2, <2>3, <3>3, <3>5 DEF TransactionFits
      <4>4. QED
        BY <2>2, <3>3, <4>1, <4>2, <4>3 DEF TransactionFits
    <3>7. QED
      BY <3>2, <3>6
  <2>6. QED
    BY <2>4, <2>5
<1>17. ASSUME NEW c \in Branches, c \notin raced' PROVE BranchAgrees(c)'
  <2>1. CASE c = b
    <3>1. ~x.overtaken /\ (x.op = "request" => b \notin raced)
      BY <1>3, <1>5, <1>17, <2>1
    <3>2. RowsAgree(rows, p)
      BY <1>1, <1>2, <3>1
    <3>3. QED
      BY <1>6, <1>8, <2>1, <3>2 DEF BranchAgrees
  <2>2. CASE c # b
    <3>1. BranchAgrees(c)
      BY <1>3, <1>5, <1>17, <2>2 DEF RowsInv
    <3>2. QED
      BY <1>6, <1>8, <2>2, <3>1 DEF BranchAgrees
  <2>3. QED
    BY <2>1, <2>2
<1>18. QED
  BY <1>15, <1>16, <1>17 DEF RowsInv

-----------------------------------------------------------------------------
(* The operations.                                                          *)

LEMMA StoreTypeStep ==
  ASSUME RowsInv, CacheFits, menu' = menu, NEW w \in Writers, NEW t \in Types,
         CreateStoreType(w, t) \/ UpdateStoreType(w, t) \/ ArchiveStoreType(w, t) \/ ActivateStoreType(w, t)
  PROVE  RowsInv' /\ CacheFits'
<1>1. storeType \in [Types -> BOOLEAN \cup { None }]
  BY DEF RowsInv, RowsFit
<1>2. PICK active \in BOOLEAN :
        /\ storeType' = [storeType EXCEPT ![t] = active] /\ UNCHANGED <<assigned, branch, tx, raced>>
        /\ \/ storeType[t] = None /\ Publish(w, { TypeListKey, DiscoveryKey }, {})
           \/ Publish(w, TypeKeys(t), { MenuKey(b) : b \in Branches })
  BY DEF CreateStoreType, UpdateStoreType, ArchiveStoreType, ActivateStoreType, SetActive
<1>3. storeType' \in [Types -> BOOLEAN \cup { None }] /\ storeType'[t] = active
      /\ \A u \in Types : u # t => storeType'[u] = storeType[u]
  BY <1>1, <1>2
<1>4. RowsInv'
  BY <1>2, <1>3, FrontAssumption, StoreTypesMove
<1>5. CASE storeType[t] = None /\ Publish(w, { TypeListKey, DiscoveryKey }, {})
  <2>1. \A b \in Branches : MenuEntry(b)' = MenuEntry(b)
    <3>1. \A b \in Branches : t \notin Approved(b)
      BY <1>5 DEF RowsInv, RowsFit, Approved, HasStatus
    <3>2. \A b \in Branches : Approved(b)' = Approved(b)
      BY <1>2 DEF Approved
    <3>3. \A b \in Branches : Listed(b)' = Listed(b)
      BY <1>3, <3>1, <3>2 DEF Listed, ActiveTypes
    <3>4. QED
      BY <1>2, <3>3 DEF MenuEntry
  <2>2. ASSUME NEW k \in Keys, FreshFront(k)' # FreshFront(k), k \notin { TypeListKey, DiscoveryKey }
        PROVE  FreshFront(k) = None
    <3>1. PICK u \in Types : k = StoreTypeKey(u) /\ storeType'[u] # storeType[u]
      BY <1>2, <2>1, <2>2, ChangesCome
    <3>2. QED
      BY <1>3, <1>5, <3>1 DEF FreshFront, StoreTypeKey
  <2>3. { TypeListKey, DiscoveryKey } \in SUBSET FrontKeys /\ {} \in SUBSET FrontKeys
    BY DEF FrontKeys
  <2>4. CacheFits'
    BY <1>5, <2>2, <2>3, WriteIsPublished
  <2>5. QED
    BY <1>4, <2>4
<1>6. CASE Publish(w, TypeKeys(t), { MenuKey(b) : b \in Branches })
  <2>1. ASSUME NEW k \in Keys, FreshFront(k)' # FreshFront(k)
        PROVE  k \in TypeKeys(t) \cup { MenuKey(b) : b \in Branches }
    <3>1. \A u \in Types : storeType'[u] # storeType[u] => u = t
      BY <1>3
    <3>2. QED
      BY <1>2, <2>1, <3>1, ChangesCome DEF TypeKeys
  <2>2. TypeKeys(t) \in SUBSET FrontKeys /\ { MenuKey(b) : b \in Branches } \in SUBSET FrontKeys
    BY DEF FrontKeys, TypeKeys
  <2>3. CacheFits'
    BY <1>6, <2>1, <2>2, WriteIsPublished
  <2>4. QED
    BY <1>4, <2>3
<1>7. QED
  BY <1>2, <1>5, <1>6

LEMMA BranchStep ==
  ASSUME RowsInv, CacheFits, menu' = menu, NEW w \in Writers, NEW b \in Branches, CreateBranch(w, b) \/ UpdateBranch(w, b)
  PROVE  RowsInv' /\ CacheFits'
<1>1. branch \in [Branches -> BranchRow \cup { None }]
  BY DEF RowsInv, RowsFit
<1>2. UNCHANGED <<storeType, assigned, tx, raced>>
  BY DEF CreateBranch, UpdateBranch
<1>3. PICK r \in BranchRow :
        /\ branch' = [branch EXCEPT ![b] = r] /\ r.primary = IF branch[b] = None THEN None ELSE branch[b].primary
        /\ \/ branch[b] = None /\ Publish(w, { BranchKey(b) }, {})
           \/ branch[b] # None /\ Publish(w, { BranchKey(b), DiscoveryKey }, { MenuKey(b) })
  <2>1. CASE CreateBranch(w, b)
    <3>1. PICK open \in BOOLEAN : branch' = [branch EXCEPT ![b] = [open |-> open, primary |-> None]]
      BY <2>1 DEF CreateBranch
    <3> DEFINE e == [open |-> open, primary |-> None]
    <3>0. e \in BranchRow /\ e.primary = None
      BY DEF BranchRow
    <3>2. PICK r \in BranchRow : r = e /\ r.primary = None
      BY <3>0
    <3>3. branch[b] = None /\ Publish(w, { BranchKey(b) }, {})
      BY <2>1 DEF CreateBranch
    <3>4. branch' = [branch EXCEPT ![b] = r]
      BY <3>1, <3>2
    <3>5. QED
      BY <3>2, <3>3, <3>4
  <2>2. CASE UpdateBranch(w, b)
    <3>1. PICK open \in BOOLEAN : branch' = [branch EXCEPT ![b].open = open]
      BY <2>2 DEF UpdateBranch
    <3>2. branch[b] # None /\ branch[b] \in BranchRow
      BY <1>1, <2>2 DEF UpdateBranch
    <3> DEFINE e == [branch[b] EXCEPT !.open = open]
    <3>3. e \in BranchRow /\ e.primary = branch[b].primary
      BY <3>2 DEF BranchRow
    <3>4. PICK r \in BranchRow : r = e /\ r.primary = branch[b].primary
      BY <3>3
    <3>5. QED
      BY <2>2, <3>1, <3>2, <3>4 DEF UpdateBranch
  <2>3. QED
    BY <2>1, <2>2
<1>4. RowsInv'
  BY <1>2, <1>3, BranchesMove
<1>5. \A c \in Branches : c # b => branch'[c] = branch[c]
  BY <1>1, <1>3
<1>6. \A c \in Branches : c # b => MenuEntry(c)' = MenuEntry(c)
  BY <1>2, <1>5 DEF MenuEntry, Listed, Approved, ActiveTypes, HasStatus
<1>7. CASE branch[b] = None /\ Publish(w, { BranchKey(b) }, {})
  <2>1. Discoverable' = Discoverable
    <3>1. \A t \in Types : assigned[b][t] = None
      BY <1>7 DEF RowsInv, RowsFit
    <3>2. Listed(b) = {}
      BY <3>1 DEF Listed, Approved, HasStatus
    <3>3. \A c \in Branches : Listed(c)' = Listed(c)
      BY <1>2 DEF Listed, Approved, ActiveTypes, HasStatus
    <3>4. { c \in Branches : branch[c] # None /\ branch[c].open /\ Listed(c) # {} }'
          = { c \in Branches : branch[c] # None /\ branch[c].open /\ Listed(c) # {} }
      BY <1>5, <3>2, <3>3
    <3>5. QED
      BY <1>2, <3>3, <3>4 DEF Discoverable
  <2>2. ASSUME NEW k \in Keys, FreshFront(k)' # FreshFront(k), k # BranchKey(b)
        PROVE  FreshFront(k) = None
    <3>1. k = DiscoveryKey => FreshFront(k) = Discoverable /\ FreshFront(k)' = Discoverable'
      BY DEF FreshFront, DiscoveryKey
    <3>2. k = MenuKey(b)
      BY <1>2, <1>5, <1>6, <2>1, <2>2, <3>1, ChangesCome
    <3>3. QED
      BY <1>7, <3>2 DEF FreshFront, MenuKey, MenuEntry
  <2>3. { BranchKey(b) } \in SUBSET FrontKeys /\ {} \in SUBSET FrontKeys
    BY DEF FrontKeys
  <2>4. CacheFits'
    BY <1>7, <2>2, <2>3, WriteIsPublished
  <2>5. QED
    BY <1>4, <2>4
<1>8. CASE Publish(w, { BranchKey(b), DiscoveryKey }, { MenuKey(b) })
  <2>1. ASSUME NEW k \in Keys, FreshFront(k)' # FreshFront(k) PROVE k \in { BranchKey(b), DiscoveryKey } \cup { MenuKey(b) }
    BY <1>2, <1>5, <1>6, <2>1, ChangesCome
  <2>2. { BranchKey(b), DiscoveryKey } \in SUBSET FrontKeys /\ { MenuKey(b) } \in SUBSET FrontKeys
    BY DEF FrontKeys
  <2>3. CacheFits'
    BY <1>8, <2>1, <2>2, WriteIsPublished
  <2>4. QED
    BY <1>4, <2>3
<1>9. QED
  BY <1>3, <1>7, <1>8

LEMMA MenuStep ==
  ASSUME RowsInv, CacheFits, NEW w \in Writers, NEW b \in Branches, NEW m, PutMenu(w, b, m), DOMAIN menu = Branches
  PROVE  RowsInv' /\ CacheFits'
<1>1. menu' = [menu EXCEPT ![b] = m] /\ UNCHANGED <<storeType, assigned, branch, tx, raced>> /\ Publish(w, { MenuKey(b) }, {})
  BY DEF PutMenu, frontVars
<1>2. RowsInv'
  <2>1. \A x : TransactionFits(x) => TransactionFits(x)'
    BY <1>1 DEF TransactionFits, After
  <2>2. RowsFit'
    BY <1>1 DEF RowsInv, RowsFit
  <2>3. QED
    BY <1>1, <2>1, <2>2 DEF RowsInv, BranchAgrees
<1>3. \A c \in Branches : c # b => MenuEntry(c)' = MenuEntry(c)
  BY <1>1 DEF MenuEntry, Listed, Approved, ActiveTypes, HasStatus
<1>4. Discoverable' = Discoverable
  BY <1>1 DEF Discoverable, Listed, Approved, ActiveTypes, HasStatus
<1>5. ASSUME NEW k \in Keys, FreshFront(k)' # FreshFront(k) PROVE k \in { MenuKey(b) } \cup {}
  <2>1. k = DiscoveryKey => FreshFront(k) = Discoverable /\ FreshFront(k)' = Discoverable'
    BY DEF FreshFront, DiscoveryKey
  <2>2. QED
    BY <1>1, <1>3, <1>4, <1>5, <2>1, ChangesCome
<1>6. { MenuKey(b) } \in SUBSET FrontKeys /\ {} \in SUBSET FrontKeys
  BY DEF FrontKeys
<1>7. CacheFits'
  BY <1>1, <1>5, <1>6, WriteIsPublished
<1>8. QED
  BY <1>2, <1>7

\* The row a transaction begins with.
LEMMA BeginStep ==
  ASSUME RowsInv, NEW w \in Writers, NEW b \in Branches, NEW t \in Types,
         BeginAssign(w, b, t) \/ BeginLifecycle(w, b, t) \/ BeginRequest(w, b, t)
  PROVE  RowsInv' /\ UNCHANGED <<storeType, assigned, branch, raced, cacheVars>>
<1>1. PICK op \in { "assign", "lifecycle", "request" }, status \in Status, mark \in BOOLEAN \cup { None } :
        /\ Start(w, op, b, t, status, mark) /\ storeType[t] # None
        /\ op = "request" => status = "PENDING" /\ ~HasStatus(assigned[b][t], "APPROVED")
  <2>1. CASE BeginAssign(w, b, t)
    <3>1. PICK status \in Status, mark \in { TRUE, FALSE, None } : Start(w, "assign", b, t, status, mark)
      BY <2>1 DEF BeginAssign
    <3>2. storeType[t] # None
      BY <2>1, FrontAssumption DEF BeginAssign
    <3>3. QED
      BY <3>1, <3>2
  <2>2. CASE BeginLifecycle(w, b, t)
    <3>1. storeType[t] # None
      BY <2>2 DEF BeginLifecycle, RowsInv, RowsFit
    <3>2. PICK status \in Status, mark \in { TRUE, FALSE, None } : Start(w, "lifecycle", b, t, status, mark)
      BY <2>2 DEF BeginLifecycle, Status
    <3>3. QED
      BY <3>1, <3>2
  <2>3. CASE BeginRequest(w, b, t)
    <3>1. Start(w, "request", b, t, "PENDING", FALSE) /\ ~HasStatus(assigned[b][t], "APPROVED")
      BY <2>3 DEF BeginRequest
    <3>2. storeType[t] # None
      BY <2>3, FrontAssumption DEF BeginRequest
    <3>3. "PENDING" \in Status /\ FALSE \in BOOLEAN \cup { None }
      BY DEF Status
    <3>4. QED
      BY <3>1, <3>2, <3>3
  <2>4. QED
    BY <2>1, <2>2, <2>3
<1>2. assigned[b][t] \in Assignment \cup { None }
  BY DEF RowsInv, RowsFit
<1> DEFINE e == [op |-> op, branch |-> b, type |-> t, seen |-> assigned[b][t], status |-> status, mark |-> mark,
                 step |-> "read", chosen |-> None, cleared |-> {}, overtaken |-> FALSE]
<1>3. e \in Transaction
  BY <1>2 DEF Transaction
<1>4. PICK x \in Transaction :
        /\ x = e /\ x.op = op /\ x.branch = b /\ x.type = t /\ x.seen = assigned[b][t] /\ x.status = status
        /\ x.step = "read" /\ x.chosen = None /\ x.cleared = {}
  BY <1>3
<1>5. /\ tx' = [tx EXCEPT ![w] = x] /\ branch[b] # None
      /\ UNCHANGED <<storeType, assigned, branch, raced, cacheVars>>
  BY <1>1, <1>4 DEF Start
<1> HIDE DEF e
<1>6. TransactionFits(x)
  BY <1>1, <1>4, <1>5 DEF TransactionFits
<1>7. QED
  BY <1>5, <1>6, TransactionsMove

\* Another step of a transaction.
LEMMA TransactionStep ==
  ASSUME RowsInv, NEW w \in Writers, Save(w) \/ ListApproved(w) \/ ClearMarks(w) \/ RollBack(w)
  PROVE  RowsInv' /\ UNCHANGED <<storeType, assigned, branch, raced, cacheVars>>
<1>1. tx[w] # None /\ UNCHANGED <<storeType, assigned, branch, raced, cacheVars>>
  BY DEF Save, ListApproved, ClearMarks, RollBack, Step
<1>2. PICK x \in Transaction : x = tx[w] /\ TransactionFits(x)
  BY <1>1 DEF RowsInv, RowsFit
<1>3. Seen(w) = After(x)
  BY <1>2, SeenIs
<1>4. /\ After(x) \in [Types -> Assignment \cup { None }] /\ x.type \in Types /\ x.op \in { "assign", "lifecycle", "request" }
      /\ x.step \in { "read", "saved", "listed", "cleared" }
  BY AfterIs DEF RowsInv, Transaction
<1>5. CASE RollBack(w)
  BY <1>1, <1>5, TransactionsMove DEF RollBack
<1>6. CASE Save(w)
  <2> DEFINE e == [x EXCEPT !.step = "saved"]
  <2>0. e \in Transaction
    BY DEF Transaction
  <2>1. PICK y \in Transaction :
          /\ y = e /\ y.step = "saved" /\ After(y) = After(x) /\ y.chosen = x.chosen
          /\ y.cleared = x.cleared /\ y.op = x.op /\ y.status = x.status /\ y.overtaken = x.overtaken
          /\ y.seen = x.seen /\ y.type = x.type /\ y.branch = x.branch
    BY <2>0 DEF Transaction, After, RowOf, Mark
  <2>2. tx' = [tx EXCEPT ![w] = y]
    BY <1>2, <1>6, <2>1 DEF Save, Step
  <2>3. TransactionFits(y)
    BY <1>2, <2>1 DEF TransactionFits
  <2>4. QED
    BY <1>1, <2>2, <2>3, TransactionsMove
<1>7. CASE ListApproved(w)
  <2>1. PICK t \in Choosable(After(x)) : Step(w, "saved", [x EXCEPT !.step = "listed", !.chosen = t])
    <3>1. { t \in WithStatus(After(x), "APPROVED") : After(x)[t].primary } = WithStatus(After(x), "APPROVED") \cap Marks(After(x))
      BY DEF WithStatus, HasStatus, Marks
    <3>2. Candidates(w) = Choosable(After(x))
      BY <1>3, <3>1 DEF Candidates, Choosable, WithStatus
    <3>3. QED
      BY <1>2, <1>7, <3>2 DEF ListApproved
  <2>2. t \in Types \cup { None } /\ (t # None => After(x)[t] # None)
    BY DEF Choosable, WithStatus, HasStatus
  <2> DEFINE e == [x EXCEPT !.step = "listed", !.chosen = t]
  <2>3. e \in Transaction
    BY <2>2 DEF Transaction
  <2>4. PICK y \in Transaction :
          /\ y = e /\ y.step = "listed" /\ After(y) = After(x) /\ y.chosen = t
          /\ y.cleared = x.cleared /\ y.op = x.op /\ y.status = x.status /\ y.overtaken = x.overtaken
          /\ y.seen = x.seen /\ y.type = x.type /\ y.branch = x.branch
    <3>1. /\ e.step = "listed" /\ e.chosen = t /\ e.cleared = x.cleared /\ e.op = x.op /\ e.status = x.status
          /\ e.overtaken = x.overtaken /\ e.seen = x.seen /\ e.type = x.type /\ e.branch = x.branch /\ e.mark = x.mark
      BY DEF Transaction
    <3> HIDE DEF e
    <3>2. After(e) = After(x)
      BY <3>1 DEF After, RowOf, Mark
    <3>3. QED
      BY <2>3, <3>1, <3>2
  <2>5. tx' = [tx EXCEPT ![w] = y] /\ x.op # "request"
    BY <1>2, <1>7, <2>1, <2>4 DEF Step, ListApproved
  <2> HIDE DEF e
  <2>6. TransactionFits(y)
    BY <1>2, <2>1, <2>2, <2>4, <2>5 DEF TransactionFits
  <2>7. QED
    BY <1>1, <2>5, <2>6, TransactionsMove
<1>8. CASE ClearMarks(w)
  <2>1. tx' = [tx EXCEPT ![w] = [x EXCEPT !.step = "cleared", !.cleared = Marks(After(x))]] /\ x.step = "listed"
    BY <1>2, <1>3, <1>8 DEF ClearMarks, Step, Marks
  <2>2. PICK m \in SUBSET Types : m = Marks(After(x))
    BY DEF Marks
  <2> DEFINE e == [x EXCEPT !.step = "cleared", !.cleared = m]
  <2>3. e \in Transaction
    BY <2>2 DEF Transaction
  <2>4. PICK y \in Transaction :
          /\ y = e /\ y.step = "cleared" /\ After(y) = After(x) /\ y.chosen = x.chosen
          /\ y.cleared = m /\ y.op = x.op /\ y.status = x.status /\ y.overtaken = x.overtaken
          /\ y.seen = x.seen /\ y.type = x.type /\ y.branch = x.branch
    BY <2>3 DEF Transaction, After, RowOf, Mark
  <2>5. tx' = [tx EXCEPT ![w] = y]
    BY <2>1, <2>2, <2>4
  <2> HIDE DEF e
  <2>6. \A t \in m : After(x)[t] # None
    BY <2>2 DEF Marks
  <2>7. TransactionFits(y)
    BY <1>2, <2>1, <2>2, <2>4, <2>6 DEF TransactionFits
  <2>8. QED
    BY <1>1, <2>5, <2>7, TransactionsMove
<1>9. QED
  BY <1>5, <1>6, <1>7, <1>8

\* The entries that a transaction touches.
LEMMA FinishIsPublished ==
  ASSUME RowsInv, CacheFits, menu' = menu, NEW w \in Writers, NEW x \in Transaction, x = tx[w],
         NEW rows, NEW p, Finish(w, rows, p), NEW d \in SUBSET FrontKeys, NEW f \in SUBSET FrontKeys, Publish(w, d, f),
         { BranchKey(x.branch), MenuKey(x.branch), DiscoveryKey } \subseteq d \cup f
  PROVE  CacheFits'
<1>1. PICK b \in Branches : b = x.branch
  BY DEF Transaction
<1>2. assigned' = [assigned EXCEPT ![b] = rows] /\ branch' = [branch EXCEPT ![b].primary = p] /\ storeType' = storeType
  BY <1>1 DEF Finish
<1>3. \A c \in Branches : c # b => assigned'[c] = assigned[c] /\ branch'[c] = branch[c]
  BY <1>2 DEF RowsInv, RowsFit
<1>4. \A c \in Branches : c # b => MenuEntry(c)' = MenuEntry(c)
  BY <1>2, <1>3 DEF MenuEntry, Listed, Approved, ActiveTypes, HasStatus
<1>5. ASSUME NEW k \in Keys, FreshFront(k)' # FreshFront(k) PROVE k \in d \cup f
  BY <1>1, <1>2, <1>3, <1>4, <1>5, ChangesCome
<1>6. QED
  BY <1>5, WriteIsPublished

LEMMA MarkPrimaryStep ==
  ASSUME RowsInv, CacheFits, menu' = menu, NEW w \in Writers, MarkPrimary(w) PROVE RowsInv' /\ CacheFits'
<1>1. PICK x \in Transaction : x = tx[w] /\ TransactionFits(x) /\ x.step = "cleared"
  BY DEF MarkPrimary, RowsInv, RowsFit
<1>2. /\ After(x) \in [Types -> Assignment \cup { None }] /\ x.chosen \in Types \cup { None } /\ x.cleared \in SUBSET Types
      /\ x.op \in { "assign", "lifecycle", "request" } /\ x.branch \in Branches
  BY AfterIs DEF RowsInv, Transaction
<1>3. x.op # "request" /\ (x.chosen # None => After(x)[x.chosen] # None) /\ \A t \in x.cleared : After(x)[t] # None
  BY <1>1 DEF TransactionFits
<1>4. PICK rows \in [Types -> Assignment \cup { None }] :
        rows = Settled(After(x), x.chosen, x.cleared) /\ \A t \in Types : rows[t] # None <=> After(x)[t] # None
  BY <1>2, <1>3, SettledFit
<1>5. Finish(w, rows, x.chosen) /\ Publish(w, Deletes(x.op), Forgotten(x.op, x.branch))
  <2>1. Seen(w) = After(x)
    BY <1>1, SeenIs
  <2>2. QED
    BY <1>1, <1>4, <2>1 DEF MarkPrimary, Settled
<1>6. ~x.overtaken => RowsAgree(rows, x.chosen)
  <2> SUFFICES ASSUME ~x.overtaken PROVE RowsAgree(rows, x.chosen)
    OBVIOUS
  <2>1. x.chosen \in Choosable(After(x)) /\ x.cleared = Marks(After(x))
    BY <1>1 DEF TransactionFits
  <2>2. QED
    BY <1>2, <1>4, <2>1, SettledAgree
<1>7. RowsInv'
  <2>1. tx[w] # None
    BY <1>1, FrontAssumption
  <2>2. QED
    BY <1>1, <1>2, <1>4, <1>5, <1>6, <2>1, FinishMoves
<1>8. CacheFits'
  <2>1. PICK d \in SUBSET FrontKeys : d = Deletes(x.op)
    BY DEF Deletes, FrontKeys
  <2>2. PICK f \in SUBSET FrontKeys : f = Forgotten(x.op, x.branch)
    BY <1>2 DEF Forgotten, FrontKeys
  <2>3. { BranchKey(x.branch), MenuKey(x.branch), DiscoveryKey } \subseteq d \cup f
    BY <2>1, <2>2 DEF Deletes, Forgotten
  <2>4. Publish(w, d, f)
    BY <1>5, <2>1, <2>2
  <2>5. QED
    BY <1>1, <1>5, <2>3, <2>4, FinishIsPublished
<1>9. QED
  BY <1>7, <1>8

LEMMA RequestStep ==
  ASSUME RowsInv, CacheFits, menu' = menu, NEW w \in Writers, CommitRequest(w) PROVE RowsInv' /\ CacheFits'
<1>1. PICK x \in Transaction : x = tx[w] /\ TransactionFits(x) /\ x.op = "request"
  BY DEF CommitRequest, RowsInv, RowsFit
<1>2. PICK b \in Branches, t \in Types : b = x.branch /\ t = x.type
  BY DEF Transaction
<1>3. branch[b] \in BranchRow /\ assigned[b] \in [Types -> Assignment \cup { None }]
  BY <1>1, <1>2 DEF TransactionFits, RowsInv, RowsFit
<1>4. PICK p \in Types \cup { None } : p = branch[b].primary
  BY <1>3 DEF BranchRow
<1>5. PICK rows \in [Types -> Assignment \cup { None }] :
        /\ rows = After(x) /\ rows[t] = RowOf(x) /\ \A u \in Types : u # t => rows[u] = assigned[b][u]
  BY <1>2, AfterIs DEF RowsInv
<1>6. Finish(w, rows, p) /\ Publish(w, {}, Forgotten("request", x.branch))
  <2>1. Seen(w) = After(x)
    BY <1>1, SeenIs
  <2>2. QED
    BY <1>1, <1>2, <1>4, <1>5, <2>1 DEF CommitRequest
<1>7. ~x.overtaken /\ b \notin raced => RowsAgree(rows, p)
  <2> SUFFICES ASSUME ~x.overtaken, b \notin raced PROVE RowsAgree(rows, p)
    OBVIOUS
  <2>1. RowsAgree(assigned[b], p)
    BY <1>1, <1>2, <1>4 DEF RowsInv, BranchAgrees, TransactionFits
  <2>2. ~HasStatus(assigned[b][t], "APPROVED") /\ x.status = "PENDING"
    BY <1>1, <1>2 DEF TransactionFits
  <2>3. RowOf(x).status = "PENDING" /\ ~RowOf(x).primary
    <3> DEFINE m == x.status = "APPROVED" /\ Mark(x)
    <3>1. m = FALSE
      BY <2>2
    <3>2. RowOf(x) = [status |-> x.status, primary |-> m]
      BY DEF RowOf
    <3> HIDE DEF m
    <3>3. QED
      BY <2>2, <3>1, <3>2
  <2>4. WithStatus(rows, "APPROVED") = WithStatus(assigned[b], "APPROVED")
    <3>1. ~HasStatus(rows[t], "APPROVED")
      BY <1>5, <2>2, <2>3 DEF HasStatus
    <3>2. \A u \in Types : HasStatus(rows[u], "APPROVED") <=> HasStatus(assigned[b][u], "APPROVED")
      <4>1. ASSUME NEW u \in Types PROVE HasStatus(rows[u], "APPROVED") <=> HasStatus(assigned[b][u], "APPROVED")
        <5>1. CASE u = t
          BY <2>2, <3>1, <5>1
        <5>2. CASE u # t
          <6>1. rows[u] = assigned[b][u]
            BY <1>5, <5>2
          <6>2. QED
            BY <6>1
        <5>3. QED
          BY <5>1, <5>2
      <4>2. QED
        BY <4>1
    <3>3. QED
      BY <3>2 DEF WithStatus
  <2>5. t \notin Marks(assigned[b])
    BY <2>1, <2>2 DEF RowsAgree, WithStatus
  <2>6. Marks(rows) = Marks(assigned[b])
    BY <1>5, <2>3, <2>5 DEF Marks
  <2>7. QED
    BY <2>1, <2>4, <2>6 DEF RowsAgree
<1>8. RowsInv'
  <2>1. tx[w] # None
    BY <1>1, FrontAssumption
  <2>2. QED
    BY <1>1, <1>2, <1>5, <1>6, <1>7, <2>1, FinishMoves
<1>9. CacheFits'
  <2>1. PICK d \in SUBSET FrontKeys : d = {}
    OBVIOUS
  <2>2. PICK f \in SUBSET FrontKeys : f = Forgotten("request", x.branch)
    BY <1>2 DEF Forgotten, FrontKeys
  <2>3. { BranchKey(x.branch), MenuKey(x.branch), DiscoveryKey } \subseteq d \cup f
    BY <2>2 DEF Forgotten
  <2>4. Publish(w, d, f)
    BY <1>6, <2>1, <2>2
  <2>5. QED
    BY <1>1, <1>6, <2>3, <2>4, FinishIsPublished
<1>10. QED
  BY <1>8, <1>9

LEMMA FrontStep ==
  ASSUME RowsInv, CacheFits, FrontNext PROVE RowsInv' /\ CacheFits'
<1>1. menu' = menu
  BY DEF FrontNext
<1>2. ASSUME NEW w \in Writers, ManageTypes(w) \/ ManageBranches(w) PROVE RowsInv' /\ CacheFits'
  BY <1>1, <1>2, StoreTypeStep, BranchStep DEF ManageTypes, ManageBranches
<1>3. ASSUME NEW w \in Writers, ManageAssignments(w) PROVE RowsInv' /\ CacheFits'
  <2>1. CASE MarkPrimary(w) \/ CommitRequest(w)
    BY <1>1, <2>1, MarkPrimaryStep, RequestStep
  <2>2. CASE ~(MarkPrimary(w) \/ CommitRequest(w))
    <3>1. RowsInv' /\ UNCHANGED <<storeType, assigned, branch, raced, cacheVars>>
      BY <1>3, <2>2, BeginStep, TransactionStep DEF ManageAssignments
    <3>2. QED
      BY <1>1, <3>1, CacheStays
  <2>3. QED
    BY <2>1, <2>2
<1>4. ASSUME UNCHANGED frontVars PROVE RowsInv'
  <2>1. UNCHANGED <<storeType, assigned, branch, tx, raced>>
    BY <1>4 DEF frontVars
  <2>2. storeType' \in [Types -> BOOLEAN \cup { None }]
    BY <2>1 DEF RowsInv, RowsFit
  <2>3. QED
    BY <2>1, <2>2, StoreTypesMove
<1>5. ASSUME NEW r \in Readers, NEW k \in Keys, ReadFront(r, k) PROVE RowsInv' /\ CacheFits'
  <2>1. Miss(r, k, FreshFront(k)) /\ UNCHANGED frontVars
    BY <1>5 DEF ReadFront
  <2>2. QED
    BY <1>1, <1>4, <2>1, CacheStays DEF frontVars
<1>6. CASE CacheNext /\ UNCHANGED frontVars
  BY <1>1, <1>4, <1>6, CacheStays DEF frontVars
<1>7. QED
  BY <1>2, <1>3, <1>5, <1>6 DEF FrontNext

-----------------------------------------------------------------------------
(* With the menus.                                                          *)

FrontInv == RowsInv /\ CacheFits /\ DOMAIN menu = Branches

LEMMA FrontBegins == CatalogueInit => FrontInv
<1> SUFFICES ASSUME CatalogueInit PROVE FrontInv
  OBVIOUS
<1>1. FrontInit /\ DOMAIN menu = Branches
  BY DEF CatalogueInit
<1>2. CachesInit
  BY <1>1 DEF FrontInit
<1>3. RowsInv
  BY <1>1 DEF FrontInit, RowsInv, RowsFit, BranchAgrees
<1>4. CacheFits
  BY <1>2 DEF CachesInit, CacheFits, FrontCoherent
<1>5. QED
  BY <1>1, <1>3, <1>4 DEF FrontInv

\* An item that is filed is filed somewhere, and no two combinations are the same.
Consistent(m) ==
  /\ m.item # None /\ m.item.filed => m.category # None
  /\ \A u, v \in Variants :
       m.variant[u] # None /\ m.variant[v] # None /\ m.variant[u].choices = m.variant[v].choices => u = v

Ruled(b, m) ==
  /\ \A g \in OptionGroups : m.group[g] # None /\ <<b, g>> \notin crossed => Bounded(m.group[g])
  /\ m.item # None /\ <<b, "item">> \notin crossed => Meets(m.item.fields, m.item.scope)

\* What is edited is there, and an edit that nobody has overtaken has seen it.
GroupEditFits(e, m) ==
  /\ m.group[e.target] # None /\ e.seen \in Group /\ \A row \in Group : Merged(e.columns, row) \in Group
  /\ Bounded(Merged(e.columns, e.seen))
  /\ ~e.overtaken => e.seen = m.group[e.target]

ItemEditFits(e, m) ==
  /\ m.item # None /\ e.seen \in Item /\ \A row \in Item : Merged(e.columns, row) \in Item
  /\ ~e.overtaken => e.seen.scope = m.item.scope /\ e.seen.fields = m.item.fields

EditFits(e) ==
  /\ DOMAIN e = { "branch", "target", "seen", "columns", "overtaken" }
  /\ e.branch \in Branches /\ menu[e.branch] \in Menu
  /\ e.target \in OptionGroups => GroupEditFits(e, menu[e.branch])
  /\ e.target = "item" => ItemEditFits(e, menu[e.branch])
  /\ e.target \in Variants => e.columns \in Variant

CatalogueInv ==
  /\ FrontInv
  /\ menu \in [Branches -> Menu \cup { None }]
  /\ \A b \in Branches : menu[b] # None => Consistent(menu[b]) /\ Ruled(b, menu[b])
  /\ DOMAIN edit = Writers /\ \A w \in Writers : edit[w] # None => EditFits(edit[w])

LEMMA CatalogueBegins == CatalogueInit => CatalogueInv
<1> SUFFICES ASSUME CatalogueInit PROVE CatalogueInv
  OBVIOUS
<1>1. EmptyMenu \in Menu
  BY DEF EmptyMenu, Menu
<1>2. Consistent(EmptyMenu) /\ \A b \in Branches : Ruled(b, EmptyMenu)
  BY DEF EmptyMenu, Consistent, Ruled
<1>3. menu \in [Branches -> Menu \cup { None }] /\ edit = [w \in Writers |-> None]
      /\ \A b \in Branches : menu[b] # None => menu[b] = EmptyMenu
  BY <1>1 DEF CatalogueInit
<1>4. QED
  BY <1>2, <1>3, FrontBegins DEF CatalogueInv

\* An edit that is not of what has been written.
LEMMA EditStays ==
  ASSUME CatalogueInv, NEW b \in Branches, NEW m \in Menu, menu' = [menu EXCEPT ![b] = m], NEW e, EditFits(e),
         e.branch = b /\ e.target \in OptionGroups => m.group[e.target] = menu[b].group[e.target],
         e.branch = b /\ e.target = "item" =>
           m.item # None /\ m.item.scope = menu[b].item.scope /\ m.item.fields = menu[b].item.fields
  PROVE  EditFits(e)'
<1>1. e.branch \in Branches /\ menu'[e.branch] = IF e.branch = b THEN m ELSE menu[e.branch]
  BY DEF CatalogueInv, EditFits
<1>2. e.target \in OptionGroups => GroupEditFits(e, menu'[e.branch])
  BY <1>1 DEF EditFits, GroupEditFits
<1>3. e.target = "item" => ItemEditFits(e, menu'[e.branch])
  BY <1>1 DEF EditFits, ItemEditFits
<1>4. QED
  BY <1>1, <1>2, <1>3 DEF EditFits

\* One menu is written, and what else must hold then.
LEMMA MenuIsPut ==
  ASSUME CatalogueInv, NEW w \in Writers, NEW b \in Branches, NEW m \in Menu, PutMenu(w, b, m), Consistent(m), Ruled(b, m)',
         \A target : \A c \in Branches : c # b => (<<c, target>> \in crossed' <=> <<c, target>> \in crossed),
         DOMAIN edit' = Writers, \A v \in Writers : edit'[v] # None => EditFits(edit[v])'
  PROVE  CatalogueInv'
<1>1. menu' = [menu EXCEPT ![b] = m] /\ menu' \in [Branches -> Menu \cup { None }]
  BY DEF PutMenu, CatalogueInv
<1>2. FrontInv'
  BY <1>1, MenuStep DEF CatalogueInv, FrontInv
<1>3. ASSUME NEW c \in Branches, menu'[c] # None PROVE Consistent(menu'[c]) /\ Ruled(c, menu[c])'
  <2>1. CASE c = b
    <3>1. menu'[c] = m
      BY <1>1, <2>1
    <3>2. QED
      BY <2>1, <3>1 DEF Ruled
  <2>2. CASE c # b
    <3>1. menu'[c] = menu[c] /\ Consistent(menu[c]) /\ Ruled(c, menu[c])
      BY <1>1, <1>3, <2>2 DEF CatalogueInv
    <3>2. QED
      BY <2>2, <3>1 DEF Ruled
  <2>3. QED
    BY <2>1, <2>2
<1>4. QED
  BY <1>1, <1>2, <1>3 DEF CatalogueInv

LEMMA NowStep ==
  ASSUME CatalogueInv, NEW w \in Writers, NEW b \in Branches, menu[b] # None, NEW m \in Menu, Now(w, b, m), Consistent(m),
         \A g \in OptionGroups : m.group[g] = menu[b].group[g] \/ (menu[b].group[g] = None /\ Bounded(m.group[g])),
         IF menu[b].item = None THEN m.item = None \/ Meets(m.item.fields, m.item.scope)
         ELSE m.item # None /\ m.item.scope = menu[b].item.scope /\ m.item.fields = menu[b].item.fields
  PROVE  CatalogueInv'
<1>1. PutMenu(w, b, m) /\ edit' = edit /\ crossed' = crossed /\ menu' = [menu EXCEPT ![b] = m]
  BY DEF Now, PutMenu
<1>2. Ruled(b, menu[b])
  BY DEF CatalogueInv
<1>3. Ruled(b, m)'
  BY <1>1, <1>2 DEF Ruled
<1>4. ASSUME NEW e, EditFits(e) PROVE EditFits(e)'
  <2>1. e.branch = b /\ e.target \in OptionGroups => m.group[e.target] = menu[b].group[e.target]
    BY <1>4 DEF EditFits, GroupEditFits
  <2>2. e.branch = b /\ e.target = "item" => menu[b].item # None
    BY <1>4 DEF EditFits, ItemEditFits
  <2>3. QED
    BY <1>1, <1>4, <2>1, <2>2, EditStays
<1>5. DOMAIN edit' = Writers /\ \A v \in Writers : edit'[v] # None => EditFits(edit[v])'
  BY <1>1, <1>4 DEF CatalogueInv
<1>6. QED
  BY <1>1, <1>3, <1>5, MenuIsPut

\* What is written is neither an item, nor a group, nor a combination.
LEMMA OtherRowsStep ==
  ASSUME CatalogueInv, NEW w \in Writers, NEW b \in Branches, menu[b] # None, NEW m \in Menu, Now(w, b, m),
         m.group = menu[b].group, m.variant = menu[b].variant, m.item = menu[b].item,
         m.category = menu[b].category \/ m.category # None
  PROVE  CatalogueInv'
<1>1. Consistent(menu[b])
  BY DEF CatalogueInv
<1>2. Consistent(m)
  BY <1>1 DEF Consistent
<1>3. QED
  BY <1>2, NowStep

LEMMA CategoryStep ==
  ASSUME CatalogueInv, NEW w \in Writers, NEW b \in Branches, menu[b] # None, EditCategories(w, b) PROVE CatalogueInv'
<1>1. menu[b] \in Menu /\ Consistent(menu[b])
  BY DEF CatalogueInv
<1>2. ASSUME NEW category \in Category, Now(w, b, [menu[b] EXCEPT !.category = category]) PROVE CatalogueInv'
  <2> DEFINE m == [menu[b] EXCEPT !.category = category]
  <2>1. m \in Menu /\ m.group = menu[b].group /\ m.variant = menu[b].variant /\ m.item = menu[b].item /\ m.category # None
    BY <1>1, CatalogueAssumption DEF Menu
  <2> HIDE DEF m
  <2>2. Now(w, b, m)
    BY <1>2 DEF m
  <2>3. QED
    BY <2>1, <2>2, OtherRowsStep
<1>3. CASE SaveCategory(w, b)
  <2>1. PICK active \in BOOLEAN, scope \in Scopes(b) :
          Now(w, b, [menu[b] EXCEPT !.category = [active |-> active, scope |-> scope]])
    BY <1>3 DEF SaveCategory
  <2>2. [active |-> active, scope |-> scope] \in Category
    BY DEF Category, Scopes, Listed, Approved
  <2>3. QED
    BY <1>2, <2>1, <2>2
<1>4. CASE KeepScopeOfCategory(w, b)
  <2>1. PICK active \in BOOLEAN : Now(w, b, [menu[b] EXCEPT !.category.active = active])
    BY <1>4 DEF KeepScopeOfCategory
  <2>2. PICK category \in Category : category = menu[b].category
    BY <1>1, <1>4 DEF KeepScopeOfCategory, Menu
  <2>3. [category EXCEPT !.active = active] \in Category
    BY DEF Category
  <2>4. [menu[b] EXCEPT !.category.active = active] = [menu[b] EXCEPT !.category = [category EXCEPT !.active = active]]
    BY <1>1, <2>2 DEF Menu
  <2>5. QED
    BY <1>2, <2>1, <2>3, <2>4
<1>5. CASE DeleteCategory(w, b)
  <2> DEFINE item == IF menu[b].item = None THEN None ELSE [menu[b].item EXCEPT !.filed = FALSE]
             m == [menu[b] EXCEPT !.category = None, !.item = item]
  <2>1. Now(w, b, m)
    BY <1>5 DEF DeleteCategory
  <2>2. menu[b].item = None => item = None
    OBVIOUS
  <2>3. ASSUME menu[b].item # None
        PROVE  /\ item \in Item /\ item # None /\ ~item.filed
               /\ item.scope = menu[b].item.scope /\ item.fields = menu[b].item.fields
    <3>1. PICK old \in Item : old = menu[b].item
      BY <1>1, <2>3 DEF Menu
    <3>2. item = [old EXCEPT !.filed = FALSE]
      BY <2>3, <3>1
    <3>3. item \in Item /\ ~item.filed /\ item.scope = old.scope /\ item.fields = old.fields
      BY <3>2 DEF Item
    <3>4. QED
      BY <3>1, <3>3, CatalogueAssumption
  <2> HIDE DEF item
  <2>4. m \in Menu /\ m.group = menu[b].group /\ m.variant = menu[b].variant /\ m.item = item
    BY <1>1, <2>2, <2>3 DEF Menu
  <2> HIDE DEF m
  <2>5. Consistent(m)
    BY <1>1, <2>2, <2>3, <2>4 DEF Consistent
  <2>6. QED
    BY <2>1, <2>2, <2>3, <2>4, <2>5, NowStep
<1>6. QED
  BY <1>3, <1>4, <1>5 DEF EditCategories

LEMMA ChoiceStep ==
  ASSUME CatalogueInv, NEW w \in Writers, NEW b \in Branches, menu[b] # None, EditChoices(w, b) PROVE CatalogueInv'
<1>1. menu[b] \in Menu
  BY DEF CatalogueInv
<1>2. PICK c \in ItemOptions, active \in BOOLEAN \cup { None } : Now(w, b, [menu[b] EXCEPT !.choice[c] = active])
  BY DEF EditChoices, ToggleChoice, DeleteChoice
<1> DEFINE m == [menu[b] EXCEPT !.choice[c] = active]
<1>3. /\ m \in Menu /\ m.group = menu[b].group /\ m.variant = menu[b].variant /\ m.item = menu[b].item
      /\ m.category = menu[b].category
  BY <1>1 DEF Menu
<1> HIDE DEF m
<1>4. Now(w, b, m)
  BY <1>2 DEF m
<1>5. QED
  BY <1>3, <1>4, OtherRowsStep

LEMMA StockStep ==
  ASSUME CatalogueInv, NEW w \in Writers, NEW b \in Branches, menu[b] # None, StockMoves(w, b) PROVE CatalogueInv'
<1>1. menu[b] \in Menu
  BY DEF CatalogueInv
<1>2. PICK short \in SUBSET ({ "item" } \cup ItemOptions \cup Variants) : Now(w, b, [menu[b] EXCEPT !.short = short])
  <2>1. menu[b].short \in SUBSET ({ "item" } \cup ItemOptions \cup Variants)
    BY <1>1 DEF Menu
  <2>2. PICK what \in { "item" } \cup ItemOptions \cup Variants :
          \/ Now(w, b, [menu[b] EXCEPT !.short = @ \ { what }])
          \/ Now(w, b, [menu[b] EXCEPT !.short = @ \cup { what }])
    BY DEF StockMoves
  <2>3. QED
    BY <2>1, <2>2
<1> DEFINE m == [menu[b] EXCEPT !.short = short]
<1>3. /\ m \in Menu /\ m.group = menu[b].group /\ m.variant = menu[b].variant /\ m.item = menu[b].item
      /\ m.category = menu[b].category
  BY <1>1 DEF Menu
<1> HIDE DEF m
<1>4. Now(w, b, m)
  BY <1>2 DEF m
<1>5. QED
  BY <1>3, <1>4, OtherRowsStep

LEMMA CreateGroupStep ==
  ASSUME CatalogueInv, NEW w \in Writers, NEW b \in Branches, menu[b] # None, NEW g \in OptionGroups, CreateGroup(w, b, g)
  PROVE  CatalogueInv'
<1>1. menu[b] \in Menu /\ Consistent(menu[b])
  BY DEF CatalogueInv
<1>2. PICK row \in Group : Bounded(row) /\ Now(w, b, [menu[b] EXCEPT !.group[g] = row])
  BY DEF CreateGroup
<1> DEFINE m == [menu[b] EXCEPT !.group[g] = row]
<1>3. /\ m \in Menu /\ m.variant = menu[b].variant /\ m.item = menu[b].item /\ m.category = menu[b].category
      /\ m.group[g] = row /\ \A h \in OptionGroups : h # g => m.group[h] = menu[b].group[h]
  BY <1>1 DEF Menu
<1> HIDE DEF m
<1>4. Now(w, b, m) /\ menu[b].group[g] = None
  BY <1>2 DEF m, CreateGroup
<1>5. Consistent(m)
  BY <1>1, <1>3 DEF Consistent
<1>6. \A h \in OptionGroups : m.group[h] = menu[b].group[h] \/ (menu[b].group[h] = None /\ Bounded(m.group[h]))
  BY <1>2, <1>3, <1>4
<1>7. QED
  BY <1>3, <1>4, <1>5, <1>6, NowStep

LEMMA CreateItemStep ==
  ASSUME CatalogueInv, NEW w \in Writers, NEW b \in Branches, menu[b] # None, CreateItem(w, b) PROVE CatalogueInv'
<1>1. menu[b] \in Menu /\ Consistent(menu[b])
  BY DEF CatalogueInv
<1>2. PICK available \in BOOLEAN, filed \in BOOLEAN, scope \in Scopes(b), fields \in SUBSET Fields :
        /\ filed => menu[b].category # None
        /\ Meets(fields, EffectiveTypes(b, scope, {}))
        /\ Now(w, b, [menu[b] EXCEPT !.item = [available |-> available, filed |-> filed, scope |-> scope, fields |-> fields]])
  BY DEF CreateItem
<1>3. PICK item \in Item : item = [available |-> available, filed |-> filed, scope |-> scope, fields |-> fields]
  BY DEF Item, Scopes, Listed, Approved
<1>4. item.filed = filed /\ item.scope = scope /\ item.fields = fields
  BY <1>3
<1> DEFINE m == [menu[b] EXCEPT !.item = item]
<1>5. m \in Menu /\ m.group = menu[b].group /\ m.variant = menu[b].variant /\ m.category = menu[b].category /\ m.item = item
  BY <1>1 DEF Menu
<1> HIDE DEF m
<1>6. Now(w, b, m) /\ menu[b].item = None
  BY <1>2, <1>3 DEF m, CreateItem
<1>7. Consistent(m)
  BY <1>1, <1>2, <1>4, <1>5 DEF Consistent
<1>8. Meets(item.fields, item.scope)
  <2>1. scope # None
    BY CatalogueAssumption DEF Scopes, Listed, Approved
  <2>2. QED
    BY <1>2, <1>4, <2>1 DEF EffectiveTypes, Meets
<1>9. QED
  BY <1>5, <1>6, <1>7, <1>8, NowStep

\* A row is deleted, with the edits of it.
LEMMA DeleteStep ==
  ASSUME CatalogueInv, NEW w \in Writers, NEW b \in Branches, menu[b] # None, NEW m \in Menu, NEW target,
         Delete(w, b, m, target), Consistent(m),
         \A g \in OptionGroups : IF g = target THEN m.group[g] = None ELSE m.group[g] = menu[b].group[g],
         IF "item" = target THEN m.item = None ELSE m.item = menu[b].item
  PROVE  CatalogueInv'
<1>1. PutMenu(w, b, m) /\ crossed' = crossed \ { <<b, target>> } /\ menu' = [menu EXCEPT ![b] = m]
      /\ edit' = [u \in Writers |-> IF edit[u] # None /\ Edits(u, b, target) THEN None ELSE edit[u]]
  BY DEF Delete, PutMenu
<1>2. Ruled(b, menu[b])
  BY DEF CatalogueInv
<1>3. Ruled(b, m)'
  BY <1>1, <1>2 DEF Ruled
<1>4. ASSUME NEW v \in Writers, edit'[v] # None PROVE EditFits(edit[v])'
  <2>1. edit'[v] = edit[v] /\ edit[v] # None /\ ~(edit[v].branch = b /\ edit[v].target = target)
    BY <1>1, <1>4 DEF Edits
  <2>2. PICK e : e = edit[v]
    OBVIOUS
  <2>3. EditFits(e)
    BY <2>1, <2>2 DEF CatalogueInv
  <2>4. e.branch = b /\ e.target \in OptionGroups => m.group[e.target] = menu[b].group[e.target]
    BY <2>1, <2>2
  <2>5. e.branch = b /\ e.target = "item" =>
          m.item # None /\ m.item.scope = menu[b].item.scope /\ m.item.fields = menu[b].item.fields
    BY <2>1, <2>2, <2>3 DEF EditFits, ItemEditFits
  <2>6. EditFits(e)'
    BY <1>1, <2>3, <2>4, <2>5, EditStays
  <2>7. QED
    BY <2>1, <2>2, <2>6
<1>5. DOMAIN edit' = Writers
  BY <1>1
<1>6. \A x : \A c \in Branches : c # b => (<<c, x>> \in crossed' <=> <<c, x>> \in crossed)
  BY <1>1
<1>7. QED
  BY <1>1, <1>3, <1>4, <1>5, <1>6, MenuIsPut

LEMMA DeleteGroupStep ==
  ASSUME CatalogueInv, NEW w \in Writers, NEW b \in Branches, menu[b] # None, NEW g \in OptionGroups, DeleteGroup(w, b, g)
  PROVE  CatalogueInv'
<1>1. menu[b] \in Menu /\ Consistent(menu[b])
  BY DEF CatalogueInv
<1> DEFINE m == [menu[b] EXCEPT !.group[g] = None]
<1>2. /\ m \in Menu /\ m.variant = menu[b].variant /\ m.item = menu[b].item /\ m.category = menu[b].category
      /\ m.group[g] = None /\ \A h \in OptionGroups : h # g => m.group[h] = menu[b].group[h]
  BY <1>1 DEF Menu
<1>3. Delete(w, b, m, g)
  BY DEF DeleteGroup
<1> HIDE DEF m
<1>4. Consistent(m)
  BY <1>1, <1>2 DEF Consistent
<1>5. QED
  BY <1>2, <1>3, <1>4, DeleteStep, CatalogueAssumption

LEMMA DeleteItemStep ==
  ASSUME CatalogueInv, NEW w \in Writers, NEW b \in Branches, menu[b] # None, DeleteItem(w, b) PROVE CatalogueInv'
<1>1. menu[b] \in Menu /\ Consistent(menu[b])
  BY DEF CatalogueInv
<1> DEFINE m == [menu[b] EXCEPT !.item = None]
<1>2. m \in Menu /\ m.group = menu[b].group /\ m.variant = menu[b].variant /\ m.category = menu[b].category /\ m.item = None
  BY <1>1 DEF Menu
<1>3. Delete(w, b, m, "item")
  BY DEF DeleteItem
<1> HIDE DEF m
<1>4. Consistent(m)
  BY <1>1, <1>2 DEF Consistent
<1>5. QED
  BY <1>2, <1>3, <1>4, DeleteStep, CatalogueAssumption

\* An edit writes its row; the other edits of it are overtaken.
LEMMA CommitStep ==
  ASSUME CatalogueInv, NEW w \in Writers, edit[w] # None, NEW b \in Branches, NEW target,
         b = edit[w].branch, target = edit[w].target, NEW m \in Menu, Commit(w, m), Consistent(m), Ruled(b, m)',
         \A g \in OptionGroups : IF g = target THEN m.group[g] # None ELSE m.group[g] = menu[b].group[g],
         IF "item" = target THEN m.item # None ELSE m.item = menu[b].item
  PROVE  CatalogueInv'
<1>1. /\ PutMenu(w, b, m) /\ menu' = [menu EXCEPT ![b] = m]
      /\ crossed' = IF edit[w].overtaken THEN crossed \cup { <<b, target>> } ELSE crossed \ { <<b, target>> }
      /\ edit' = [v \in Writers |-> IF v = w \/ edit[v] = None THEN None
                                    ELSE IF Edits(v, b, target) THEN [edit[v] EXCEPT !.overtaken = TRUE] ELSE edit[v]]
  BY DEF Commit, PutMenu
<1>2. ASSUME NEW v \in Writers, edit'[v] # None PROVE EditFits(edit[v])'
  <2>1. PICK e : e = edit[v]
    OBVIOUS
  <2>2. e # None /\ EditFits(e)
    BY <1>1, <1>2, <2>1 DEF CatalogueInv
  <2>3. CASE e.branch = b /\ e.target = target
    <3>1. PICK f : f = [e EXCEPT !.overtaken = TRUE]
      OBVIOUS
    <3>2. edit'[v] = f
      BY <1>1, <1>2, <2>1, <2>3, <3>1 DEF Edits
    <3>3. /\ DOMAIN f = DOMAIN e /\ f.branch = b /\ f.target = target /\ f.seen = e.seen /\ f.columns = e.columns
          /\ f.overtaken = TRUE
      BY <2>2, <2>3, <3>1 DEF EditFits
    <3>4. menu'[b] = m
      BY <1>1 DEF CatalogueInv
    <3>5. target \in OptionGroups => GroupEditFits(f, m)
      BY <2>2, <2>3, <3>3 DEF EditFits, GroupEditFits
    <3>6. target = "item" => ItemEditFits(f, m)
      BY <2>2, <2>3, <3>3 DEF EditFits, ItemEditFits
    <3>7. EditFits(f)'
      BY <2>2, <2>3, <3>3, <3>4, <3>5, <3>6 DEF EditFits
    <3>8. QED
      BY <3>2, <3>7
  <2>4. CASE ~(e.branch = b /\ e.target = target)
    <3>1. edit'[v] = e
      BY <1>1, <1>2, <2>1, <2>4 DEF Edits
    <3>2. e.branch = b /\ e.target \in OptionGroups => m.group[e.target] = menu[b].group[e.target]
      BY <2>4
    <3>3. e.branch = b /\ e.target = "item" =>
            m.item # None /\ m.item.scope = menu[b].item.scope /\ m.item.fields = menu[b].item.fields
      BY <2>2, <2>4 DEF EditFits, ItemEditFits
    <3>4. EditFits(e)'
      BY <1>1, <2>2, <3>2, <3>3, EditStays
    <3>5. QED
      BY <3>1, <3>4
  <2>5. QED
    BY <2>3, <2>4
<1>3. DOMAIN edit' = Writers
  BY <1>1
<1>4. \A x : \A c \in Branches : c # b => (<<c, x>> \in crossed' <=> <<c, x>> \in crossed)
  BY <1>1
<1>5. QED
  BY <1>1, <1>2, <1>3, <1>4, MenuIsPut

LEMMA UpdateGroupStep ==
  ASSUME CatalogueInv, NEW w \in Writers, UpdateGroup(w) PROVE CatalogueInv'
<1>1. PICK e : e = edit[w]
  OBVIOUS
<1>2. e # None /\ e.target \in OptionGroups /\ EditFits(e)
  BY <1>1 DEF UpdateGroup, CatalogueInv
<1>3. PICK b \in Branches, g \in OptionGroups : b = e.branch /\ g = e.target
  BY <1>2 DEF EditFits
<1>4. menu[b] \in Menu /\ GroupEditFits(e, menu[b])
  BY <1>2, <1>3 DEF EditFits
<1>5. menu[b] # None /\ Consistent(menu[b]) /\ Ruled(b, menu[b])
  BY <1>4, CatalogueAssumption DEF CatalogueInv
<1>6. menu[b].group[g] \in Group
  BY <1>3, <1>4 DEF GroupEditFits, Menu
<1>7. PICK row \in Group : row = Merged(e.columns, menu[b].group[g])
  BY <1>4, <1>6 DEF GroupEditFits
<1>8. PICK m \in Menu : m = [menu[b] EXCEPT !.group[g] = row]
  BY <1>4 DEF Menu
<1>9. /\ m.variant = menu[b].variant /\ m.item = menu[b].item /\ m.category = menu[b].category
      /\ m.group[g] = row /\ \A h \in OptionGroups : h # g => m.group[h] = menu[b].group[h]
      /\ Commit(w, m)
  BY <1>1, <1>3, <1>4, <1>7, <1>8 DEF UpdateGroup, Menu
<1>10. Consistent(m)
  BY <1>5, <1>9 DEF Consistent
<1>11. crossed' = IF e.overtaken THEN crossed \cup { <<b, g>> } ELSE crossed \ { <<b, g>> }
  BY <1>1, <1>3, <1>9 DEF Commit
<1>12. Ruled(b, m)'
  <2>1. ~e.overtaken => Bounded(row)
    BY <1>3, <1>4, <1>7 DEF GroupEditFits
  <2>2. "item" # g
    BY CatalogueAssumption
  <2>3. ASSUME NEW h \in OptionGroups, m.group[h] # None, <<b, h>> \notin crossed' PROVE Bounded(m.group[h])
    BY <1>5, <1>9, <1>11, <2>1, <2>3 DEF Ruled
  <2>4. m.item # None /\ <<b, "item">> \notin crossed' => Meets(m.item.fields, m.item.scope)
    BY <1>5, <1>9, <1>11, <2>2 DEF Ruled
  <2>5. QED
    BY <2>3, <2>4 DEF Ruled
<1>13. \A h \in OptionGroups : IF h = g THEN m.group[h] # None ELSE m.group[h] = menu[b].group[h]
  BY <1>9, CatalogueAssumption
<1>14. "item" # g
  BY CatalogueAssumption
<1>15. QED
  BY <1>1, <1>2, <1>3, <1>9, <1>10, <1>12, <1>13, <1>14, CommitStep

LEMMA UpdateItemStep ==
  ASSUME CatalogueInv, NEW w \in Writers, UpdateItem(w) PROVE CatalogueInv'
<1>1. PICK e : e = edit[w]
  OBVIOUS
<1>2. e # None /\ e.target = "item" /\ EditFits(e)
  BY <1>1 DEF UpdateItem, CatalogueInv
<1>3. PICK b \in Branches : b = e.branch
  BY <1>2 DEF EditFits
<1>4. menu[b] \in Menu /\ ItemEditFits(e, menu[b])
  BY <1>2, <1>3 DEF EditFits
<1>5. menu[b] # None /\ Consistent(menu[b]) /\ Ruled(b, menu[b])
  BY <1>4, CatalogueAssumption DEF CatalogueInv
<1>6. PICK old \in Item : old = menu[b].item
  BY <1>4 DEF ItemEditFits, Menu
<1>7. PICK row \in Item : row = Merged(e.columns, old)
  BY <1>4 DEF ItemEditFits
<1>8. PICK m \in Menu : m = [menu[b] EXCEPT !.item = row]
  BY <1>4 DEF Menu
<1>9. /\ m.variant = menu[b].variant /\ m.group = menu[b].group /\ m.category = menu[b].category /\ m.item = row
      /\ Commit(w, m)
  BY <1>1, <1>3, <1>4, <1>6, <1>7, <1>8 DEF UpdateItem, Menu
<1>10. /\ row.filed = IF "filed" \in DOMAIN e.columns THEN e.columns.filed ELSE old.filed
       /\ row.scope = IF "scope" \in DOMAIN e.columns THEN e.columns.scope ELSE old.scope
       /\ row.fields = IF "fields" \in DOMAIN e.columns THEN e.columns.fields ELSE old.fields
  BY <1>7 DEF Merged, Item
<1>11. PICK seen \in Item : seen = e.seen
  BY <1>4 DEF ItemEditFits
<1>12. /\ Merged(e.columns, seen).filed = IF "filed" \in DOMAIN e.columns THEN e.columns.filed ELSE seen.filed
       /\ Merged(e.columns, seen).fields = IF "fields" \in DOMAIN e.columns THEN e.columns.fields ELSE seen.fields
  BY DEF Merged, Item
<1>13. Consistent(m)
  <2>1. "filed" \in DOMAIN e.columns /\ row.filed => menu[b].category # None
    BY <1>1, <1>3, <1>10, <1>11, <1>12 DEF UpdateItem
  <2>2. row.filed => menu[b].category # None
    BY <1>4, <1>5, <1>6, <1>10, <2>1 DEF Consistent, ItemEditFits
  <2>3. QED
    BY <1>5, <1>9, <2>2 DEF Consistent
<1>14. crossed' = IF e.overtaken THEN crossed \cup { <<b, "item">> } ELSE crossed \ { <<b, "item">> }
  BY <1>1, <1>2, <1>3, <1>9 DEF Commit
<1>15. ~e.overtaken => Meets(row.fields, row.scope)
  <2> SUFFICES ASSUME ~e.overtaken PROVE Meets(row.fields, row.scope)
    OBVIOUS
  <2>1. seen.scope = old.scope /\ seen.fields = old.fields
    BY <1>4, <1>6, <1>11 DEF ItemEditFits
  <2>2. row.fields = Merged(e.columns, seen).fields
    BY <1>10, <1>12, <2>1
  <2> DEFINE scope == IF "scope" \in DOMAIN e.columns THEN e.columns.scope ELSE None
  <2>3. Meets(row.fields, EffectiveTypes(b, scope, seen.scope))
    BY <1>1, <1>3, <1>11, <2>2 DEF UpdateItem
  <2>4. row.scope # None
    BY CatalogueAssumption DEF Item
  <2>5. row.scope # {} => EffectiveTypes(b, scope, seen.scope) = row.scope
    BY <1>10, <2>1, <2>4 DEF EffectiveTypes
  <2>6. QED
    BY <2>3, <2>5 DEF Meets
<1>16. Ruled(b, m)'
  <2>1. \A h \in OptionGroups : h # "item"
    BY CatalogueAssumption
  <2>2. ASSUME NEW h \in OptionGroups, m.group[h] # None, <<b, h>> \notin crossed' PROVE Bounded(m.group[h])
    BY <1>5, <1>9, <1>14, <2>1, <2>2 DEF Ruled
  <2>3. <<b, "item">> \notin crossed' => Meets(m.item.fields, m.item.scope)
    BY <1>9, <1>14, <1>15
  <2>4. QED
    BY <2>2, <2>3 DEF Ruled
<1>17. m.item # None /\ "item" \notin OptionGroups
  BY <1>9, CatalogueAssumption
<1>18. QED
  BY <1>1, <1>2, <1>3, <1>9, <1>13, <1>16, <1>17, CommitStep

LEMMA SaveVariantStep ==
  ASSUME CatalogueInv, NEW w \in Writers, SaveVariant(w) PROVE CatalogueInv'
<1>1. PICK e : e = edit[w]
  OBVIOUS
<1>2. e # None /\ e.target \in Variants /\ EditFits(e)
  BY <1>1 DEF SaveVariant, CatalogueInv
<1>3. PICK b \in Branches, v \in Variants, row \in Variant : b = e.branch /\ v = e.target /\ row = e.columns
  BY <1>2 DEF EditFits
<1>4. menu[b] \in Menu /\ menu[b] # None /\ Consistent(menu[b]) /\ Ruled(b, menu[b])
  BY <1>2, <1>3, CatalogueAssumption DEF EditFits, CatalogueInv
<1>5. PICK m \in Menu : m = [menu[b] EXCEPT !.variant[v] = row]
  BY <1>4 DEF Menu
<1>6. /\ m.group = menu[b].group /\ m.item = menu[b].item /\ m.category = menu[b].category
      /\ m.variant[v] = row /\ \A u \in Variants : u # v => m.variant[u] = menu[b].variant[u]
      /\ Commit(w, m)
  BY <1>1, <1>3, <1>4, <1>5 DEF SaveVariant, Menu
<1>7. \A u \in Variants \ { v } : menu[b].variant[u] # None => menu[b].variant[u].choices # row.choices
  BY <1>1, <1>3 DEF SaveVariant
<1>8. Consistent(m)
  BY <1>4, <1>6, <1>7 DEF Consistent
<1>9. crossed' = IF e.overtaken THEN crossed \cup { <<b, v>> } ELSE crossed \ { <<b, v>> }
  BY <1>1, <1>3, <1>6 DEF Commit
<1>10. v \notin OptionGroups /\ v # "item"
  BY CatalogueAssumption
<1>11. Ruled(b, m)'
  BY <1>4, <1>6, <1>9, <1>10 DEF Ruled
<1>12. QED
  BY <1>1, <1>2, <1>3, <1>6, <1>8, <1>10, <1>11, CommitStep

\* An edit begins.
LEMMA EditBegins ==
  ASSUME CatalogueInv, NEW w \in Writers, NEW b \in Branches, menu[b] # None, NEW target, NEW seen, NEW columns,
         BeginEdit(w, b, target, seen, columns),
         target \in OptionGroups =>
           /\ seen = menu[b].group[target] /\ seen # None /\ Bounded(Merged(columns, seen))
           /\ \A row \in Group : Merged(columns, row) \in Group,
         target = "item" => seen = menu[b].item /\ seen # None /\ \A row \in Item : Merged(columns, row) \in Item,
         target \in Variants => columns \in Variant
  PROVE  CatalogueInv'
<1>1. PICK e : e = [branch |-> b, target |-> target, seen |-> seen, columns |-> columns, overtaken |-> FALSE]
  OBVIOUS
<1>2. UNCHANGED <<storeType, assigned, branch, tx, raced, menu, cacheVars, crossed>> /\ edit' = [edit EXCEPT ![w] = e]
  BY <1>1 DEF BeginEdit, storefrontVars, frontVars
<1>3. menu[b] \in Menu
  BY DEF CatalogueInv
<1>4. EditFits(e)
  <2>1. target \in OptionGroups => GroupEditFits(e, menu[b])
    BY <1>1, <1>3 DEF GroupEditFits, Menu
  <2>2. target = "item" => ItemEditFits(e, menu[b])
    BY <1>1, <1>3 DEF ItemEditFits, Menu
  <2>3. QED
    BY <1>1, <1>3, <2>1, <2>2 DEF EditFits
<1>5. \A f : EditFits(f) => EditFits(f)'
  BY <1>2 DEF EditFits
<1>6. DOMAIN edit' = Writers /\ \A v \in Writers : edit'[v] # None => EditFits(edit[v])'
  BY <1>2, <1>4, <1>5 DEF CatalogueInv
<1>7. FrontInv'
  <2>1. CacheFits'
    BY <1>2, CacheStays DEF CatalogueInv, FrontInv
  <2>2. RowsInv'
    BY <1>2, StoreTypesMove DEF CatalogueInv, FrontInv, RowsInv, RowsFit
  <2>3. QED
    BY <1>2, <2>1, <2>2 DEF CatalogueInv, FrontInv
<1>8. QED
  BY <1>2, <1>6, <1>7 DEF CatalogueInv, Ruled

\* One column is written, with a value of its own.
LEMMA MergedGroup ==
  ASSUME NEW columns, \E x \in BOOLEAN, n \in 0..MaxSelect :
           columns \in { Only("active", x), Only("variant", x), Only("min", n), Only("max", n) }
  PROVE  \A row \in Group : Merged(columns, row) \in Group
BY DEF Merged, Only, Group

LEMMA MergedItem ==
  ASSUME NEW columns, \E x \in BOOLEAN, scope \in SUBSET Types, fields \in SUBSET Fields :
           columns \in { Only("available", x), Only("filed", x), Only("scope", scope), Only("fields", fields) }
  PROVE  \A row \in Item : Merged(columns, row) \in Item
BY DEF Merged, Only, Item

LEMMA BeginUpdateGroupStep ==
  ASSUME CatalogueInv, NEW w \in Writers, NEW b \in Branches, menu[b] # None, NEW g \in OptionGroups, BeginUpdateGroup(w, b, g)
  PROVE  CatalogueInv'
<1>1. menu[b].group[g] # None
  BY DEF BeginUpdateGroup
<1>2. PICK columns :
        /\ \E x \in BOOLEAN, n \in 0..MaxSelect :
             columns \in { Only("active", x), Only("variant", x), Only("min", n), Only("max", n) }
        /\ Bounded(Merged(columns, menu[b].group[g])) /\ BeginEdit(w, b, g, menu[b].group[g], columns)
  <2>1. 0 \in 0..MaxSelect
    BY CatalogueAssumption
  <2>2. QED
    BY <2>1 DEF BeginUpdateGroup
<1>3. \A row \in Group : Merged(columns, row) \in Group
  BY <1>2, MergedGroup
<1>4. g # "item" /\ g \notin Variants
  BY CatalogueAssumption
<1>5. QED
  BY <1>1, <1>2, <1>3, <1>4, EditBegins

LEMMA BeginUpdateItemStep ==
  ASSUME CatalogueInv, NEW w \in Writers, NEW b \in Branches, menu[b] # None, BeginUpdateItem(w, b) PROVE CatalogueInv'
<1>1. menu[b].item # None
  BY DEF BeginUpdateItem
<1>2. PICK columns :
        /\ \E x \in BOOLEAN, scope \in SUBSET Types, fields \in SUBSET Fields :
             columns \in { Only("available", x), Only("filed", x), Only("scope", scope), Only("fields", fields) }
        /\ BeginEdit(w, b, "item", menu[b].item, columns)
  BY DEF BeginUpdateItem, Scopes, Listed, Approved
<1>3. \A row \in Item : Merged(columns, row) \in Item
  BY <1>2, MergedItem
<1>4. "item" \notin OptionGroups /\ "item" \notin Variants
  BY CatalogueAssumption
<1>5. QED
  BY <1>1, <1>2, <1>3, <1>4, EditBegins

LEMMA BeginSaveVariantStep ==
  ASSUME CatalogueInv, NEW w \in Writers, NEW b \in Branches, menu[b] # None, NEW v \in Variants, BeginSaveVariant(w, b, v)
  PROVE  CatalogueInv'
<1>1. PICK columns \in Variant : BeginEdit(w, b, v, menu[b].variant[v], columns)
  BY DEF BeginSaveVariant, Variant
<1>2. v \notin OptionGroups /\ v # "item"
  BY CatalogueAssumption
<1>3. QED
  BY <1>1, <1>2, EditBegins

LEMMA CatalogueStep == CatalogueInv /\ [CatalogueNext]_catalogueVars => CatalogueInv'
<1> SUFFICES ASSUME CatalogueInv, [CatalogueNext]_catalogueVars PROVE CatalogueInv'
  OBVIOUS
<1>1. ASSUME UNCHANGED <<menu, edit, crossed>>, FrontInv' PROVE CatalogueInv'
  <2>1. \A e : EditFits(e) => EditFits(e)'
    BY <1>1 DEF EditFits
  <2>2. QED
    BY <1>1, <2>1 DEF CatalogueInv, Ruled
<1>2. CASE FrontNext /\ UNCHANGED <<edit, crossed>>
  <2>1. menu' = menu
    BY <1>2 DEF FrontNext
  <2>2. FrontInv'
    BY <1>2, <2>1, FrontStep DEF CatalogueInv, FrontInv
  <2>3. QED
    BY <1>1, <1>2, <2>1, <2>2
<1>3. ASSUME UNCHANGED storefrontVars PROVE FrontInv'
  <2>1. UNCHANGED <<storeType, assigned, branch, tx, raced, menu, cacheVars>>
    BY <1>3 DEF storefrontVars, frontVars
  <2>2. CacheFits'
    BY <2>1, CacheStays DEF CatalogueInv, FrontInv
  <2>3. RowsInv'
    BY <2>1, StoreTypesMove DEF CatalogueInv, FrontInv, RowsInv, RowsFit
  <2>4. QED
    BY <2>1, <2>2, <2>3 DEF CatalogueInv, FrontInv
<1>4. ASSUME NEW w \in Writers, EditFails(w) PROVE CatalogueInv'
  <2>1. FrontInv' /\ menu' = menu /\ crossed' = crossed /\ edit' = [edit EXCEPT ![w] = None]
    BY <1>3, <1>4 DEF EditFails, storefrontVars
  <2>2. \A e : EditFits(e) => EditFits(e)'
    BY <2>1 DEF EditFits
  <2>3. QED
    BY <2>1, <2>2 DEF CatalogueInv, Ruled
<1>5. CASE UNCHANGED catalogueVars
  BY <1>1, <1>3, <1>5 DEF catalogueVars, storefrontVars
<1>6. ASSUME NEW w \in Writers, NEW b \in Branches, menu[b] # None,
             \/ EditCategories(w, b) \/ EditItem(w, b) \/ EditGroups(w, b)
             \/ EditChoices(w, b) \/ EditVariants(w, b) \/ StockMoves(w, b)
      PROVE  CatalogueInv'
  <2>1. CASE EditItem(w, b)
    BY <1>6, <2>1, CreateItemStep, BeginUpdateItemStep, DeleteItemStep DEF EditItem
  <2>2. CASE EditGroups(w, b)
    BY <1>6, <2>2, CreateGroupStep, BeginUpdateGroupStep, DeleteGroupStep DEF EditGroups
  <2>3. CASE EditVariants(w, b)
    BY <1>6, <2>3, BeginSaveVariantStep DEF EditVariants
  <2>4. QED
    BY <1>6, <2>1, <2>2, <2>3, CategoryStep, ChoiceStep, StockStep
<1>7. QED
  BY <1>2, <1>4, <1>5, <1>6, UpdateGroupStep, UpdateItemStep, SaveVariantStep DEF CatalogueNext

\* The catalogue, the cart and the checkout judge alike.
LEMMA CountsAgree ==
  ASSUME NEW m \in Menu, NEW sel \in SUBSET ItemOptions
  PROVE  CountsFit(m, sel) <=> \A g \in ActiveGroups(m) : Cardinality(OfGroup(sel, g)) \in m.group[g].min .. m.group[g].max
<1> SUFFICES ASSUME NEW g \in ActiveGroups(m)
             PROVE  ~(Cardinality(OfGroup(sel, g)) < m.group[g].min \/ Cardinality(OfGroup(sel, g)) > m.group[g].max)
                    <=> Cardinality(OfGroup(sel, g)) \in m.group[g].min .. m.group[g].max
  BY DEF CountsFit
<1>1. Cardinality(OfGroup(sel, g)) \in Nat
  <2>1. IsFiniteSet(OfGroup(sel, g))
    BY FS_Subset, CatalogueAssumption DEF OfGroup
  <2>2. QED
    BY <2>1, FS_CardinalityType
<1>2. m.group[g] \in Group
  BY DEF ActiveGroups, GroupIsActive, Menu
<1>3. m.group[g].min \in Nat /\ m.group[g].max \in Nat
  BY <1>2, CatalogueAssumption DEF Group
<1>4. QED
  BY <1>1, <1>3

LEMMA JudgedAlike ==
  ASSUME NEW m \in Menu, Consistent(m), NEW sel \in SUBSET ItemOptions
  PROVE  /\ FromCatalogue(m, sel) <=> CartAcceptsSelection(m, sel)
         /\ CartAcceptsSelection(m, sel) <=> CheckoutAcceptsSelection(m, sel)
<1> DEFINE shown == sel \subseteq ActiveChoices(m)
           variants == VariantChoices(m, sel)
           found == FindVariant(m, variants)
<1>1. (\A c \in sel : ChoiceIsActive(m, c)) <=> shown
  BY DEF ActiveChoices
<1>2. \A u, v \in found : u = v
  BY DEF FindVariant, Consistent
<1>3. variants \subseteq sel /\ found \subseteq Variants
  BY DEF VariantChoices, FindVariant
<1>4. shown => found = { v \in ShownVariants(m) : m.variant[v].choices = variants }
  BY <1>3 DEF FindVariant, ShownVariants
<1> DEFINE one == found # {} /\ found \cap m.short = {}
<1>5. shown => ((\E v \in ShownVariants(m) \ m.short : m.variant[v].choices = variants) <=> one)
  BY <1>2, <1>4
<1>6. one <=> found # {} /\ found \ m.short # {}
  BY <1>2
<1>7. sel \subseteq ActiveChoices(m) \ m.short <=> shown /\ sel \cap m.short = {}
  OBVIOUS
<1>8. FromCatalogue(m, sel) <=> shown /\ sel \cap m.short = {} /\ CountsFit(m, sel) /\ (variants = {} \/ one)
  BY <1>5, <1>7, CountsAgree DEF FromCatalogue
<1>9. CartAcceptsSelection(m, sel) <=> shown /\ sel \cap m.short = {} /\ CountsFit(m, sel) /\ (variants = {} \/ one)
  BY <1>1 DEF CartAcceptsSelection
<1>10. CheckoutAcceptsSelection(m, sel) <=> shown /\ sel \cap m.short = {} /\ CountsFit(m, sel) /\ (variants = {} \/ one)
  <2>1. sel \cap ActiveChoices(m) = sel <=> shown
    OBVIOUS
  <2>2. sel \cap ActiveChoices(m) = sel =>
          (CheckoutAcceptsSelection(m, sel) <=> CountsFit(m, sel) /\ OptionsRemain(m, sel) /\ VariantRemains(m, sel))
    BY DEF CheckoutAcceptsSelection
  <2>3. CheckoutAcceptsSelection(m, sel) => sel \cap ActiveChoices(m) = sel
    BY DEF CheckoutAcceptsSelection
  <2>4. VariantRemains(m, sel) <=> (variants = {} \/ one)
    BY <1>6 DEF VariantRemains
  <2>5. OptionsRemain(m, sel) <=> sel \cap m.short = {}
    BY DEF OptionsRemain
  <2>6. QED
    BY <2>1, <2>2, <2>3, <2>4, <2>5
<1>11. QED
  BY <1>8, <1>9, <1>10

LEMMA RulesFollow == CatalogueInv => MenuRulesHold
<1> SUFFICES ASSUME CatalogueInv PROVE MenuRulesHold
  OBVIOUS
<1>1. \A b \in Branches : menu[b] # None => menu[b] \in Menu /\ Consistent(menu[b]) /\ Ruled(b, menu[b])
  BY DEF CatalogueInv
<1>2. MenuTypeOK
  <2>1. FrontTypeOK
    BY DEF CatalogueInv, FrontInv, RowsInv, RowsFit, CacheFits, FrontTypeOK
  <2>2. QED
    BY <1>1, <2>1 DEF CatalogueInv, MenuTypeOK, Consistent
<1>3. OneRuleForAll
  <2> SUFFICES ASSUME NEW b \in Branches, menu[b] # None
               PROVE  /\ \A t \in Listed(b) \cup { None } : ItemIsShown(menu[b], t) => CartAcceptsItem(menu[b])
                      /\ CartAcceptsItem(menu[b]) /\ ~ItemIsShown(menu[b], None)
                           => menu[b].item.filed /\ ~menu[b].category.active
                      /\ \A sel \in SUBSET ItemOptions :
                           /\ FromCatalogue(menu[b], sel) <=> CartAcceptsSelection(menu[b], sel)
                           /\ CartAcceptsSelection(menu[b], sel) <=> CheckoutAcceptsSelection(menu[b], sel)
    BY DEF OneRuleForAll
  <2>1. PICK m \in Menu : m = menu[b] /\ Consistent(m)
    BY <1>1
  <2>2. \A t : ItemIsShown(m, t) => CartAcceptsItem(m)
    BY DEF ItemIsShown, CartAcceptsItem
  <2>3. CartAcceptsItem(m) /\ ~ItemIsShown(m, None) => m.item.filed /\ ~m.category.active
    BY DEF ItemIsShown, CartAcceptsItem, Matches
  <2>4. QED
    BY <2>1, <2>2, <2>3, JudgedAlike
<1>4. GroupsCanBeFilled
  <2> SUFFICES ASSUME NEW b \in Branches, NEW g \in OptionGroups,
                      menu[b] # None, menu[b].group[g] # None, <<b, g>> \notin crossed
               PROVE  /\ menu[b].group[g].min .. menu[b].group[g].max # {}
                      /\ menu[b].group[g].variant => menu[b].group[g].min .. menu[b].group[g].max \subseteq { 0, 1 }
    BY DEF GroupsCanBeFilled
  <2>1. PICK row \in Group : row = menu[b].group[g] /\ Bounded(row)
    BY <1>1 DEF Menu, Ruled
  <2>2. PICK low \in Nat, high \in Nat : low = row.min /\ high = row.max /\ low <= high /\ (row.variant => high <= 1)
    BY <2>1, CatalogueAssumption DEF Group, Bounded
  <2>3. low \in low .. high /\ (high <= 1 => low .. high \subseteq { 0, 1 })
    BY <2>2
  <2>4. QED
    BY <2>1, <2>2, <2>3
<1>5. ScopedItemsMeetTheirRules
  BY <1>1 DEF ScopedItemsMeetTheirRules, Ruled
<1>6. QED
  BY <1>2, <1>3, <1>4, <1>5 DEF MenuRulesHold

LEMMA CatalogueInvariant == CatalogueSpec => []CatalogueInv
<1>1. CatalogueInv /\ [CatalogueNext]_catalogueVars => CatalogueInv'
  BY CatalogueStep
<1>2. QED
  BY <1>1, CatalogueBegins, PTL DEF CatalogueSpec

-----------------------------------------------------------------------------
\* Whoever synchronises a branch's assignments: the primary store type is the
\* one approved assignment that is marked, unless the last transaction on the
\* branch was overtaken (store-type-management.service.ts,
\* syncBranchPrimaryStoreType).
THEOREM PrimaryIsOne == CatalogueSpec => []PrimaryAgrees
<1>1. RowsInv => PrimaryAgrees
  BY DEF RowsInv, BranchAgrees, RowsAgree, PrimaryAgrees, Marks, WithStatus, Approved
<1>2. CatalogueInv => RowsInv
  BY DEF CatalogueInv, FrontInv
<1>3. QED
  BY <1>1, <1>2, CatalogueInvariant, PTL

\* However readers fill, writers delete, and entries expire: a cache entry
\* that is there says what the database says, or is about to be deleted, or
\* is out of date for a reason that is named (the cache services, and what
\* each service invalidates).
THEOREM CachesAgree == CatalogueSpec => []FrontCoherent
<1>1. CatalogueInv => FrontCoherent
  BY DEF CatalogueInv, FrontInv, CacheFits
<1>2. QED
  BY <1>1, CatalogueInvariant, PTL

\* However edits overlap: the catalogue, the cart and the checkout judge a
\* selection alike, an option group can be filled, and an item has what the
\* store types it is under ask for (the merchant-menu services, the cart's and
\* the checkout's validation).
THEOREM MenusAgree == CatalogueSpec => []MenuRulesHold
BY CatalogueInvariant, RulesFollow, PTL
=============================================================================
