---------------------------- MODULE MCPurchase ----------------------------
(***************************************************************************)
(* Purchase on small instances.  One run looks at the branch from three    *)
(* sides, each with its own start and its own part of the branch busy:     *)
(* carts being edited together, a filled cart submitted from two tabs, and *)
(* a filled cart submitted while promotions come, change and go.           *)
(***************************************************************************)
EXTENDS Purchase, TLC

VARIABLE side

CONSTANTS ann, bob, rice, k1, k2, l1, l2

Sides == { "carts", "submit", "promotions" }

\* ann has put one portion in her cart, before its price came down; where
\* two tabs submit, bob has as well.
HasFilled(u) == IF u = ann THEN k1 :> l1 ELSE IF side = "submit" THEN k2 :> l2 ELSE << >>
FilledCarts ==
  LET filled == HasFilled(ann) @@ HasFilled(bob)
      owner(k) == CHOOSE u \in Customers : k \in DOMAIN HasFilled(u)
  IN  /\ cart = [k \in Carts |-> IF k \notin DOMAIN filled THEN None
                                 ELSE [owner |-> owner(k), status |-> "ACTIVE", total |-> Max(Prices)]]
      /\ line = [l \in Lines |-> IF \A k \in DOMAIN filled : filled[k] # l THEN None
                                 ELSE [cart |-> CHOOSE k \in DOMAIN filled : filled[k] = l,
                                       item |-> rice, quantity |-> 1, unitPrice |-> Max(Prices)]]

Others == /\ menuItem = [i \in Items |-> [available |-> TRUE, price |-> Min(Prices)]]
          /\ stock = [i \in Items |-> Stock]
          /\ latest = CHOOSE f \in [Carts -> 1..Cardinality(Carts)] : IsInjective(f) /\ f[k1] = Cardinality(Carts)
          /\ promotion = [p \in Promotions |-> None] /\ usage = {}
          /\ order = << >> /\ payment = [o \in Orders |-> None] /\ answers = {}
          /\ edit = [c \in Clients |-> NoEdit] /\ submission = [c \in Clients |-> NoSubmission]
          /\ skewed = {}

MCInit ==
  /\ side \in Sides
  /\ (side = "carts" /\ PurchaseInit) \/ (Others /\ FilledCarts)

\* What a side leaves alone.
Quiet ==
  /\ side # "promotions" => UNCHANGED promotion
  /\ side # "submit" => UNCHANGED menuItem
  /\ side = "promotions" => UNCHANGED skewed
  /\ side = "carts" => \A c, d \in Clients : submission'[c] # NoSubmission /\ submission'[d] # NoSubmission =>
                          c = d /\ Placed = {}
  /\ \A c \in Clients :
       /\ side # "submit" => edit'[c].user # bob
       /\ side # "carts" /\ edit'[c] # NoEdit => edit'[c].rows # << >> /\ \A l \in DOMAIN edit'[c].rows : line[l] = None
       /\ submission'[c] # NoSubmission =>
            /\ side # "submit" => submission'[c].customer # bob
            /\ side = "carts" => submission'[c].key = CHOOSE x \in Keys : TRUE
            /\ side # "submit" => ~submission'[c].pickup
            /\ side # "promotions" => submission'[c].code = None

MCNext == PurchaseNext /\ Quiet /\ UNCHANGED side

Alike == Permutations(Clients) \cup Permutations(Orders)

MCSpec == MCInit /\ [][MCNext]_<<purchaseVars, side>>
=============================================================================
