------------------------------- MODULE MCFront -------------------------------
(***************************************************************************)
(* The storefront of one branch on small instances, from four sides:       *)
(* transactions that overlap, the caches, the option groups of an item,    *)
(* and the item in its category.                                           *)
(***************************************************************************)
EXTENDS Catalogue

VARIABLE side

CONSTANTS grocery, pharmacy, size, extra, small, egg, large, sku, brand

MCGroupOf == small :> size @@ egg :> extra
MCRequired == grocery :> { sku } @@ pharmacy :> { sku, brand }
MCKeys == FrontKeys

\* A branch on two store types, and an item of the first.
Both == [t \in Types |-> [status |-> "APPROVED", primary |-> t = grocery]]
Filed(types) == [EmptyMenu EXCEPT !.item = [available |-> TRUE, filed |-> FALSE, scope |-> types, fields |-> { sku }]]

MCInit ==
  LET items == side = "items" IN
  /\ side \in { "races", "caches", "options", "items" }
  /\ storeType = [t \in Types |-> IF side = "caches" /\ t = pharmacy THEN None ELSE TRUE]
  /\ assigned = [b \in Branches |-> IF items THEN Both ELSE [t \in Types |-> None]]
  /\ branch = [b \in Branches |-> IF side = "caches" THEN None
                                  ELSE [open |-> TRUE, primary |-> IF items THEN grocery ELSE None]]
  /\ menu = [b \in Branches |-> IF items THEN Filed({ grocery }) ELSE IF side = "options" THEN Filed({}) ELSE None]
  /\ tx = [w \in Writers |-> None] /\ raced = {}
  /\ edit = [w \in Writers |-> None] /\ crossed = {}
  /\ CachesInit

Busy == { k \in Keys : cache[k] # None } \cup { reader[r].key : r \in { y \in Readers : reader[y] # None } }
Open == { tx[w] : w \in { v \in Writers : tx[v] # None } }
Editing == { w \in Writers : edit[w] # None }
Targets == { edit[w].target : w \in Editing }
Some == { { sku }, { sku, brand } }

\* Two transactions at a time on the branch, and nothing else; or one, and
\* what the caches hold of one store type; or edits of the menu alone, at
\* most two of one row, each published before the next.
QuietFront ==
  CASE side = "races" ->
         /\ UNCHANGED <<cacheVars, storeType>> /\ \A b \in Branches : branch'[b].open
         /\ \A t \in Open' : t.status # "REJECTED" /\ (t.op = "assign" => t.status = "APPROVED" /\ t.mark # FALSE)
    [] side = "caches" ->
         /\ Cardinality(Busy') <= 1 /\ Cardinality(Open') <= 1
         /\ \A t \in Open' : t.status \in { "APPROVED", "HIDDEN" } /\ t.type = grocery /\ t.mark # TRUE
         /\ storeType'[pharmacy] = storeType[pharmacy]
    [] side \in { "options", "items" } ->
         /\ UNCHANGED <<assigned, branch, tx, cache, reader>>
         /\ (\E w \in Writers : pending[w] # {}) => \A w \in Writers : pending'[w] = {}
         /\ Cardinality(Targets') <= 1 /\ (crossed # {} => Editing' = {})
         /\ Targets # {} => UNCHANGED storeType /\ \A b \in Branches : menu'[b].short = menu[b].short

QuietOptions(m, n) ==
  /\ UNCHANGED storeType /\ n.category = None /\ n.item = m.item
  /\ n.short \subseteq { egg, large } /\ Cardinality(n.short) <= 1
  /\ n.group[extra] \in { None, [active |-> TRUE, variant |-> FALSE, min |-> 0, max |-> 1] } /\ extra \notin Targets'
  /\ n.group[size] = None \/ n.group[size].max > 0
  /\ size \in Targets' => n.short = {} /\ n.choice = EmptyMenu.choice /\ n.group[extra] = None
  /\ Cardinality(Editing') = 2 => size \in Targets' /\ n.variant[large] = None /\ n.group[size].active /\ \A w \in Editing' : "active" \notin DOMAIN edit'[w].columns
  /\ large \in Targets' => n.group = m.group

QuietItems(m, n) ==
  /\ n.group = m.group /\ n.choice = m.choice /\ n.short = {} /\ Targets' \subseteq { "item" }
  /\ storeType'[grocery] = TRUE
  /\ n.category = None \/ n.category.scope \in { {}, { pharmacy } }
  /\ n.item = None \/ n.item.fields \in Some
  /\ Cardinality(Editing') = 2 => n.category = None /\ n.item.available
  /\ \A w \in Editing' : LET columns == edit'[w].columns IN
       /\ "fields" \in DOMAIN columns => columns.fields \in Some
       /\ Editing \notin { {}, { w } } => DOMAIN columns \subseteq { "scope", "fields" }

MCNext ==
  /\ CatalogueNext /\ UNCHANGED side /\ QuietFront
  /\ side = "options" => \A b \in Branches : QuietOptions(menu[b], menu'[b])
  /\ side = "items" => \A b \in Branches : QuietItems(menu[b], menu'[b])

Alike == Permutations(Writers) \cup Permutations(Readers)

MCSpec == MCInit /\ [][MCNext]_<<catalogueVars, side>>
=============================================================================
