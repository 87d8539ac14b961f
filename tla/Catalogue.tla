------------------------------ MODULE Catalogue ------------------------------
(***************************************************************************)
(* The menu of a branch: one item in one category, its option groups, its  *)
(* options ("choices") and the combinations of variant options that are    *)
(* sold ("variants").  Merchants edit the rows; customers see them through *)
(* the menu cache; the cart and then the checkout judge what a customer    *)
(* selects, each by its own code.                                          *)
(*                                                                         *)
(* An edit checks the row it read before it wrote: two edits may overlap.  *)
(***************************************************************************)
EXTENDS Storefront

CONSTANTS
  OptionGroups, ItemOptions, Variants,
  GroupOf,     \* the group of each choice
  Fields,      \* what a vertical may ask of an item: sku, brand, tracking, attributes
  Required,    \* the fields each store type asks for
  MaxSelect    \* bound on maxSelect

Category == [active : BOOLEAN, scope : SUBSET Types]
Item == [available : BOOLEAN, filed : BOOLEAN, scope : SUBSET Types, fields : SUBSET Fields]
Group == [active : BOOLEAN, variant : BOOLEAN, min : 0..MaxSelect, max : 0..MaxSelect]
Variant == [active : BOOLEAN, choices : SUBSET ItemOptions]

Menu ==
  [category : Category \cup { None }, item : Item \cup { None }, group : [OptionGroups -> Group \cup { None }],
   choice : [ItemOptions -> BOOLEAN \cup { None }], variant : [Variants -> Variant \cup { None }],
   short : SUBSET ({ "item" } \cup ItemOptions \cup Variants)]

ASSUME CatalogueAssumption ==
  /\ GroupOf \in [ItemOptions -> OptionGroups] /\ IsFiniteSet(ItemOptions)
  /\ Required \in [Types -> SUBSET Fields] /\ MaxSelect \in Nat
  /\ "item" \notin OptionGroups \cup Variants /\ OptionGroups \cap Variants = {}
  /\ None \notin Category /\ None \notin Item /\ None \notin Group /\ None \notin Variant
  /\ None \notin Menu /\ \A scope \in SUBSET Types : scope # None

VARIABLES
  edit,      \* the edit each writer has read for
  crossed    \* rows of menus last written by an edit that another edit had overtaken

catalogueVars == <<storefrontVars, edit, crossed>>

EmptyMenu == [category |-> None, item |-> None, group |-> [g \in OptionGroups |-> None],
              choice |-> [c \in ItemOptions |-> None], variant |-> [v \in Variants |-> None],
              short |-> {}]     \* what has less stock than is asked for; "item" is the item

\* A branch whose menu is None is looked at without it.
CatalogueInit ==
  FrontInit /\ menu \in [Branches -> { None, EmptyMenu }] /\ edit = [w \in Writers |-> None] /\ crossed = {}

-----------------------------------------------------------------------------
(* What a customer sees, and what is accepted of him.                      *)

GroupIsActive(m, g) == m.group[g] # None /\ m.group[g].active
ActiveGroups(m) == { g \in OptionGroups : GroupIsActive(m, g) }
ChoiceIsActive(m, c) == m.choice[c] = TRUE /\ GroupIsActive(m, GroupOf[c])
ActiveChoices(m) == { c \in ItemOptions : ChoiceIsActive(m, c) }
OfGroup(sel, g) == { c \in sel : GroupOf[c] = g }
VariantChoices(m, sel) == { c \in sel : m.group[GroupOf[c]].variant }

Matches(scope, t) == t = None \/ scope = {} \/ t \in scope

\* buildBranchCatalog with activeOnly, seen under store type t or under none.
ItemIsShown(m, t) ==
  /\ m.item # None /\ m.item.available /\ Matches(m.item.scope, t)
  /\ m.item.filed => m.category.active /\ Matches(m.category.scope, t)
ShownVariants(m) ==
  { v \in Variants : m.variant[v] # None /\ m.variant[v].active /\ m.variant[v].choices \subseteq ActiveChoices(m) }

\* What can be put together from what is shown: for each group a number of
\* the options shown and in stock, and of the variant options one combination
\* shown and in stock, or none.
FromCatalogue(m, sel) ==
  /\ sel \subseteq ActiveChoices(m) \ m.short
  /\ \A g \in ActiveGroups(m) : Cardinality(OfGroup(sel, g)) \in m.group[g].min .. m.group[g].max
  /\ \/ VariantChoices(m, sel) = {}
     \/ \E v \in ShownVariants(m) \ m.short : m.variant[v].choices = VariantChoices(m, sel)

\* findActiveVariantCombinationByMenuItemIdAndOptionIds
FindVariant(m, choices) == { v \in Variants : m.variant[v] # None /\ m.variant[v].active /\ m.variant[v].choices = choices }

\* resolveMenuItemForBranch and resolveSelectedOptionsForMenuItem of the cart:
\* the category is not asked, nor the stock of the item.
CartAcceptsItem(m) == m.item # None /\ m.item.available
CountsFit(m, sel) ==
  \A g \in ActiveGroups(m) : LET n == Cardinality(OfGroup(sel, g)) IN ~(n < m.group[g].min \/ n > m.group[g].max)
CartAcceptsAnyVariant(m, sel) ==
  (\A c \in sel : ChoiceIsActive(m, c)) /\ CountsFit(m, sel) /\ sel \cap m.short = {}
CartAcceptsSelection(m, sel) ==
  /\ \A c \in sel : ChoiceIsActive(m, c)
  /\ CountsFit(m, sel)
  /\ sel \cap m.short = {}
  /\ VariantChoices(m, sel) # {} =>
       LET found == FindVariant(m, VariantChoices(m, sel)) IN found # {} /\ found \cap m.short = {}

\* The checkout's own validation of a cart line.
ItemIsAvailable(m) == m.item # None /\ m.item.available
CheckoutAcceptsItem(m) == ItemIsAvailable(m) /\ "item" \notin m.short
OptionsRemain(m, sel) == sel \cap m.short = {}
VariantRemains(m, sel) ==
  LET found == FindVariant(m, VariantChoices(m, sel)) IN
  VariantChoices(m, sel) = {} \/ (found # {} /\ found \ m.short # {})
CheckoutAcceptsSelection(m, sel) ==
  LET current == sel \cap ActiveChoices(m) IN
  current = sel /\ CountsFit(m, current) /\ OptionsRemain(m, current) /\ VariantRemains(m, current)

-----------------------------------------------------------------------------
(* Merchants' edits.  Each ends in an invalidation that nobody waits for.  *)

Editable(w, b) == Free(w) /\ edit[w] = None /\ menu[b] # None

PutMenu(w, b, m) ==
  /\ menu' = [menu EXCEPT ![b] = m] /\ UNCHANGED frontVars
  /\ Publish(w, { MenuKey(b) }, {})

Now(w, b, m) == Editable(w, b) /\ PutMenu(w, b, m) /\ UNCHANGED <<edit, crossed>>

Edits(u, b, target) == edit[u].branch = b /\ edit[u].target = target

\* A row deleted under an edit: its update finds nothing.
Delete(w, b, m, target) ==
  /\ Editable(w, b) /\ PutMenu(w, b, m) /\ crossed' = crossed \ { <<b, target>> }
  /\ edit' = [u \in Writers |-> IF edit[u] # None /\ Edits(u, b, target) THEN None ELSE edit[u]]

\* A scope names approved active store types, or none for all of them.
Scopes(b) == SUBSET Listed(b)

SaveCategory(w, b) ==
  \E active \in BOOLEAN, scope \in Scopes(b) :
    Now(w, b, [menu[b] EXCEPT !.category = [active |-> active, scope |-> scope]])
KeepScopeOfCategory(w, b) ==
  /\ menu[b].category # None
  /\ \E active \in BOOLEAN : Now(w, b, [menu[b] EXCEPT !.category.active = active])

DeleteCategoryOnly(w, b) == menu[b].category # None /\ Now(w, b, [menu[b] EXCEPT !.category = None])
\* Its items are in no category then.
DeleteCategory(w, b) ==
  LET m == menu[b] IN
  /\ m.category # None
  /\ Now(w, b, [m EXCEPT !.category = None,
                         !.item = IF m.item = None THEN None ELSE [m.item EXCEPT !.filed = FALSE]])

ToggleChoice(w, b, c) ==
  /\ menu[b].group[GroupOf[c]] # None
  /\ \E active \in BOOLEAN : Now(w, b, [menu[b] EXCEPT !.choice[c] = active])
\* A choice of a combination stays: the foreign key forbids it.
DeleteChoice(w, b, c) ==
  /\ menu[b].choice[c] # None
  /\ \A v \in Variants : menu[b].variant[v] # None => c \notin menu[b].variant[v].choices
  /\ Now(w, b, [menu[b] EXCEPT !.choice[c] = None])
DeleteGroup(w, b, g) ==
  /\ menu[b].group[g] # None /\ \A c \in ItemOptions : GroupOf[c] = g => menu[b].choice[c] = None
  /\ Delete(w, b, [menu[b] EXCEPT !.group[g] = None], g)

BoundedBelow(row) == row.min <= row.max
Bounded(row) == row.min <= row.max /\ (row.variant => row.max <= 1)

CreateGroup(w, b, g) ==
  /\ menu[b].group[g] = None
  /\ \E row \in Group : Bounded(row) /\ Now(w, b, [menu[b] EXCEPT !.group[g] = row])

\* The edits that check what they read, and then write some of the columns.
BeginEdit(w, b, target, seen, columns) ==
  /\ Editable(w, b)
  /\ edit' = [edit EXCEPT ![w] = [branch |-> b, target |-> target, seen |-> seen, columns |-> columns, overtaken |-> FALSE]]
  /\ UNCHANGED <<storefrontVars, crossed>>

\* The row as the edit believes it will be, and as it will be.
Merged(columns, row) == [c \in DOMAIN row |-> IF c \in DOMAIN columns THEN columns[c] ELSE row[c]]
Only(column, value) == [c \in { column } |-> value]

Commit(w, m) ==
  LET e == edit[w] IN
  /\ menu' = [menu EXCEPT ![e.branch] = m] /\ UNCHANGED frontVars
  /\ Publish(w, { MenuKey(e.branch) }, {})
  /\ crossed' = IF e.overtaken THEN crossed \cup { <<e.branch, e.target>> } ELSE crossed \ { <<e.branch, e.target>> }
  /\ edit' = [v \in Writers |-> IF v = w \/ edit[v] = None THEN None
                                ELSE IF Edits(v, e.branch, e.target) THEN [edit[v] EXCEPT !.overtaken = TRUE] ELSE edit[v]]

BeginUpdateGroup(w, b, g) ==
  /\ menu[b].group[g] # None
  /\ \E columns \in { Only("active", x) : x \in BOOLEAN } \cup { Only("variant", x) : x \in BOOLEAN } \cup
                    { Only("min", n) : n \in 0..MaxSelect } \cup { Only("max", n) : n \in 0..MaxSelect } :
       Bounded(Merged(columns, menu[b].group[g])) /\ BeginEdit(w, b, g, menu[b].group[g], columns)

UpdateGroup(w) ==
  LET e == edit[w] IN
  /\ e # None /\ e.target \in OptionGroups
  /\ Commit(w, [menu[e.branch] EXCEPT !.group[e.target] = Merged(e.columns, menu[e.branch].group[e.target])])

Meets(fields, types) == \A t \in types : Required[t] \subseteq fields

OwnScopeForgotten(b, scope, ownScope) == IF scope # None /\ scope # {} THEN scope ELSE Listed(b)
\* The store types whose rules an item must meet.  (At a branch without
\* approved types a new item must meet those of the branch's old label, too.)
EffectiveTypes(b, scope, ownScope) ==
  IF scope # None /\ scope # {} THEN scope
  ELSE IF scope = None /\ ownScope # {} THEN ownScope ELSE Listed(b)

CreateItem(w, b) ==
  /\ menu[b].item = None
  /\ \E available \in BOOLEAN, filed \in BOOLEAN, scope \in Scopes(b), fields \in SUBSET Fields :
       /\ filed => menu[b].category # None
       /\ Meets(fields, EffectiveTypes(b, scope, {}))
       /\ Now(w, b, [menu[b] EXCEPT !.item = [available |-> available, filed |-> filed, scope |-> scope, fields |-> fields]])

BeginUpdateItem(w, b) ==
  /\ menu[b].item # None
  /\ \E columns \in { Only("available", x) : x \in BOOLEAN } \cup { Only("filed", x) : x \in BOOLEAN } \cup
                    { Only("scope", s) : s \in Scopes(b) } \cup { Only("fields", f) : f \in SUBSET Fields } :
       BeginEdit(w, b, "item", menu[b].item, columns)

\* The approved types are read in the transaction, the item before it.
UpdateItem(w) ==
  LET e == edit[w]
      b == e.branch
      scope == IF "scope" \in DOMAIN e.columns THEN e.columns.scope ELSE None
  IN
  /\ e # None /\ e.target = "item"
  /\ scope # None => scope \subseteq Listed(b)
  /\ Merged(e.columns, e.seen).filed => menu[b].category # None
  /\ Meets(Merged(e.columns, e.seen).fields, EffectiveTypes(b, scope, e.seen.scope))
  /\ Commit(w, [menu[b] EXCEPT !.item = Merged(e.columns, menu[b].item)])

\* Nothing of it may be left (foreign keys).
DeleteItem(w, b) ==
  /\ menu[b].item # None
  /\ \A g \in OptionGroups : menu[b].group[g] = None
  /\ \A v \in Variants : menu[b].variant[v] = None
  /\ Delete(w, b, [menu[b] EXCEPT !.item = None], "item")

\* One active option of each variant group at most.
CanCombine(m, sel) ==
  /\ sel # {} /\ sel \subseteq ActiveChoices(m) /\ VariantChoices(m, sel) = sel
  /\ \A g \in OptionGroups : Cardinality(OfGroup(sel, g)) <= 1

BeginSaveVariant(w, b, v) ==
  \E sel \in SUBSET ItemOptions, active \in BOOLEAN :
    /\ CanCombine(menu[b], sel) \/ (menu[b].variant[v] # None /\ menu[b].variant[v].choices = sel)
    /\ \A u \in Variants \ { v } : menu[b].variant[u] # None => menu[b].variant[u].choices # sel
    /\ BeginEdit(w, b, v, menu[b].variant[v], [active |-> active, choices |-> sel])

\* The unique index on (menuItemId, signature) refuses a second one.
SaveVariant(w) ==
  LET e == edit[w]
      m == menu[e.branch]
  IN
  /\ e # None /\ e.target \in Variants
  /\ m.item # None /\ (e.seen = None <=> m.variant[e.target] = None)
  /\ \A u \in Variants \ { e.target } : m.variant[u] # None => m.variant[u].choices # e.columns.choices
  /\ \A c \in e.columns.choices : m.choice[c] # None
  /\ Commit(w, [m EXCEPT !.variant[e.target] = e.columns])

EditFails(w) ==
  /\ edit[w] # None /\ edit' = [edit EXCEPT ![w] = None]
  /\ UNCHANGED <<storefrontVars, crossed>>

\* Orders and counts move the stock (Stockroom), and invalidate by the way.
StockMoves(w, b) ==
  \E what \in { "item" } \cup ItemOptions \cup Variants :
    \/ what \in menu[b].short /\ Now(w, b, [menu[b] EXCEPT !.short = @ \ { what }])
    \/ what \notin menu[b].short /\ Now(w, b, [menu[b] EXCEPT !.short = @ \cup { what }])

-----------------------------------------------------------------------------
EditCategories(w, b) == SaveCategory(w, b) \/ KeepScopeOfCategory(w, b) \/ DeleteCategory(w, b)
EditItem(w, b) == CreateItem(w, b) \/ BeginUpdateItem(w, b) \/ DeleteItem(w, b)
EditGroups(w, b) == \E g \in OptionGroups : CreateGroup(w, b, g) \/ BeginUpdateGroup(w, b, g) \/ DeleteGroup(w, b, g)
EditChoices(w, b) == \E c \in ItemOptions : ToggleChoice(w, b, c) \/ DeleteChoice(w, b, c)
EditVariants(w, b) == \E v \in Variants : BeginSaveVariant(w, b, v)

CatalogueNext ==
  \/ FrontNext /\ UNCHANGED <<edit, crossed>>
  \/ \E w \in Writers :
       \/ UpdateGroup(w) \/ UpdateItem(w) \/ SaveVariant(w) \/ EditFails(w)
       \/ \E b \in Branches :
            /\ branch[b] # None /\ menu[b] # None
            /\ \/ EditCategories(w, b) \/ EditItem(w, b) \/ EditGroups(w, b)
               \/ EditChoices(w, b) \/ EditVariants(w, b) \/ StockMoves(w, b)

CatalogueSpec == CatalogueInit /\ [][CatalogueNext]_catalogueVars
-----------------------------------------------------------------------------
MenuTypeOK ==
  /\ FrontTypeOK
  /\ menu \in [Branches -> Menu \cup { None }]
  /\ \A b \in Branches : menu[b] # None =>
       (menu[b].item # None /\ menu[b].item.filed => menu[b].category # None)

\* Three pieces of code judge a selection, and agree: what a customer can put
\* together from the catalogue the cart takes, what the cart takes is in the
\* catalogue but for a hidden category, and what the cart takes of an item in
\* stock the checkout takes (branch-catalog.entity.ts, cart-mutation.service.ts,
\* checkout-validation.service.ts).
OneRuleForAll ==
  \A b \in Branches : menu[b] # None =>
    LET m == menu[b] IN
    /\ \A t \in Listed(b) \cup { None } : ItemIsShown(m, t) => CartAcceptsItem(m)
    /\ CartAcceptsItem(m) /\ ~ItemIsShown(m, None) => m.item.filed /\ ~m.category.active
    /\ \A sel \in SUBSET ItemOptions :
         /\ FromCatalogue(m, sel) <=> CartAcceptsSelection(m, sel)
         /\ CartAcceptsSelection(m, sel) <=> CheckoutAcceptsSelection(m, sel)

\* minSelect never exceeds maxSelect, so that some number of options fits, and
\* a variant group takes one at most, unless two edits of the group crossed
\* (merchant-menu-option-groups.service.ts, assertSelectionBounds).
GroupsCanBeFilled ==
  \A b \in Branches, g \in OptionGroups :
    menu[b] # None /\ menu[b].group[g] # None /\ <<b, g>> \notin crossed =>
      LET row == menu[b].group[g] IN row.min .. row.max # {} /\ (row.variant => row.min .. row.max \subseteq {0, 1})

\* An item put under certain store types has what they ask for, whatever
\* becomes of their approval later, unless two edits of it crossed
\* (merchant-menu-items.service.ts, assertMenuVerticalCatalogRules).
ScopedItemsMeetTheirRules ==
  \A b \in Branches : menu[b] # None /\ menu[b].item # None /\ <<b, "item">> \notin crossed =>
    Meets(menu[b].item.fields, menu[b].item.scope)

\* The rules of a menu hold together: catalogue, cart and checkout judge alike,
\* every option group can be filled, every item has what its types ask for.
MenuRulesHold == MenuTypeOK /\ OneRuleForAll /\ GroupsCanBeFilled /\ ScopedItemsMeetTheirRules
=============================================================================
