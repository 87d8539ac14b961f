----------------------------- MODULE Storefront -----------------------------
(***************************************************************************)
(* Which store types exist, which of them each branch has, which of those  *)
(* is its primary one, and what the caches in front of them say.           *)
(*                                                                         *)
(* An assignment is written in a READ COMMITTED transaction which then     *)
(* makes the branch's primary store type agree with the approved           *)
(* assignments: it lists them, clears the marks, and sets one.  Two such   *)
(* transactions on one branch interleave at their statements; rows they    *)
(* wrote are locked until they end.                                        *)
(***************************************************************************)
EXTENDS Caches

CONSTANTS Branches, Types

Status == { "PENDING", "APPROVED", "REJECTED", "HIDDEN" }
Assignment == [status : Status, primary : BOOLEAN]
BranchRow == [open : BOOLEAN, primary : Types \cup { None }]
Transaction ==
  [op : { "assign", "lifecycle", "request" }, branch : Branches, type : Types, seen : Assignment \cup { None },
   status : Status, mark : BOOLEAN \cup { None }, step : { "read", "saved", "listed", "cleared" },
   chosen : Types \cup { None }, cleared : SUBSET Types, overtaken : BOOLEAN]

StoreTypeKey(t) == <<"storeType", t>>
TypeListKey == <<"storeTypes", None>>
DiscoveryKey == <<"discovery", None>>
BranchKey(b) == <<"branch", b>>
MenuKey(b) == <<"menu", b>>
FrontKeys == { StoreTypeKey(t) : t \in Types } \cup { TypeListKey, DiscoveryKey }
             \cup { BranchKey(b) : b \in Branches } \cup { MenuKey(b) : b \in Branches }

ASSUME FrontAssumption ==
  /\ Keys \subseteq FrontKeys
  /\ None \notin Types \cup BOOLEAN /\ None \notin Assignment /\ None \notin BranchRow /\ None \notin Transaction

VARIABLES
  storeType,   \* isActive of each store type, None before it is created
  assigned,    \* BranchStoreType rows
  branch,      \* Branch rows: is it open, and its primaryStoreTypeId
  menu,        \* what is on each branch's menu (Catalogue)
  tx,          \* the transaction each writer is in
  raced        \* branches whose last transaction was overtaken by another

frontVars == <<storeType, assigned, branch, tx, raced>>
storefrontVars == <<frontVars, menu, cacheVars>>

FrontInit ==
  /\ storeType = [t \in Types |-> None]
  /\ assigned = [b \in Branches |-> [t \in Types |-> None]]
  /\ branch = [b \in Branches |-> None]
  /\ tx = [w \in Writers |-> None] /\ raced = {}
  /\ CachesInit

-----------------------------------------------------------------------------
(* What customers and merchants are shown, when it is read afresh.         *)

HasStatus(row, s) == row # None /\ row.status = s
Approved(b) == { t \in Types : HasStatus(assigned[b][t], "APPROVED") }
ActiveTypes == { t \in Types : storeType[t] = TRUE }
Listed(b) == Approved(b) \cap ActiveTypes

\* A branch is found under its approved active types, with their marks.
Discoverable ==
  { [branch |-> b, types |-> { <<t, assigned[b][t].primary>> : t \in Listed(b) }] :
      b \in { c \in Branches : branch[c] # None /\ branch[c].open /\ Listed(c) # {} } }

\* A branch with its menu.
MenuEntry(b) ==
  IF branch[b] = None THEN None ELSE [open |-> branch[b].open, types |-> Listed(b), rows |-> menu[b]]

FreshFront(k) ==
  CASE k[1] = "storeType"  -> storeType[k[2]]
    [] k[1] = "storeTypes" -> ActiveTypes
    [] k[1] = "discovery"  -> Discoverable
    [] k[1] = "branch"     -> branch[k[2]]
    [] k[1] = "menu"       -> MenuEntry(k[2])

\* Discovery may be read anew while its entry is there; the others not.
ReadFront(r, k) ==
  /\ FreshFront(k) # None
  /\ k # DiscoveryKey => cache[k] = None
  /\ Miss(r, k, FreshFront(k)) /\ UNCHANGED frontVars

\* A writer that has committed `deletes` the keys it knows of; what else
\* changes what is read stays as it is.
Publish(w, deletes, forgotten) ==
  WriteThrough(w, { k \in Keys : FreshFront(k)' # FreshFront(k) }, deletes \cap Keys, forgotten)

-----------------------------------------------------------------------------
(* Store types.                                                            *)

Free(w) == tx[w] = None /\ pending[w] = {}

CreateStoreType(w, t) ==
  /\ Free(w) /\ storeType[t] = None
  /\ \E active \in BOOLEAN : storeType' = [storeType EXCEPT ![t] = active]
  /\ UNCHANGED <<assigned, branch, tx, raced>>
  /\ Publish(w, { TypeListKey, DiscoveryKey }, {})

TypeKeys(t) == { StoreTypeKey(t), TypeListKey, DiscoveryKey }

SetActive(w, t, active) ==
  /\ storeType' = [storeType EXCEPT ![t] = active]
  /\ UNCHANGED <<assigned, branch, tx, raced>>
  /\ Publish(w, TypeKeys(t), { MenuKey(b) : b \in Branches })

UpdateStoreType(w, t) ==
  /\ Free(w) /\ storeType[t] # None
  /\ \E active \in BOOLEAN : SetActive(w, t, active)

\* What requireStoreType finds: the entry, if there is one.
FoundType(t) == IF cache[StoreTypeKey(t)] # None THEN cache[StoreTypeKey(t)] ELSE storeType[t]

\* Nothing is done to a type found archived.
ArchiveStoreType(w, t) ==
  /\ Free(w) /\ storeType[t] # None /\ FoundType(t) # FALSE
  /\ SetActive(w, t, FALSE)

ActivateStoreType(w, t) == Free(w) /\ storeType[t] # None /\ SetActive(w, t, TRUE)

-----------------------------------------------------------------------------
(* Branches.                                                               *)

CreateBranch(w, b) ==
  /\ Free(w) /\ branch[b] = None
  /\ \E open \in BOOLEAN : branch' = [branch EXCEPT ![b] = [open |-> open, primary |-> None]]
  /\ UNCHANGED <<storeType, assigned, tx, raced>>
  /\ Publish(w, { BranchKey(b) }, {})

UpdateBranch(w, b) ==
  /\ Free(w) /\ branch[b] # None
  /\ \E open \in BOOLEAN : branch' = [branch EXCEPT ![b].open = open]
  /\ UNCHANGED <<storeType, assigned, tx, raced>>
  /\ Publish(w, { BranchKey(b), DiscoveryKey }, { MenuKey(b) })

-----------------------------------------------------------------------------
(* Assignments.                                                            *)

Start(w, op, b, t, status, mark) ==
  /\ Free(w) /\ branch[b] # None
  /\ tx' = [tx EXCEPT ![w] = [op |-> op, branch |-> b, type |-> t, seen |-> assigned[b][t],
                              status |-> status, mark |-> mark, step |-> "read",
                              chosen |-> None, cleared |-> {}, overtaken |-> FALSE]]
  /\ UNCHANGED <<storeType, assigned, branch, raced, cacheVars>>

\* mark is the payload's isPrimary; only an approved type can be marked.
PrimaryCompatible(status, mark) == mark = TRUE => status = "APPROVED"
BeginAssign(w, b, t) ==
  /\ storeType[t] = TRUE
  /\ \E status \in Status, mark \in { TRUE, FALSE, None } :
       PrimaryCompatible(status, mark) /\ Start(w, "assign", b, t, status, mark)

\* approve and unhide, reject, hide
BeginLifecycle(w, b, t) ==
  /\ assigned[b][t] # None
  /\ \/ /\ storeType[t] = TRUE
        /\ \E mark \in { TRUE, FALSE, None } : Start(w, "lifecycle", b, t, "APPROVED", mark)
     \/ \E status \in { "REJECTED", "HIDDEN" } : Start(w, "lifecycle", b, t, status, FALSE)

BeginRequest(w, b, t) ==
  /\ storeType[t] = TRUE /\ ~HasStatus(assigned[b][t], "APPROVED")
  /\ Start(w, "request", b, t, "PENDING", FALSE)

Others(w) == { v \in Writers \ { w } : tx[v] # None /\ tx[v].branch = tx[w].branch }
Locks(v) == IF tx[v].step = "read" THEN {} ELSE { tx[v].type } \cup tx[v].cleared
LockedByOthers(w) == UNION { Locks(v) : v \in Others(w) }

NewRow(w) ==
  LET s == tx[w].seen
      mark == IF tx[w].mark # None THEN tx[w].mark ELSE IF s = None THEN FALSE ELSE s.primary
  IN  [status |-> tx[w].status, primary |-> tx[w].status = "APPROVED" /\ mark]

\* The rows as w sees them: committed by others, or its own.
Seen(w) == [assigned[tx[w].branch] EXCEPT ![tx[w].type] = NewRow(w)]
Step(w, from, to) == tx[w] # None /\ tx[w].step = from /\ tx' = [tx EXCEPT ![w] = to]

\* A row that somebody else has inserted in the meantime cannot be inserted.
Save(w) ==
  /\ Step(w, "read", [tx[w] EXCEPT !.step = "saved"])
  /\ tx[w].type \notin LockedByOthers(w)
  /\ tx[w].seen = None => assigned[tx[w].branch][tx[w].type] = None
  /\ UNCHANGED <<storeType, assigned, branch, raced, cacheVars>>

MarkedOnly(w) ==
  LET marked == { t \in Types : HasStatus(Seen(w)[t], "APPROVED") /\ Seen(w)[t].primary }
  IN  IF marked # {} THEN marked ELSE { None }
\* syncBranchPrimaryStoreType, in three steps.  (Among several marked rows,
\* or unmarked ones if none is, the sort order decides.)
Candidates(w) ==
  LET approved == { t \in Types : HasStatus(Seen(w)[t], "APPROVED") }
      marked == { t \in approved : Seen(w)[t].primary }
  IN  IF marked # {} THEN marked ELSE IF approved # {} THEN approved ELSE { None }

ListApproved(w) ==
  /\ tx[w] # None /\ tx[w].op # "request"
  /\ \E t \in Candidates(w) : Step(w, "saved", [tx[w] EXCEPT !.step = "listed", !.chosen = t])
  /\ UNCHANGED <<storeType, assigned, branch, raced, cacheVars>>

ClearMarks(w) ==
  LET marked == { t \in Types : Seen(w)[t] # None /\ Seen(w)[t].primary } IN
  /\ Step(w, "listed", [tx[w] EXCEPT !.step = "cleared", !.cleared = marked])
  /\ marked \cap LockedByOthers(w) = {}
  /\ UNCHANGED <<storeType, assigned, branch, raced, cacheVars>>

Finish(w, rows, primary) ==
  LET b == tx[w].branch IN
  /\ assigned' = [assigned EXCEPT ![b] = rows]
  /\ branch' = [branch EXCEPT ![b].primary = primary]
  /\ raced' = IF tx[w].overtaken THEN raced \cup { b }
              ELSE IF tx[w].op = "request" THEN raced ELSE raced \ { b }
  /\ tx' = [v \in Writers |-> IF v = w THEN None
                              ELSE IF v \in Others(w) THEN [tx[v] EXCEPT !.overtaken = TRUE] ELSE tx[v]]
  /\ UNCHANGED storeType

DeletesNothing(op) == {}
\* Hiding, rejecting and approving invalidates the discovery; assigning and
\* requesting invalidates nothing, and nobody the branch and its menu.
Deletes(op) == IF op = "lifecycle" THEN { DiscoveryKey } ELSE {}
Forgotten(op, b) ==
  { BranchKey(b), MenuKey(b) } \cup (IF op = "lifecycle" THEN {} ELSE { DiscoveryKey })

MarkPrimary(w) ==
  LET c == tx[w].chosen IN
  /\ tx[w] # None /\ tx[w].step = "cleared" /\ c \notin LockedByOthers(w)
  /\ Finish(w, [t \in Types |-> IF t = c THEN [Seen(w)[t] EXCEPT !.primary = TRUE]
                                ELSE IF t \in tx[w].cleared THEN [Seen(w)[t] EXCEPT !.primary = FALSE]
                                ELSE Seen(w)[t]], c)
  /\ Publish(w, Deletes(tx[w].op), Forgotten(tx[w].op, tx[w].branch))

\* A merchant's request leaves the primary type alone.
CommitRequest(w) ==
  /\ tx[w] # None /\ tx[w].op = "request" /\ tx[w].step = "saved"
  /\ Finish(w, Seen(w), branch[tx[w].branch].primary)
  /\ Publish(w, {}, Forgotten("request", tx[w].branch))

\* A lost race, a deadlock, or a timeout: the transaction is rolled back.
RollBack(w) ==
  /\ tx[w] # None /\ tx' = [tx EXCEPT ![w] = None]
  /\ UNCHANGED <<storeType, assigned, branch, raced, cacheVars>>

-----------------------------------------------------------------------------
ManageTypes(w) ==
  \E t \in Types : CreateStoreType(w, t) \/ UpdateStoreType(w, t) \/ ArchiveStoreType(w, t) \/ ActivateStoreType(w, t)

ManageBranches(w) == \E b \in Branches : CreateBranch(w, b) \/ UpdateBranch(w, b)

ManageAssignments(w) ==
  \/ \E b \in Branches, t \in Types : BeginAssign(w, b, t) \/ BeginLifecycle(w, b, t) \/ BeginRequest(w, b, t)
  \/ Save(w) \/ ListApproved(w) \/ ClearMarks(w) \/ MarkPrimary(w) \/ CommitRequest(w) \/ RollBack(w)

FrontNext ==
  /\ UNCHANGED menu
  /\ \/ \E w \in Writers : ManageTypes(w) \/ ManageBranches(w) \/ ManageAssignments(w)
     \/ \E r \in Readers, k \in Keys : ReadFront(r, k)
     \/ CacheNext /\ UNCHANGED frontVars

-----------------------------------------------------------------------------
FrontTypeOK ==
  /\ storeType \in [Types -> BOOLEAN \cup { None }]
  /\ \A b \in Branches, t \in Types : assigned[b][t] = None \/ assigned[b][t] \in Assignment
  /\ \A b \in Branches : branch[b] = None \/ branch[b] \in BranchRow
  /\ raced \subseteq Branches /\ gap \subseteq Keys

\* A branch's primary store type is the one approved assignment that is
\* marked, and there is one as soon as one is approved - unless the last
\* transaction on the branch was overtaken by another between its statements;
\* the next one that is not puts it right
\* (store-type-management.service.ts, syncBranchPrimaryStoreType).
PrimaryAgrees ==
  \A b \in Branches \ raced : branch[b] # None =>
    LET p == branch[b].primary IN
    /\ { t \in Types : assigned[b][t] # None /\ assigned[b][t].primary } = { p } \ { None }
    /\ p = None => Approved(b) = {}
    /\ p # None => p \in Approved(b)

\* An entry that is there says what the database says, or is about to be
\* deleted, or is out of date for one of three reasons: a fill that a write
\* and its invalidation overtook, an invalidation that was lost, a write that
\* forgets the entry.
FrontCoherent ==
  \A k \in Keys \ (gap \cup Awaited) : cache[k] \in { None, FreshFront(k) }
=============================================================================
