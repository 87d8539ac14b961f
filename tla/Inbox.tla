-------------------------------- MODULE Inbox --------------------------------
(***************************************************************************)
(* The notification center of one user (notifications.service and its      *)
(* repository): posting a notice, marking notices read, the unread count   *)
(* pushed to the user's sockets after each change, the pruning of old      *)
(* notices, and a client that pages through them.                          *)
(***************************************************************************)
EXTENDS Rows, Sequences

CONSTANTS
  MaxNotices,   \* bound: notices ever posted
  Keep,         \* notices pruning leaves
  PageLimit,    \* notices on one page
  Requests      \* requests and jobs at work at the same time

Ids == 1..MaxNotices
Emission == [counted : 0..MaxNotices \cup { None }]
Page == [query : { "ALL", "UNREAD", "INVENTORY_OPEN" }, cursor : Ids \cup { None }, upTo : 0..MaxNotices,
         seen : SUBSET Ids, skipped : SUBSET Ids, more : BOOLEAN]

\* Pruning leaves something, and a page shows something.
ASSUME InboxAssumption ==
  /\ MaxNotices \in Nat /\ Keep \in Nat \ {0} /\ PageLimit \in Nat \ {0}
  /\ None \notin Nat /\ None \notin Emission /\ None \notin Page

VARIABLES
  notice,       \* rows by id, in the order of creation
  log,          \* the verdicts in the audit log on each notice, oldest first
  now,
  task,         \* what each request is doing
  emitting,     \* requests that owe the user's sockets an unread count
  badge,        \* the count the sockets show
  skewed,       \* the last count was out of date when it was shown
  pruning,      \* a pruning is under way
  page          \* a client in the middle of a list

inboxVars == <<notice, log, now, task, emitting, badge, skewed, pruning, page>>

Existing == { i \in Ids : notice[i] # None }
Unread == { i \in Existing : ~notice[i].read }
AlertKinds == { "ATTENTION", "COMPENSATION" }
AlertIds == { i \in Existing : notice[i].kind \in AlertKinds }
Newest(ids, n) == { i \in ids : Cardinality({ j \in ids : j > i }) < n }

\* The newest verdict decides.
Status(i) == IF log[i] = <<>> THEN "open" ELSE log[i][Len(log[i])]
Closed(i) == Status(i) \in { "resolved", "dismissed" }

InboxInit ==
  /\ notice = [i \in Ids |-> None] /\ log = [i \in Ids |-> <<>>] /\ now = 0
  /\ task = [h \in Requests |-> None] /\ emitting = [h \in Requests |-> None]
  /\ badge = 0 /\ skewed = FALSE /\ pruning = FALSE /\ page = None

Free(h) == task[h] = None /\ emitting[h] = None
NextId == 1 + Cardinality({ i \in Ids : \E j \in Existing : i <= j })

-----------------------------------------------------------------------------
(* createNotification, and the counts that follow any change.               *)

Owes(h) == emitting' = [emitting EXCEPT ![h] = [counted |-> None]]

Post(h, kind, level) ==
  /\ NextId \in Ids
  /\ notice' = [notice EXCEPT ![NextId] = [kind |-> kind, level |-> level, at |-> now, read |-> FALSE]]
  /\ Owes(h) /\ pruning' = TRUE

CountUnread(h) ==
  /\ emitting[h] # None /\ emitting[h].counted = None
  /\ emitting' = [emitting EXCEPT ![h].counted = Cardinality(Unread)]
  /\ UNCHANGED <<notice, log, now, task, badge, skewed, pruning, page>>

EmitUnread(h) ==
  /\ emitting[h] # None /\ emitting[h].counted # None
  /\ badge' = emitting[h].counted /\ skewed' = (badge' # Cardinality(Unread))
  /\ emitting' = [emitting EXCEPT ![h] = None]
  /\ UNCHANGED <<notice, log, now, task, pruning, page>>

\* pruneOldNotifications, which nobody awaits and whose failure is swallowed.
PruneOld ==
  /\ pruning /\ pruning' = FALSE
  /\ notice' = [i \in Ids |-> IF i \in Newest(Existing, Keep) THEN notice[i] ELSE None]
  /\ skewed' = (skewed \/ \E i \in Unread : i \notin Newest(Existing, Keep))
  /\ UNCHANGED <<log, now, task, emitting, badge, page>>

PruneFails ==
  /\ pruning /\ pruning' = FALSE
  /\ UNCHANGED <<notice, log, now, task, emitting, badge, skewed, page>>

\* An order event, a message, an automatic cancellation.
PostOther(h) ==
  /\ Free(h) /\ Post(h, "OTHER", None)
  /\ UNCHANGED <<log, now, task, badge, skewed, page>>

-----------------------------------------------------------------------------
(* Reading.                                                                 *)

Reads(ids) == notice' = [i \in Ids |-> IF i \in ids \cap Existing THEN [notice[i] EXCEPT !.read = TRUE] ELSE notice[i]]

MarkRead(h, i) ==
  /\ Free(h) /\ i \in Existing /\ Reads({ i }) /\ Owes(h)
  /\ UNCHANGED <<log, now, task, badge, skewed, pruning, page>>

MarkAllRead(h) ==
  /\ Free(h) /\ Unread # {} /\ Reads(Unread) /\ Owes(h)
  /\ UNCHANGED <<log, now, task, badge, skewed, pruning, page>>

\* bulkMarkInventoryAlertsRead counts first which of them are unread.
BeginBulkRead(h, ids) ==
  /\ Free(h) /\ ids # {} /\ ids \subseteq AlertIds
  /\ task' = [task EXCEPT ![h] = [op |-> "read", todo |-> ids, count |-> Cardinality(ids \cap Unread)]]
  /\ UNCHANGED <<notice, log, now, emitting, badge, skewed, pruning, page>>

\* Broken variant: emits only if all of them were unread.
WorthEmittingAll(t) == t.count = Cardinality(t.todo)

WorthEmitting(t) == t.count > 0

BulkRead(h) ==
  /\ task[h] # None /\ task[h].op = "read"
  /\ Reads(task[h].todo) /\ task' = [task EXCEPT ![h] = None]
  /\ IF WorthEmitting(task[h]) THEN Owes(h) ELSE UNCHANGED emitting
  /\ UNCHANGED <<log, now, badge, skewed, pruning, page>>

-----------------------------------------------------------------------------
(* A list, page by page, from the newest notice to the oldest.              *)

\* What the database filters, and what is filtered in memory after it.
Fetched(query) == IF query = "UNREAD" THEN Unread ELSE IF query = "INVENTORY_OPEN" THEN AlertIds ELSE Existing
Matching(query) ==
  { i \in Fetched(query) : query = "INVENTORY_OPEN" => notice[i].kind = "ATTENTION" /\ Status(i) = "open" }

OpenList(query) ==
  /\ page # None => ~page.more
  /\ page' = [query |-> query, cursor |-> None, upTo |-> NextId - 1, seen |-> {}, skipped |-> {}, more |-> TRUE]
  /\ UNCHANGED <<notice, log, now, task, emitting, badge, skewed, pruning>>

\* The rows from the cursor on; the first of them is taken for the cursor's
\* own row and skipped, also when that row is no longer among them.  A cursor
\* that has been deleted finds nothing.
FromCursor(query, cursor) == { i \in Fetched(query) : cursor # None => cursor \in Existing /\ i <= cursor }
SkippedAt(query, cursor) == IF cursor = None THEN {} ELSE Newest(FromCursor(query, cursor), 1)

\* Broken variant: the next page begins after the last row fetched, not after
\* the last one shown.
AfterFetched(shown, found) == Min(found)

AfterShown(shown, found) == Min(shown)

FetchPage ==
  /\ page # None /\ page.more
  /\ LET skipped == SkippedAt(page.query, page.cursor)
         found == (FromCursor(page.query, page.cursor) \ skipped) \cap Matching(page.query)
         shown == Newest(found, PageLimit)
         more == Cardinality(found) > PageLimit
     IN page' = [page EXCEPT !.seen = @ \cup shown, !.skipped = @ \cup (skipped \ { page.cursor }), !.more = more,
                             !.cursor = IF more THEN AfterShown(shown, Newest(found, PageLimit + 1)) ELSE None]
  /\ UNCHANGED <<notice, log, now, task, emitting, badge, skewed, pruning>>

\* The process dies: what the request still owes is never done.
RequestDies(h) ==
  /\ ~Free(h)
  /\ task' = [task EXCEPT ![h] = None] /\ emitting' = [emitting EXCEPT ![h] = None]
  /\ skewed' = (skewed \/ emitting[h] # None)
  /\ UNCHANGED <<notice, log, now, badge, pruning, page>>

Queries == { "ALL", "UNREAD", "INVENTORY_OPEN" }

InboxNext ==
  \/ \E h \in Requests :
       \/ CountUnread(h) \/ EmitUnread(h) \/ RequestDies(h) \/ PostOther(h) \/ MarkAllRead(h) \/ BulkRead(h)
       \/ \E i \in Ids : MarkRead(h, i)
       \/ \E ids \in SUBSET Ids : BeginBulkRead(h, ids)
  \/ PruneOld \/ PruneFails \/ FetchPage
  \/ \E q \in Queries : OpenList(q)
-----------------------------------------------------------------------------
(* Properties.                                                              *)

\* Once every change has been followed by its count, the sockets show the
\* number of unread notices, unless the last count shown was already old (two
\* changes crossed, or a pruning deleted unread notices after it).
BadgeIsRight ==
  (\A h \in Requests : emitting[h] = None) /\ ~skewed => badge = Cardinality(Unread)

\* A client that follows the cursors to the end has seen every notice that was
\* there when it began and still matches, except one that stood right after a
\* cursor whose own row stopped matching in the meantime.
PagesMissNothing ==
  page # None /\ ~page.more =>
    \A i \in Matching(page.query) : i <= page.upTo => i \in page.seen \cup page.skipped
=============================================================================
