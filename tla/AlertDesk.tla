------------------------------ MODULE AlertDesk ------------------------------
(***************************************************************************)
(* Inventory alerts in the inbox of a merchant: published when stock falls *)
(* (notification-event.service), acknowledged, resolved and dismissed by   *)
(* admins, resolved by the compensation of a cancelled order, and followed *)
(* up by the digest cycles, which any number of API instances start.  Their *)
(* state is the newest verdict in the audit log.  All alerts here are of   *)
(* one tracked item.                                                       *)
(***************************************************************************)
EXTENDS Inbox

CONSTANTS
  Cooldown,           \* inventoryAlertCooldownMs
  RemindAge, RemindCooldown, EscalateAge, EscalateCooldown,
  MaxTime             \* bound of the clock

Levels == { "LOW_STOCK", "OUT_OF_STOCK" }
Verdicts == { "acknowledged", "resolved", "dismissed" }

Notice == [kind : AlertKinds \cup { "OTHER" }, level : Levels \cup { None }, at : 0..MaxTime, read : BOOLEAN]

\* What a request is doing.
Marking == [op : { "read" }, todo : SUBSET Ids, count : 0..MaxNotices]
Publication == [op : { "publish" }, level : Levels, late : BOOLEAN]
Decision == [op : Verdicts \cup { "auto" }, todo : SUBSET Ids, old : SUBSET Ids]
Clearing == [op : { "clear" }, levels : SUBSET Levels]
Digest == [op : { "digest" }, remind : SUBSET Ids, escalate : SUBSET Ids, sent : BOOLEAN, old : SUBSET Ids]

ASSUME AlertAssumption ==
  /\ Cooldown \in Nat /\ RemindAge \in Nat /\ RemindCooldown \in Nat
  /\ EscalateAge \in Nat /\ EscalateCooldown \in Nat /\ MaxTime \in Nat
  /\ None \notin Notice /\ None \notin Marking /\ None \notin Publication /\ None \notin Decision
  /\ None \notin Clearing /\ None \notin Digest

VARIABLES
  reminded,           \* when the merchant was last reminded of each alert
  escalated,          \* when it was last escalated
  overlapped,         \* alerts published on a check that was out of date
  reopened            \* closed alerts that a late acknowledgement opened again

alertVars == <<inboxVars, reminded, escalated, overlapped, reopened>>
followUpVars == <<reminded, escalated>>

Attention == { i \in Existing : notice[i].kind = "ATTENTION" }

AlertInit ==
  /\ InboxInit
  /\ reminded = [i \in Ids |-> None] /\ escalated = [i \in Ids |-> None]
  /\ overlapped = {} /\ reopened = {}

Tick ==
  /\ now < MaxTime /\ now' = now + 1
  /\ UNCHANGED <<notice, log, task, emitting, badge, skewed, pruning, page, followUpVars, overlapped, reopened>>

Doing(h, ops) == task[h] # None /\ task[h].op \in ops
Others(h) == { g \in Requests : g # h /\ task[g] # None }

-----------------------------------------------------------------------------
(* publishMerchantInventoryAlert.                                           *)

\* Broken variant: an acknowledged alert no longer counts.
RepeatsOpen(level) ==
  \E i \in Attention :
    notice[i].at >= now - Cooldown /\ notice[i].level = level /\ Status(i) = "open"

\* hasRecentMerchantInventoryAlert.
Repeats(level) ==
  LET recent == { i \in AlertIds : notice[i].at >= now - Cooldown } IN
    \E i \in recent \cap Attention :
      /\ notice[i].level = level /\ Status(i) # "resolved"
      /\ ~ /\ Status(i) = "dismissed"
           /\ \E j \in recent : notice[j].kind = "COMPENSATION" /\ j > i

CheckAlert(h, level) ==
  /\ Free(h) /\ ~Repeats(level)
  /\ task' = [task EXCEPT ![h] = [op |-> "publish", level |-> level, late |-> FALSE]]
  /\ UNCHANGED <<notice, log, now, emitting, badge, skewed, pruning, page, followUpVars, overlapped, reopened>>

PublishAlert(h) ==
  /\ Doing(h, { "publish" })
  /\ Post(h, "ATTENTION", task[h].level)
  /\ overlapped' = IF task[h].late THEN overlapped \cup { NextId } ELSE overlapped
  /\ task' = [g \in Requests |->
       IF g = h THEN None
       ELSE IF Doing(g, { "publish" }) THEN [task[g] EXCEPT !.late = TRUE] ELSE task[g]]
  /\ UNCHANGED <<log, now, badge, skewed, page, followUpVars, reopened>>

-----------------------------------------------------------------------------
(* Verdicts: one entry in the audit log each, written one after the other   *)
(* on what was read before the first.                                       *)

\* Broken variant: a verdict under a name nobody reads.
VerdictAsIs(op) == op

Verdict(op) == IF op = "auto" THEN "resolved" ELSE op

\* autoResolveRecoveredInventoryAlerts builds its map of the "latest" entries
\* from a list that begins with the newest, so that the oldest one stays.
Oldest(i) == IF log[i] = <<>> THEN "open" ELSE log[i][1]

\* Broken variant: an acknowledgement of whatever was not acknowledged before.
DueUnguarded(op, i) ==
  CASE op = "acknowledged" -> \A k \in DOMAIN log[i] : log[i][k] # "acknowledged"
    [] op = "resolved" -> ~Closed(i)
    [] op = "dismissed" -> Status(i) # "dismissed"
    [] op = "auto" -> Oldest(i) \notin { "resolved", "dismissed" }

Due(op, i) ==
  CASE op = "acknowledged" -> ~Closed(i) /\ \A k \in DOMAIN log[i] : log[i][k] # "acknowledged"
    [] op = "resolved" -> ~Closed(i)
    [] op = "dismissed" -> Status(i) # "dismissed"
    [] op = "auto" -> Oldest(i) \notin { "resolved", "dismissed" }

Intends(h, op, ids) ==
  LET todo == { i \in ids : Due(op, i) } IN
    task' = [task EXCEPT ![h] = IF todo = {} THEN None ELSE [op |-> op, todo |-> todo, old |-> {}]]

\* One alert that does not exist refuses them all.
ReadAlerts(h, op, ids) ==
  /\ Free(h) /\ ids # {} /\ ids \subseteq AlertIds /\ Intends(h, op, ids)
  /\ UNCHANGED <<notice, log, now, emitting, badge, skewed, pruning, page, followUpVars, overlapped, reopened>>

AcknowledgeInventoryAlert(h, i) == ReadAlerts(h, "acknowledged", { i })
ResolveInventoryAlert(h, i) == ReadAlerts(h, "resolved", { i })
BulkAcknowledge(h, ids) == ReadAlerts(h, "acknowledged", ids)
BulkDismiss(h, ids) == ReadAlerts(h, "dismissed", ids)

\* What the others have read of alert i is out of date.
Outdates(h, i, next) ==
  task' = [g \in Requests |->
    IF g = h THEN next
    ELSE IF Doing(g, Verdicts \cup { "auto", "digest" }) THEN [task[g] EXCEPT !.old = @ \cup { i }] ELSE task[g]]

WriteVerdict(h, i) ==
  /\ Doing(h, Verdicts \cup { "auto" }) /\ emitting[h] = None /\ i \in task[h].todo
  /\ log' = [log EXCEPT ![i] = Append(@, Verdict(task[h].op))]
  /\ Outdates(h, i, IF task[h].todo = { i } THEN None ELSE [task[h] EXCEPT !.todo = @ \ { i }])
  /\ reopened' = IF Closed(i) /\ task[h].op = "acknowledged" THEN reopened \cup { i } ELSE reopened
  /\ UNCHANGED <<notice, now, emitting, badge, skewed, pruning, page, followUpVars, overlapped>>

\* publishMerchantInventoryCompensationAlert: its own notice, and then the
\* alerts of the item that the restored stock clears.
Compensate(h, clears) ==
  /\ Free(h) /\ Post(h, "COMPENSATION", None)
  /\ task' = [task EXCEPT ![h] = [op |-> "clear", levels |-> clears]]
  /\ UNCHANGED <<log, now, badge, skewed, page, followUpVars, overlapped, reopened>>

ReadRecovered(h) ==
  /\ Doing(h, { "clear" }) /\ emitting[h] = None
  /\ Intends(h, "auto", { i \in Attention : notice[i].level \in task[h].levels })
  /\ UNCHANGED <<notice, log, now, emitting, badge, skewed, pruning, page, followUpVars, overlapped, reopened>>

\* shouldAutoResolveAttentionAlert, of a restored stock and its threshold.
Clears(stock, threshold) ==
  { level \in Levels : stock # None /\
      IF level = "OUT_OF_STOCK" \/ threshold = None THEN stock > 0 ELSE stock > threshold }

-----------------------------------------------------------------------------
(* NotificationAlertDigestService.runDigestCycle, triggered at `at`.        *)

\* Broken variant: an alert is looked at again whatever was done about it.
WantsOften(i, at, last, age, cooldown) == notice[i].at <= at - age

Wants(i, at, last, age, cooldown) ==
  /\ notice[i].at <= at - age
  /\ ~(last[i] # None /\ last[i] >= at - cooldown)

\* Every instance enqueues cycles at its own interval, stamped as it does so;
\* the job may wait.
TriggeredAt == 0..now

ReadDigest(h, at) ==
  /\ Free(h) /\ at \in TriggeredAt
  /\ LET open == { i \in Attention : ~Closed(i) }
         remind == { i \in open : Wants(i, at, reminded, RemindAge, RemindCooldown) }
         escalate == { i \in open : Wants(i, at, escalated, EscalateAge, EscalateCooldown) }
     IN /\ remind \cup escalate # {}
        /\ task' = [task EXCEPT ![h] = [op |-> "digest", remind |-> remind, escalate |-> escalate,
                                        sent |-> FALSE, old |-> {}]]
  /\ UNCHANGED <<notice, log, now, emitting, badge, skewed, pruning, page, followUpVars, overlapped, reopened>>

\* One notice to the merchant for all of them, and then an entry for each.
SendReminder(h) ==
  /\ Doing(h, { "digest" }) /\ task[h].remind # {} /\ ~task[h].sent
  /\ Post(h, "OTHER", None) /\ task' = [task EXCEPT ![h].sent = TRUE]
  /\ UNCHANGED <<log, now, badge, skewed, page, followUpVars, overlapped, reopened>>

LogReminder(h, i) ==
  /\ Doing(h, { "digest" }) /\ task[h].sent /\ emitting[h] = None /\ i \in task[h].remind
  /\ reminded' = [reminded EXCEPT ![i] = now]
  /\ Outdates(h, i, IF task[h].remind = { i } /\ task[h].escalate = {} THEN None
                    ELSE [task[h] EXCEPT !.remind = @ \ { i }])
  /\ UNCHANGED <<notice, log, now, emitting, badge, skewed, pruning, page, escalated, overlapped, reopened>>

\* The active operations users are told (in inboxes of their own); with none
\* of them nothing is logged.
LogEscalation(h, i) ==
  /\ Doing(h, { "digest" }) /\ task[h].remind = {} /\ emitting[h] = None /\ i \in task[h].escalate
  /\ escalated' = [escalated EXCEPT ![i] = now]
  /\ Outdates(h, i, IF task[h].escalate = { i } THEN None ELSE [task[h] EXCEPT !.escalate = @ \ { i }])
  /\ UNCHANGED <<notice, log, now, emitting, badge, skewed, pruning, page, reminded, overlapped, reopened>>

NobodyToEscalateTo(h) ==
  /\ Doing(h, { "digest" }) /\ task[h].remind = {} /\ emitting[h] = None
  /\ task' = [task EXCEPT ![h] = None]
  /\ UNCHANGED <<notice, log, now, emitting, badge, skewed, pruning, page, followUpVars, overlapped, reopened>>

AlertNext ==
  \/ InboxNext /\ UNCHANGED <<followUpVars, overlapped, reopened>>
  \/ Tick
  \/ \E h \in Requests :
       \/ \E level \in Levels : CheckAlert(h, level)
       \/ PublishAlert(h) \/ ReadRecovered(h) \/ SendReminder(h) \/ NobodyToEscalateTo(h)
       \/ \E i \in Ids : AcknowledgeInventoryAlert(h, i) \/ ResolveInventoryAlert(h, i)
       \/ \E ids \in SUBSET Ids : BulkAcknowledge(h, ids) \/ BulkDismiss(h, ids)
       \/ \E stock, threshold \in { None, 0, 1, 2 } : Compensate(h, Clears(stock, threshold))
       \/ \E at \in 0..MaxTime : ReadDigest(h, at)
       \/ \E i \in Ids : WriteVerdict(h, i) \/ LogReminder(h, i) \/ LogEscalation(h, i)

AlertSpec == AlertInit /\ [][AlertNext]_alertVars
-----------------------------------------------------------------------------
(* Properties.                                                              *)

AlertTypeOK ==
  /\ \A i \in Existing : notice[i] \in Notice
  /\ log \in [Ids -> Seq(Verdicts)] /\ badge \in 0..MaxNotices /\ overlapped \cup reopened \subseteq Ids
  /\ { reminded[i] : i \in Ids } \cup { escalated[i] : i \in Ids } \subseteq { None } \cup 0..MaxTime

\* The merchant never has two alerts of one level for one item within the
\* cooldown, the older still open, unless the two publications overlapped or
\* a stale verdict reopened the older.
NoTwins ==
  \A i, j \in Attention :
    i < j /\ notice[i].level = notice[j].level /\ notice[j].at - notice[i].at <= Cooldown /\ ~Closed(i)
      => j \in overlapped \/ i \in reopened

\* A step of a request that read alert i before somebody else wrote on it.
ByStale(i) ==
  \E h \in Requests :
    Doing(h, Verdicts \cup { "auto", "digest" }) /\ i \in task[h].old /\ task'[h] # task[h]

\* A closed alert is closed for good, except that a resolved one may be
\* dismissed, that a request may have read it while it was open, and that a
\* compensation resolves it once more if it had been acknowledged first (the
\* map of its "latest" entries keeps the oldest).
ClosingIsFinal ==
  [][\A i \in Ids : Closed(i) /\ log'[i] # log[i] =>
       \/ Status(i) = "resolved" /\ Status(i)' = "dismissed"
       \/ ByStale(i)
       \/ Oldest(i) = "acknowledged" /\ \E h \in Requests : Doing(h, { "auto" })]_alertVars

\* Nobody is reminded of, or called upon for, an alert twice within the
\* cooldown, or after it was closed, unless another cycle or a verdict came
\* between the reading of the cycle and its entry.
FollowUpsAreDue ==
  [][\A i \in Ids : ~ByStale(i) =>
       /\ reminded'[i] # reminded[i] => ~Closed(i) /\ (reminded[i] # None => now - reminded[i] > RemindCooldown)
       /\ escalated'[i] # escalated[i] => ~Closed(i) /\ (escalated[i] # None => now - escalated[i] > EscalateCooldown)]_alertVars

\* What the merchant sees of the alerts is what there is: one of each within
\* the cooldown, the right number on the badge, none missed while paging.
InboxAgrees == AlertTypeOK /\ NoTwins /\ BadgeIsRight /\ PagesMissNothing

\* The desk moves alerts forward: what is closed stays closed, and follow-ups
\* keep their distance.
AlertsMoveOn == ClosingIsFinal /\ FollowUpsAreDue
=============================================================================
