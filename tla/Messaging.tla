------------------------------ MODULE Messaging ------------------------------
(***************************************************************************)
(* Conversations about one order (src/modules/messaging): who may open a   *)
(* lane and is put in it, messages with a receipt for everyone who was in  *)
(* the lane when the sender looked, reading up to a message or everything, *)
(* paging back through the history and pruning it.  Messages are numbered  *)
(* by createdAt, which is taken before the transaction commits, so they    *)
(* may become visible in another order.                                    *)
(***************************************************************************)
EXTENDS Rows

CONSTANTS
  RiderUsers,
  Chats,         \* lanes the state space starts in
  Desks,         \* requests in flight at once
  Keep,          \* messages that pruning keeps
  PageSize,
  MaxMessages    \* bound

VARIABLES
  lane,          \* the lane the run is about
  assigned,      \* rider of the order
  members,       \* participants of the conversation; {} before it is created
  posted,        \* committed messages
  stamps,        \* createdAt values taken
  receipt,       \* MessageReceipt.status by message and user
  lastRead,      \* lastReadMessageId by user
  lastMessage,
  desk,          \* what each request is doing
  skipped,       \* <<message, user>> of those who joined after the sender had looked
  overtaken      \* <<message, user>> that appeared under or behind a mark as read

messagingVars == <<lane, assigned, members, posted, stamps, receipt, lastRead, lastMessage, desk, skipped, overtaken>>

Users == { "customer", "merchant", "admin" } \cup RiderUsers
Role(u) == IF u \in RiderUsers THEN "RIDER" ELSE IF u = "customer" THEN "CUSTOMER" ELSE IF u = "merchant" THEN "MERCHANT" ELSE "ADMIN"
Lanes == { "ORDER_CHAT", "CUSTOMER_MERCHANT", "CUSTOMER_RIDER", "MERCHANT_RIDER",
           "CUSTOMER_OPERATIONS", "MERCHANT_OPERATIONS", "RIDER_OPERATIONS" }
Messages == 1..MaxMessages

SendRow == [op : { "send" }, from : Users \cup { "system" }, to : SUBSET Users, late : SUBSET Users, stamp : Messages \cup { 0 }]
PruneRow == [op : { "prune" }]
ReadRow == [op : { "read" }, user : Users, ids : SUBSET Messages, target : Messages \cup { 0 }]
PageRow == [op : { "page" }, user : Users, cursor : Messages \cup { 0 }, seen : SUBSET Messages, since : SUBSET Messages]

ASSUME MessagingAssumption ==
  /\ Chats \subseteq Lanes /\ "system" \notin RiderUsers /\ None \notin RiderUsers
  /\ MaxMessages \in Nat /\ PageSize \in Nat \ {0}
  /\ None \notin { "READ", "DELIVERED" } /\ None \notin SendRow \cup PruneRow \cup ReadRow \cup PageRow

Does(d, op) == desk[d] # None /\ desk[d].op = op

-----------------------------------------------------------------------------
(* Who may open a lane, and who is put in it.                               *)

requiresAssignedRiderConversationType(type) == type \in { "ORDER_CHAT", "CUSTOMER_RIDER", "MERCHANT_RIDER", "RIDER_OPERATIONS" }

\* The parties of the order a lane is for.
Parties(type, rider) ==
  UNION { IF type \in { "ORDER_CHAT", "CUSTOMER_MERCHANT", "CUSTOMER_RIDER", "CUSTOMER_OPERATIONS" } THEN { "customer" } ELSE {},
          IF type \in { "ORDER_CHAT", "CUSTOMER_MERCHANT", "MERCHANT_RIDER", "MERCHANT_OPERATIONS" } THEN { "merchant" } ELSE {},
          IF requiresAssignedRiderConversationType(type) THEN { rider } \ { None } ELSE {} }

\* Lanes that take in whoever of the operations opens them.
IsOpenToOperations(type) == type \in { "ORDER_CHAT", "CUSTOMER_OPERATIONS", "MERCHANT_OPERATIONS", "RIDER_OPERATIONS" }

canResolveConversationForOrder(u, type, rider) ==
  /\ requiresAssignedRiderConversationType(type) => rider # None
  /\ u \in Parties(type, rider) \/ (u = "admin" /\ IsOpenToOperations(type))

\* Broken variant: operations are let into the order chat without joining it.
ParticipantsOfOrder(u, type, rider) ==
  Parties(type, rider) \cup (IF u = "admin" /\ type # "ORDER_CHAT" THEN { "admin" } ELSE {})
    \cup (IF type = "ORDER_CHAT" THEN { "system" } ELSE {})

\* Defined where the lane has its rider.
buildConversationParticipants(u, type, rider) ==
  Parties(type, rider) \cup (IF u = "admin" /\ IsOpenToOperations(type) THEN { "admin" } ELSE {})
    \cup (IF type = "ORDER_CHAT" THEN { "system" } ELSE {})

MessageTypes == { "TEXT", "IMAGE", "FILE", "PROOF_OF_HANDOFF", "PROOF_OF_DELIVERY" }
Proofs == { "PROOF_OF_HANDOFF", "PROOF_OF_DELIVERY" }

\* canSendMessage, and canSendAttachment for the attachments the type calls for.
canSendMessage(u, type) == u \in members /\ (type \in Proofs => Role(u) \in { "MERCHANT", "RIDER" })

-----------------------------------------------------------------------------

MessagingInit ==
  /\ lane \in Chats /\ assigned = None /\ members = {} /\ posted = {} /\ stamps = 0
  /\ receipt = [m \in Messages |-> [u \in Users |-> None]]
  /\ lastRead = [u \in Users |-> 0] /\ lastMessage = 0
  /\ desk = [d \in Desks |-> None] /\ skipped = {} /\ overtaken = {}

\* The dispatcher gives the order to another rider.
AssignRider(r) ==
  /\ assigned # r /\ assigned' = r
  /\ UNCHANGED <<lane, members, posted, stamps, receipt, lastRead, lastMessage, desk, skipped, overtaken>>

\* The lane takes these in; those among them who were not in it before have no
\* receipt of what is posted, nor of what is being sent to the others.
Latecomers(who) == (who \ members) \ { "system" }
Join(who) == members' = members \cup who /\ skipped' = skipped \cup (posted \X Latecomers(who))
Missing(entry, who) == IF entry # None /\ entry.op = "send" THEN [entry EXCEPT !.late = @ \cup Latecomers(who)] ELSE entry

\* ConversationService.resolve.
Resolve(u) ==
  /\ canResolveConversationForOrder(u, lane, assigned)
  /\ LET who == buildConversationParticipants(u, lane, assigned) IN
     Join(who) /\ desk' = [d \in Desks |-> Missing(desk[d], who)]
  /\ UNCHANGED <<lane, assigned, posted, stamps, receipt, lastRead, lastMessage, overtaken>>

-----------------------------------------------------------------------------
(* Sending.                                                                 *)

\* Broken variant: those the lane would be opened with now.
ReceiversOfOrder(who) == (Parties(lane, assigned) \cap who) \ { "system" }

\* Everyone in the conversation with a user id.
Receivers(who) == who \ { "system" }

Sending(from, to) == [op |-> "send", from |-> from, to |-> to, late |-> {}, stamp |-> 0]

BeginSend(d, u) ==
  /\ desk[d] = None /\ \E type \in MessageTypes : canSendMessage(u, type)
  /\ desk' = [desk EXCEPT ![d] = Sending(u, Receivers(members))]
  /\ UNCHANGED <<lane, assigned, members, posted, stamps, receipt, lastRead, lastMessage, skipped, overtaken>>

\* SystemMessageService.publishOrderEvent: without a rider there is no order
\* chat and the event is dropped; otherwise the chat is resolved first.
BeginEvent(d, u) ==
  /\ desk[d] = None /\ lane = "ORDER_CHAT" /\ assigned # None
  /\ LET who == buildConversationParticipants(u, lane, assigned) IN
     Join(who) /\ desk' = [e \in Desks |-> IF e = d THEN Sending("system", Receivers(members \cup who)) ELSE Missing(desk[e], who)]
  /\ UNCHANGED <<lane, assigned, posted, stamps, receipt, lastRead, lastMessage, overtaken>>

TakeStamp(d) ==
  /\ Does(d, "send") /\ desk[d].stamp = 0 /\ stamps < MaxMessages
  /\ stamps' = stamps + 1 /\ desk' = [desk EXCEPT ![d].stamp = stamps']
  /\ UNCHANGED <<lane, assigned, members, posted, receipt, lastRead, lastMessage, skipped, overtaken>>

\* Users whose request to mark as read is past its reading.
Marking == { desk[d].user : d \in { e \in Desks : Does(e, "read") } }

\* MessageRepository.create; its own sender has read the message.
CommitMessage(d) ==
  /\ Does(d, "send") /\ desk[d].stamp # 0
  /\ LET m == desk[d].stamp IN
     /\ posted' = posted \cup { m } /\ lastMessage' = m
     /\ receipt' = [receipt EXCEPT ![m] = [u \in Users |-> IF u \notin desk[d].to THEN None
                                                           ELSE IF u = desk[d].from THEN "READ" ELSE "DELIVERED"]]
     /\ skipped' = skipped \cup { <<m, u>> : u \in desk[d].late }
     /\ overtaken' = overtaken \cup { <<m, u>> : u \in Marking \cup { v \in Users : m <= lastRead[v] } }
     /\ desk' = [desk EXCEPT ![d] = [op |-> "prune"]]
  /\ UNCHANGED <<lane, assigned, members, stamps, lastRead>>

\* All but the newest Keep, and but the conversation's last message.
Stale == { m \in posted : Cardinality({ n \in posted : n > m }) >= Keep } \ { lastMessage }

\* Broken variant: receipts go with their message.
DeletesAlways(ms) == TRUE

\* MessageReceipt's foreign key restricts: one message with a receipt stops
\* the whole statement, and its error is swallowed.
Deletes(ms) == \A m \in ms, u \in Users : receipt[m][u] = None

PruneOldMessages(d) ==
  /\ Does(d, "prune")
  /\ posted' = IF Deletes(Stale) THEN posted \ Stale ELSE posted
  /\ desk' = [desk EXCEPT ![d] = None]
  /\ UNCHANGED <<lane, assigned, members, stamps, receipt, lastRead, lastMessage, skipped, overtaken>>

-----------------------------------------------------------------------------
(* Reading.                                                                 *)

\* Broken variant: up to the message before.
UpToBefore(m) == { n \in posted : n < m }

UpTo(m) == { n \in posted : n <= m }

\* markMessageRead: its transaction first reads the messages up to the target.
BeginMarkRead(d, u, m) ==
  /\ desk[d] = None /\ m \in posted /\ u \in members
  /\ desk' = [desk EXCEPT ![d] = [op |-> "read", user |-> u, ids |-> UpTo(m), target |-> m]]
  /\ UNCHANGED <<lane, assigned, members, posted, stamps, receipt, lastRead, lastMessage, skipped, overtaken>>

\* markAllConversationsRead: the pointer goes to what is the last message when
\* the receipts have been written.
BeginMarkAll(d, u) ==
  /\ desk[d] = None /\ \E m \in posted : receipt[m][u] = "DELIVERED"
  /\ desk' = [desk EXCEPT ![d] = [op |-> "read", user |-> u, ids |-> posted, target |-> 0]]
  /\ UNCHANGED <<lane, assigned, members, posted, stamps, receipt, lastRead, lastMessage, skipped, overtaken>>

CommitRead(d) ==
  /\ Does(d, "read")
  /\ LET u == desk[d].user IN
     /\ receipt' = [m \in Messages |-> IF m \in desk[d].ids /\ receipt[m][u] # None THEN [receipt[m] EXCEPT ![u] = "READ"] ELSE receipt[m]]
     /\ lastRead' = [lastRead EXCEPT ![u] = IF desk[d].target = 0 THEN lastMessage ELSE desk[d].target]
  /\ desk' = [desk EXCEPT ![d] = None]
  /\ UNCHANGED <<lane, assigned, members, posted, stamps, lastMessage, skipped, overtaken>>

\* Broken variant: the cursor is the one message read ahead, which the next
\* page skips.
CursorAhead(rest, page) == IF rest = {} THEN 0 ELSE Max(rest)

\* The oldest message of the page.
NextCursor(rest, page) == IF rest = {} THEN 0 ELSE Min(page)

\* listConversationMessages with and without a cursor; a cursor that has gone
\* yields nothing.
Page(before) ==
  LET older == { m \in posted : m < before } IN
  { m \in older : Cardinality({ n \in older : n > m }) < PageSize }

ReadPage(d, u) ==
  /\ u \in members
  /\ \/ desk[d] = None
     \/ Does(d, "page") /\ desk[d].user = u /\ desk[d].cursor # 0
  /\ LET first == desk[d] = None
         before == IF first THEN MaxMessages + 1 ELSE desk[d].cursor
         page == IF first \/ before \in posted THEN Page(before) ELSE {}
         rest == { m \in posted : m < before } \ page IN
     desk' = [desk EXCEPT ![d] = [op |-> "page", user |-> u, cursor |-> NextCursor(rest, page),
                                  seen |-> page \cup (IF first THEN {} ELSE desk[d].seen),
                                  since |-> IF first THEN posted ELSE desk[d].since]]
  /\ UNCHANGED <<lane, assigned, members, posted, stamps, receipt, lastRead, lastMessage, skipped, overtaken>>

CloseHistory(d) ==
  /\ Does(d, "page") /\ desk' = [desk EXCEPT ![d] = None]
  /\ UNCHANGED <<lane, assigned, members, posted, stamps, receipt, lastRead, lastMessage, skipped, overtaken>>

MessagingNext ==
  \/ \E r \in RiderUsers : AssignRider(r)
  \/ \E u \in Users : Resolve(u)
  \/ \E d \in Desks :
       \/ TakeStamp(d) \/ CommitMessage(d) \/ PruneOldMessages(d) \/ CommitRead(d) \/ CloseHistory(d)
       \/ \E u \in Users :
            \/ BeginSend(d, u) \/ BeginEvent(d, u) \/ BeginMarkAll(d, u) \/ ReadPage(d, u)
            \/ \E m \in Messages : BeginMarkRead(d, u, m)

MessagingSpec == MessagingInit /\ [][MessagingNext]_messagingVars
-----------------------------------------------------------------------------
(* Properties.                                                              *)

\* Everyone in the conversation has a receipt of every message, but for those
\* who joined after its sender had read who is in it
\* (message.service.ts:123-126, system-message.service.ts:105-108).
NobodyIsSkipped ==
  \A m \in posted, u \in members \ { "system" } : receipt[m][u] = None => <<m, u>> \in skipped

\* Whatever is not newer than the message a user has read up to is read, unless
\* it became visible while or after the user read: created before, committed
\* later (message.repository.ts:250-302, 316-370).
PointerAgrees ==
  \A u \in Users, m \in posted :
    m <= lastRead[u] /\ receipt[m][u] = "DELIVERED" => <<m, u>> \in overtaken

\* Paging back until nothing more is announced shows every message there was
\* at the first page and still is (message.repository.ts:203-240).
HistoryIsRead ==
  \A d \in Desks : Does(d, "page") /\ desk[d].cursor = 0 => desk[d].since \cap posted \subseteq desk[d].seen

\* Pruning takes nothing away that somebody has a receipt of, whatever it was
\* meant to (message.repository.ts:118-145, schema.prisma:1290).
HistoryIsKept == [][posted \subseteq posted']_messagingVars

\* Whoever may open a lane is in it afterwards, in every lane and with or
\* without a rider (conversation-resolution-policy.helper.ts).
OpenersAreIn ==
  \A type \in Lanes, u \in Users :
    canResolveConversationForOrder(u, type, assigned) => u \in buildConversationParticipants(u, type, assigned)

\* Everyone who belongs to a conversation is in it, has a receipt of every
\* message, and what is marked or paged through has been read.
MessagesAgree == NobodyIsSkipped /\ PointerAgrees /\ HistoryIsRead /\ OpenersAreIn
=============================================================================
