---------------------------- MODULE MCServices ----------------------------
(***************************************************************************)
(* The services around the orders, each on a small instance of its own and *)
(* from its own side: what the payment provider reports, pushes, sessions, *)
(* conversations, quiet hours, addresses, support tickets, dead letters.   *)
(***************************************************************************)
EXTENDS PushDelivery, PaymentEvents, Sessions, Messaging, QuietHours, Addresses, SupportTickets, DeadLetters

VARIABLE side

CONSTANTS e1, e2, i1

Sides == { "payment", "push", "session", "chat", "quiet", "address", "ticket", "queue" }

serviceVars == <<side, paymentVars, pushVars, sessionVars, messagingVars, quietVars, addressVars, supportVars, deadLetterVars>>
-----------------------------------------------------------------------------
(* Two reports about the payment, among them one without an id and one that *)
(* names no payment; an admin confirms by hand; the merchant accepts when   *)
(* no report waits.                                                         *)

Form(words, named, ref, own, id) == [words |-> words, named |-> named, ref |-> ref, own |-> own, id |-> id]
FirstKinds == { Form({ "success" }, TRUE, None, TRUE, TRUE), Form({ "failed", "pending" }, TRUE, "ref1", TRUE, FALSE) }
OtherKinds == { Form({ "expired" }, TRUE, "ref1", TRUE, TRUE), Form({ "success" }, FALSE, "ref1", TRUE, TRUE),
                Form({ "cancelled" }, TRUE, None, FALSE, TRUE), Form({ "pending" }, TRUE, None, TRUE, TRUE) }
SomeKinds == FirstKinds \cup OtherKinds

Waiting == MapThenSumSet(LAMBDA r : owed[r], RowIds) + MapThenSumSet(LAMBDA j : reportQueue[j], ReportJobs)
             + Cardinality({ c \in Clerks : hand[c] # None })

PaymentStep ==
  /\ PaymentNext /\ Waiting' <= 2
  /\ \A a \in Admins : hand[a] = None /\ hand'[a] # None =>
       hand'[a].target = "SUCCEEDED" /\ hand'[a].ref = "ref2" /\ charge.status = "REQUIRES_ACTION"
  /\ order' # order /\ order' = "MERCHANT_ACCEPTED" => Waiting = 0

-----------------------------------------------------------------------------
(* The merchant writes, the customer reads, and the admin comes in late.    *)

MessagingStep ==
  /\ MessagingNext
  /\ \A d \in Desks : desk[d] = None /\ desk'[d] # None =>
       /\ desk'[d].op = "send" => desk'[d].from \in { "merchant", "system" }
       /\ desk'[d].op \in { "read", "page" } => desk'[d].user = "customer"
  /\ members' # members /\ posted # {} => "admin" \in members'

\* Updates come in one hour, to one instance.
QuietStep ==
  /\ QuietNext
  /\ \A c \in Calls : handling[c] = None /\ handling'[c] # None /\ handling'[c].step = "save" =>
       hour = 1 /\ handling'[c].at = i1

\* Agents wait for the customer, or close the ticket.
TicketStep ==
  /\ SupportNext
  /\ \A q \in Requests : request[q] = None /\ request'[q] # None /\ request'[q].step = "status" =>
       request'[q].to \in { "PENDING_CUSTOMER", "CLOSED" }

-----------------------------------------------------------------------------

MCInit ==
  /\ side \in Sides
  /\ PaymentInit /\ PushInit /\ SessionInit /\ MessagingInit /\ QuietInit /\ AddressInit /\ SupportInit /\ DeadLetterInit
  /\ IF side = "payment" THEN report[e1] \in FirstKinds /\ report[e2] \in OtherKinds ELSE report = [e \in Reports |-> CHOOSE k \in Kinds : TRUE]
  /\ side # "chat" => lane = "ORDER_CHAT"
  /\ preference.push /\ (side # "quiet" => preference.quiet = None)

MCNext ==
  /\ UNCHANGED side
  /\ \/ side = "payment" /\ PaymentStep /\ UNCHANGED <<pushVars, sessionVars, messagingVars, quietVars, addressVars, supportVars, deadLetterVars>>
     \/ side = "push" /\ PushNext /\ UNCHANGED <<paymentVars, sessionVars, messagingVars, quietVars, addressVars, supportVars, deadLetterVars>>
     \/ side = "session" /\ SessionNext /\ UNCHANGED <<paymentVars, pushVars, messagingVars, quietVars, addressVars, supportVars, deadLetterVars>>
     \/ side = "chat" /\ MessagingStep /\ UNCHANGED <<paymentVars, pushVars, sessionVars, quietVars, addressVars, supportVars, deadLetterVars>>
     \/ side = "quiet" /\ QuietStep /\ UNCHANGED <<paymentVars, pushVars, sessionVars, messagingVars, addressVars, supportVars, deadLetterVars>>
     \/ side = "address" /\ AddressNext /\ UNCHANGED <<paymentVars, pushVars, sessionVars, messagingVars, quietVars, supportVars, deadLetterVars>>
     \/ side = "ticket" /\ TicketStep /\ UNCHANGED <<paymentVars, pushVars, sessionVars, messagingVars, quietVars, addressVars, deadLetterVars>>
     \/ side = "queue" /\ DeadLetterNext /\ UNCHANGED <<paymentVars, pushVars, sessionVars, messagingVars, quietVars, addressVars, supportVars>>

MCSpec == MCInit /\ [][MCNext]_serviceVars /\ PushFairness
=============================================================================
