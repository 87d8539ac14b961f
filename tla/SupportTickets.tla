--------------------------- MODULE SupportTickets ---------------------------
(***************************************************************************)
(* A support ticket (support-tickets.service): agents set its status, the  *)
(* customer and the agents reply.  Every request reads the ticket first; a *)
(* reply is one statement, the change of status that may follow it is a    *)
(* transaction of its own.                                                 *)
(***************************************************************************)
EXTENDS Rows, Sequences

CONSTANTS
  Requests,      \* in flight at once
  MaxEntries,    \* bound: changes of status
  MaxReplies,    \* bound
  MaxLostDesks   \* bound: requests that die

VARIABLES
  ticket,        \* its status and the stamps resolvedAt and closedAt
  trail,         \* SupportTicketStatusHistory
  replies,       \* SupportTicketMessage rows: who wrote, and where trail was then
  request,       \* what each request is doing
  lost           \* requests that died

supportVars == <<ticket, trail, replies, request, lost>>

TicketStatus == { "OPEN", "IN_PROGRESS", "PENDING_CUSTOMER", "RESOLVED", "CLOSED" }
Terminal == { "RESOLVED", "CLOSED" }
RequestRow == [step : { "reply", "status" }, agent : BOOLEAN, saw : TicketStatus, to : TicketStatus, at : Nat]

ASSUME SupportAssumption == None \notin RequestRow

Asks(q, step) == request[q] # None /\ request[q].step = step

\* createTicket
SupportInit ==
  /\ ticket = [status |-> "OPEN", resolved |-> FALSE, closed |-> FALSE]
  /\ trail = <<[from |-> None, to |-> "OPEN", late |-> FALSE]>>
  /\ replies = <<[agent |-> FALSE, at |-> 1, late |-> FALSE]>>
  /\ request = [q \in Requests |-> None] /\ lost = 0

\* The read that every request begins with.
Reads(q, step, agent, to) ==
  /\ request[q] = None
  /\ request' = [request EXCEPT ![q] = [step |-> step, agent |-> agent, saw |-> ticket.status, to |-> to, at |-> Len(trail)]]
  /\ UNCHANGED <<ticket, trail, replies, lost>>

BeginReply(q, agent) == ticket.status \notin Terminal /\ Reads(q, "reply", agent, "IN_PROGRESS")
BeginChangeOfStatus(q, to) == to # ticket.status /\ Reads(q, "status", TRUE, to)

\* Broken variant: looks for tickets that are open.
ReopensIfOpen(agent, saw) == ~agent /\ saw = "OPEN"

\* shouldReopen
Reopens(agent, saw) == ~agent /\ saw = "PENDING_CUSTOMER"

AddMessage(q) ==
  /\ Asks(q, "reply") /\ Len(replies) < MaxReplies
  /\ replies' = Append(replies, [agent |-> request[q].agent, at |-> Len(trail), late |-> request[q].at # Len(trail)])
  /\ request' = IF Reopens(request[q].agent, request[q].saw) THEN [request EXCEPT ![q].step = "status"]
                ELSE [request EXCEPT ![q] = None]
  /\ UNCHANGED <<ticket, trail, lost>>

\* Broken variant: the entry tells where the ticket is, not where it was.
EntryOfNow(saw, to) == [from |-> to, to |-> to, late |-> FALSE]

Entry(saw, to) == [from |-> saw, to |-> to, late |-> FALSE]

\* The status goes with its entry, and a stamp once set stays.
ChangeStatus(q) ==
  /\ Asks(q, "status") /\ Len(trail) < MaxEntries
  /\ LET to == request[q].to IN
     /\ ticket' = [status |-> to, resolved |-> ticket.resolved \/ to = "RESOLVED", closed |-> ticket.closed \/ to = "CLOSED"]
     /\ trail' = Append(trail, [Entry(request[q].saw, to) EXCEPT !.late = request[q].at # Len(trail)])
  /\ request' = [request EXCEPT ![q] = None]
  /\ UNCHANGED <<replies, lost>>

\* The process dies, or the statement fails.
RequestDies(q) ==
  /\ request[q] # None /\ lost < MaxLostDesks /\ lost' = lost + 1
  /\ request' = [request EXCEPT ![q] = None]
  /\ UNCHANGED <<ticket, trail, replies>>

SupportNext ==
  \E q \in Requests :
    \/ \E agent \in BOOLEAN : BeginReply(q, agent)
    \/ \E to \in TicketStatus : BeginChangeOfStatus(q, to)
    \/ AddMessage(q) \/ ChangeStatus(q) \/ RequestDies(q)

SupportSpec == SupportInit /\ [][SupportNext]_supportVars
-----------------------------------------------------------------------------
(* Properties.                                                              *)

\* The history is unbroken: it ends in the ticket's status, and each of its
\* entries begins where the one before ended, except where its writer had read
\* an older ticket (support-tickets.service.ts:82-93, 100-126).
TrailAgrees ==
  /\ trail[Len(trail)].to = ticket.status
  /\ \A i \in 2..Len(trail) : trail[i].late \/ trail[i].from = trail[i - 1].to

\* Nobody waits for a customer who has answered: unless the answer's request
\* died after it was written, or had read the ticket before an agent began to
\* wait (support-tickets.service.ts:69-95).
AnswersAreTakenUp ==
  ticket.status = "PENDING_CUSTOMER" /\ (\A q \in Requests : request[q] = None) /\ lost = 0 =>
    \A i \in DOMAIN replies :
      ~replies[i].agent /\ ~replies[i].late => replies[i].at < Len(trail)

\* A ticket's history leads to its status, and its status takes the answers
\* into account.
TicketAgrees == TrailAgrees /\ AnswersAreTakenUp
=============================================================================
