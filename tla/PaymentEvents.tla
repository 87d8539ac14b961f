---------------------------- MODULE PaymentEvents ----------------------------
(***************************************************************************)
(* What a provider reports of one payment (payment-provider-webhook and    *)
(* payment-provider-event-processor): a report is stored, once if it       *)
(* carries an id, and queued at every delivery; a worker finds the payment *)
(* it is about, asks PaymentLifecycleService to finish it and marks the    *)
(* report.  Admins finish the same payment by hand.  What the lifecycle    *)
(* does to orders and their stock is OrderLifecycle's subject; here the    *)
(* order is PLACED, accepted or cancelled.                                 *)
(***************************************************************************)
EXTENDS Rows

CONSTANTS
  Reports,        \* what the provider has to say
  Kinds,          \* the forms a report may have
  MaxRows,        \* bound: stored events
  MaxReportTries, \* attempts of a job in the queue
  Clerks,         \* workers of the provider-webhooks queue
  Admins,
  MaxReportFaults \* bound: failed statements and dead processes

VARIABLES
  report,         \* the form of each report
  event,          \* PaymentProviderEvent rows: of which report, processing status
  owed,           \* webhook requests that have stored or found a row, by row
  reportQueue,    \* jobs, by row and attempt
  charge,         \* the payment
  order,
  released,       \* times the stock of the order was given back
  hand,           \* what each clerk and admin is doing
  overwritten,    \* an outcome was written over another, read before it
  hurt,           \* rows a statement or a process failed on
  failures

paymentVars == <<report, event, owed, reportQueue, charge, order, released, hand, overwritten, hurt, failures>>

RowIds == 1..MaxRows
Words == { "success", "failed", "cancelled", "expired", "pending" }
ReportKind == [words : SUBSET Words, named : BOOLEAN, ref : { None, "ref1", "ref2" }, own : BOOLEAN, id : BOOLEAN]
ReportJobs == [row : RowIds, attempt : 1..MaxReportTries]
EventRow == [report : Reports, status : { "RECEIVED", "PROCESSED", "FAILED", "IGNORED" }]
HandRow ==
  [job : ReportJobs \cup { None }, target : { "SUCCEEDED", "FAILED", "CANCELLED", "EXPIRED", "PENDING", None },
   step : { "call", "commit", "publish", "processed", "failed", "ignore", "mismatch" },
   ref : { None, "ref1", "ref2" }, old : BOOLEAN]

ASSUME PaymentAssumption ==
  /\ Kinds \subseteq ReportKind /\ MaxRows \in Nat /\ MaxReportTries \in Nat \ {0}
  /\ Clerks \cap Admins = {} /\ None \notin EventRow /\ None \notin HandRow /\ None \notin ReportJobs

Stored == { r \in RowIds : event[r] # None }
KindOf(r) == report[event[r].report]
Abandoned == { "FAILED", "CANCELLED", "EXPIRED" }

PaymentInit ==
  /\ report \in [Reports -> Kinds] /\ event = [r \in RowIds |-> None]
  /\ owed = [r \in RowIds |-> 0] /\ reportQueue = [j \in ReportJobs |-> 0]
  /\ charge = [status |-> "REQUIRES_ACTION", reference |-> None, attempts |-> 0]
  /\ order = "PLACED" /\ released = 0
  /\ hand = [p \in Clerks \cup Admins |-> None]
  /\ overwritten = FALSE /\ hurt = {} /\ failures = 0

-----------------------------------------------------------------------------
(* The webhook.                                                             *)

\* The first family of words found in the event's type and status decides,
\* success before failure.
Normalized(words) ==
  IF "success" \in words THEN "SUCCEEDED"
  ELSE IF "failed" \in words THEN "FAILED"
  ELSE IF "cancelled" \in words THEN "CANCELLED"
  ELSE IF "expired" \in words THEN "EXPIRED"
  ELSE IF "pending" \in words THEN "PENDING" ELSE None

Known(e) == { r \in Stored : event[r].report = e /\ report[e].id }

\* findExistingEvent and createPaymentProviderEvent; of two requests at once
\* the unique index refuses the second, which has no effect.
Ingest(e) ==
  \E r \in RowIds :
    /\ IF Known(e) # {} THEN r \in Known(e) /\ UNCHANGED event
       ELSE /\ r = Cardinality(Stored) + 1
            /\ event' = [event EXCEPT ![r] = [report |-> e, status |-> "RECEIVED"]]
    /\ owed[r] = 0 /\ owed' = [owed EXCEPT ![r] = 1]
    /\ UNCHANGED <<report, reportQueue, charge, order, released, hand, overwritten, hurt, failures>>

QueueReport(r) ==
  /\ owed[r] > 0 /\ owed' = [owed EXCEPT ![r] = 0]
  /\ reportQueue' = [reportQueue EXCEPT ![[row |-> r, attempt |-> 1]] = @ + 1]
  /\ UNCHANGED <<report, event, charge, order, released, hand, overwritten, hurt, failures>>

\* The request dies between the row and the job.
WebhookDies(r) ==
  /\ owed[r] > 0 /\ failures < MaxReportFaults /\ owed' = [owed EXCEPT ![r] = 0]
  /\ failures' = failures + 1 /\ hurt' = hurt \cup { r }
  /\ UNCHANGED <<report, event, reportQueue, charge, order, released, hand, overwritten>>

-----------------------------------------------------------------------------
(* The worker.                                                              *)

\* resolvePayment: the id the report names, or the latest payment of its
\* provider with its reference.
Resolves(k) == k.named \/ (k.ref # None /\ k.own /\ charge.reference = k.ref)

\* Broken variant: also acts on a report that the payment is still pending.
DispositionOfAny(k) ==
  IF Normalized(k.words) = None \/ ~Resolves(k) THEN "ignore"
  ELSE IF ~k.own THEN "mismatch" ELSE "call"

Disposition(k) ==
  IF Normalized(k.words) \in { None, "PENDING" } \/ ~Resolves(k) THEN "ignore"
  ELSE IF ~k.own THEN "mismatch" ELSE "call"

Turn(p, step) == hand' = [hand EXCEPT ![p].step = step]
At(p, steps) == hand[p] # None /\ hand[p].step \in steps
Lays(p) == hand' = [hand EXCEPT ![p] = None]

TakeReport(c, j) ==
  /\ hand[c] = None /\ reportQueue[j] > 0 /\ reportQueue' = [reportQueue EXCEPT ![j] = @ - 1]
  /\ hand' = [hand EXCEPT ![c] =
       IF event[j.row].status # "RECEIVED" THEN None
       ELSE [job |-> j, target |-> Normalized(KindOf(j.row).words), step |-> Disposition(KindOf(j.row)),
             ref |-> KindOf(j.row).ref, old |-> FALSE]]
  /\ UNCHANGED <<report, event, owed, charge, order, released, overwritten, hurt, failures>>

-----------------------------------------------------------------------------
(* PaymentLifecycleService.handleTransition.                                *)

\* confirm, fail and cancel, with a reference or without.
AdminActs(a, target, ref) ==
  /\ hand[a] = None /\ target \in { "SUCCEEDED", "FAILED", "CANCELLED" }
  /\ hand' = [hand EXCEPT ![a] = [job |-> None, target |-> target, step |-> "call", ref |-> ref, old |-> FALSE]]
  /\ UNCHANGED <<report, event, owed, reportQueue, charge, order, released, overwritten, hurt, failures>>

\* Broken variant: a payment that reports its target already is not let off.
NeverThere(target) == FALSE

IsThere(target) == charge.status = target

\* Broken variants: a failed payment may be tried again; one that awaits the
\* customer's action cannot be finished.
AllowedOrFailed(status) == status \in { "PENDING", "REQUIRES_ACTION", "PROCESSING", "FAILED" }
AllowedIfSent(status) == status \in { "PENDING", "PROCESSING" }

AllowedFrom(status) == status \in { "PENDING", "REQUIRES_ACTION", "PROCESSING" }

\* What the writer read of the payment is kept: the reference too.
Call(p) ==
  /\ At(p, { "call" })
  /\ hand' = [hand EXCEPT ![p] =
       IF IsThere(hand[p].target) THEN [hand[p] EXCEPT !.step = "processed"]
       ELSE IF AllowedFrom(charge.status)
       THEN [hand[p] EXCEPT !.step = "commit", !.ref = IF hand[p].ref = None THEN charge.reference ELSE hand[p].ref]
       ELSE [hand[p] EXCEPT !.step = "failed"]]
  /\ UNCHANGED <<report, event, owed, reportQueue, charge, order, released, overwritten, hurt, failures>>

\* Broken variant: forgets the payments that expire.
BacksOutUnlessExpired(target) == target \in { "FAILED", "CANCELLED" } /\ order = "PLACED"

\* shouldAutoCancelOrder, of an order that is not paid in cash.
BacksOut(target) == target \in Abandoned /\ order = "PLACED"

CommitOutcome(p) ==
  /\ At(p, { "commit" })
  /\ charge' = [status |-> hand[p].target, reference |-> hand[p].ref, attempts |-> charge.attempts + 1]
  /\ IF BacksOut(hand[p].target) THEN order' = "CANCELLED" /\ released' = released + 1
     ELSE UNCHANGED <<order, released>>
  /\ overwritten' = (overwritten \/ hand[p].old)
  /\ hand' = [q \in DOMAIN hand |->
       IF q = p THEN [hand[p] EXCEPT !.step = "publish"]
       ELSE IF At(q, { "commit" }) THEN [hand[q] EXCEPT !.old = TRUE] ELSE hand[q]]
  /\ UNCHANGED <<report, event, owed, reportQueue, hurt, failures>>

PublishOutcome(p) ==
  /\ At(p, { "publish" }) /\ Turn(p, "processed")
  /\ UNCHANGED <<report, event, owed, reportQueue, charge, order, released, overwritten, hurt, failures>>

Leaves(a) ==
  /\ a \in Admins /\ At(a, { "processed", "failed" }) /\ Lays(a)
  /\ UNCHANGED <<report, event, owed, reportQueue, charge, order, released, overwritten, hurt, failures>>

MerchantAccepts ==
  /\ order = "PLACED" /\ order' = "MERCHANT_ACCEPTED"
  /\ UNCHANGED <<report, event, owed, reportQueue, charge, released, hand, overwritten, hurt, failures>>

-----------------------------------------------------------------------------
(* The mark, and what goes wrong.                                           *)

MarkEvent(c, status) == event' = [event EXCEPT ![hand[c].job.row].status = status]

MarkReport(c) ==
  /\ c \in Clerks /\ At(c, { "processed", "ignore", "mismatch" }) /\ Lays(c)
  /\ MarkEvent(c, [processed |-> "PROCESSED", ignore |-> "IGNORED", mismatch |-> "FAILED"][hand[c].step])
  /\ UNCHANGED <<report, owed, reportQueue, charge, order, released, overwritten, hurt, failures>>

\* The queue runs the job of a handler that threw again, unless it was the
\* last attempt.
Again(j) ==
  IF j.attempt < MaxReportTries
  THEN reportQueue' = [reportQueue EXCEPT ![[j EXCEPT !.attempt = @ + 1]] = @ + 1]
  ELSE UNCHANGED reportQueue

\* The row is FAILED before the error is thrown again: the attempts that
\* follow find it so and return.
MarkFailedReport(c) ==
  /\ c \in Clerks /\ At(c, { "failed" }) /\ MarkEvent(c, "FAILED") /\ Again(hand[c].job) /\ Lays(c)
  /\ UNCHANGED <<report, owed, charge, order, released, overwritten, hurt, failures>>

\* A statement, or a message after the commit, fails.
LifecycleFails(p) ==
  /\ At(p, { "call", "commit", "publish" }) /\ failures < MaxReportFaults
  /\ failures' = failures + 1 /\ hurt' = IF p \in Clerks THEN hurt \cup { hand[p].job.row } ELSE hurt
  /\ Turn(p, "failed")
  /\ UNCHANGED <<report, event, owed, reportQueue, charge, order, released, overwritten>>

ClerkDies(c) ==
  /\ c \in Clerks /\ hand[c] # None /\ failures < MaxReportFaults
  /\ failures' = failures + 1 /\ hurt' = hurt \cup { hand[c].job.row }
  /\ Again(hand[c].job) /\ Lays(c)
  /\ UNCHANGED <<report, event, owed, charge, order, released, overwritten>>

PaymentNext ==
  \/ \E e \in Reports : Ingest(e)
  \/ \E r \in RowIds : QueueReport(r) \/ WebhookDies(r)
  \/ \E c \in Clerks : \/ \E j \in ReportJobs : TakeReport(c, j)
                       \/ MarkReport(c) \/ MarkFailedReport(c) \/ ClerkDies(c)
  \/ \E p \in Clerks \cup Admins : Call(p) \/ CommitOutcome(p) \/ PublishOutcome(p) \/ LifecycleFails(p)
  \/ \E a \in Admins : \/ Leaves(a)
                       \/ \E t \in { "SUCCEEDED" } \cup Abandoned, ref \in { None, "ref2" } : AdminActs(a, t, ref)
  \/ MerchantAccepts

PaymentSpec == PaymentInit /\ [][PaymentNext]_paymentVars
-----------------------------------------------------------------------------
(* Properties.                                                              *)

PaymentsTypeOK ==
  /\ report \in [Reports -> ReportKind] /\ order \in { "PLACED", "MERCHANT_ACCEPTED", "CANCELLED" }
  /\ charge.status \in { "REQUIRES_ACTION", "SUCCEEDED" } \cup Abandoned
  /\ \A r \in Stored : event[r].status \in { "RECEIVED", "PROCESSED", "FAILED", "IGNORED" }
  /\ \A r \in RowIds : owed[r] \in 0..1 /\ \A j \in ReportJobs : reportQueue[j] \in Nat

UnderwayReport(r) ==
  \/ owed[r] > 0
  \/ \E j \in ReportJobs : j.row = r /\ reportQueue[j] > 0
  \/ \E c \in Clerks : hand[c] # None /\ hand[c].job.row = r

\* The outcome of a payment changes only by somebody who read it before it
\* was there.
OutcomeIsFinal ==
  [][charge.status # "REQUIRES_ACTION" /\ charge'.status # charge.status =>
       \E p \in Clerks \cup Admins : At(p, { "commit" }) /\ hand[p].old /\ hand'[p] # hand[p]]_paymentVars

\* However often a report is delivered and its job is run, and whoever else
\* reports or decides, the payment is finished by one attempt and the stock of
\* its order comes back at most once, unless two of them overlapped.
EffectOnce == ~overwritten => charge.attempts <= 1 /\ released <= 1

\* A report marked PROCESSED tells what became of the payment; one marked
\* FAILED, though nothing failed, tells something else.
ReportAgrees ==
  ~overwritten => \A r \in Stored \ hurt :
    /\ event[r].status = "PROCESSED" => charge.status = Normalized(KindOf(r).words)
    /\ event[r].status = "FAILED" /\ KindOf(r).own => charge.status # Normalized(KindOf(r).words)

\* A report of an outcome that names its payment does not pass without one:
\* once nobody works on it the payment is finished, unless something failed on
\* the way (its retries cannot help: the row says FAILED by then) or it comes
\* from another provider.
ReportsTakeEffect ==
  \A r \in Stored \ hurt :
    ~UnderwayReport(r) /\ KindOf(r).named /\ KindOf(r).own /\ Normalized(KindOf(r).words) \notin { None, "PENDING" }
      => charge.status # "REQUIRES_ACTION"

\* The order of an abandoned payment does not wait for the merchant, and one
\* that was cancelled for its payment was not paid, unless outcomes overlapped.
OrderFollowsPayment ==
  /\ charge.status \in Abandoned => order # "PLACED"
  /\ order = "CANCELLED" /\ ~overwritten => charge.status \in Abandoned

\* Reports, payment and order agree: a report acts once, its mark tells what
\* became of it, none of an outcome is passed over, and the order follows.
PaymentsAgree == PaymentsTypeOK /\ EffectOnce /\ ReportAgrees /\ ReportsTakeEffect /\ OrderFollowsPayment
=============================================================================
