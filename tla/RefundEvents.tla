---------------------------- MODULE RefundEvents ----------------------------
(***************************************************************************)
(* What a payment provider reports of refunds.  The webhook endpoint       *)
(* stores each event once, then queues a job for it and answers; a worker  *)
(* of the provider-webhooks queue finalises the refund the event is about  *)
(* through RefundOperationsService (module Refunds) and marks the event.   *)
(* Providers deliver an event again until they are answered, and sometimes *)
(* after that; admins finalise the same refunds by hand.                   *)
(*                                                                         *)
(* An event whose signature was rejected is stored as FAILED and never     *)
(* queued: it is left out.  So is reconciliation, which would retry FAILED *)
(* and IGNORED events: the job has a handler, and nothing queues it.       *)
(***************************************************************************)
EXTENDS Bags, BagsExt, Refunds

CONSTANTS
  Events, NoEvent,
  Reported,       \* the refund status each event reports
  About,          \* the refund it is about
  Workers,        \* those of Processes that run jobs; the others are admins
  Hooks,          \* webhook requests in flight at once
  MaxAttempts,    \* attempts of a job, 3 in QueueService.add
  MaxDeliveries,  \* model bound: deliveries of each event
  Faults          \* which processes may die, or find a service away

ASSUME RefundEventsAssumption ==
  /\ NoEvent \notin Events
  /\ Reported \in [Events -> RefundStatus] /\ About \in [Events -> RefundIds]
  /\ Workers \subseteq Processes
  /\ MaxAttempts \in Nat \ {0} /\ MaxDeliveries \in [Events -> Nat]
  /\ Faults \subseteq { "hook", "worker", "publish" }

VARIABLES
  event,      \* processingStatus of the RefundProviderEvent rows
  delivered,  \* how often the provider has sent an event
  answered,   \* events the provider has been answered for
  hook,       \* what each webhook request is doing
  jobs,       \* the provider-webhooks queue, a bag
  job,        \* the job each worker has
  dead        \* events whose job the queue has given up

eventVars == <<event, delivered, answered, hook, jobs, job, dead>>
vars == <<refundVars, eventVars>>

EventStatus == { "RECEIVED", "PROCESSED", "FAILED", "IGNORED" }
Job == [event : Events, attempt : 1 .. MaxAttempts, stalled : BOOLEAN]
NoHook == [event |-> NoEvent, step |-> "idle"]
NoJob == [event |-> NoEvent, attempt |-> 1, stalled |-> FALSE, step |-> "idle"]

(* The statuses an event may report that call for a step of the refund.    *)
ActionFor(e) == { op \in FinalOps : RefundTarget[op] = Reported[e] }

TypeOK ==
  /\ RefundTypeOK
  /\ event \in [Events -> EventStatus \cup { "NONE" }]
  /\ delivered \in [Events -> Nat] /\ answered \subseteq Events
  /\ hook \in [Hooks -> [event : Events \cup {NoEvent}, step : { "idle", "store", "queue" }]]
  /\ IsABag(jobs) /\ DOMAIN jobs \subseteq Job
  /\ job \in [Workers -> [event : Events \cup {NoEvent}, attempt : 1 .. MaxAttempts,
                          stalled : BOOLEAN,
                          step : { "idle", "call", "finalize", "process", "ignore", "fail" }]]
  /\ dead \subseteq Events

Init ==
  /\ RefundInit
  /\ event = [e \in Events |-> "NONE"]
  /\ delivered = [e \in Events |-> 0] /\ answered = {}
  /\ hook = [h \in Hooks |-> NoHook]
  /\ jobs = EmptyBag
  /\ job = [w \in Workers |-> NoJob]
  /\ dead = {}

-----------------------------------------------------------------------------
(* receiveRefundWebhook.                                                   *)

(* findExistingEvent *)
Deliver(h, e) ==
  /\ hook[h].step = "idle"
  /\ delivered[e] < MaxDeliveries[e]
  /\ delivered' = [delivered EXCEPT ![e] = @ + 1]
  /\ hook' = [hook EXCEPT ![h] = [event |-> e,
                                  step |-> IF event[e] = "NONE" THEN "store" ELSE "queue"]]
  /\ UNCHANGED <<refundVars, event, answered, jobs, job, dead>>

(* createRefundProviderEvent; the unique index refuses a second row, and   *)
(* that delivery is answered with an error.                                *)
StoreEvent(h) ==
  LET e == hook[h].event IN
  /\ hook[h].step = "store"
  /\ IF event[e] = "NONE"
     THEN /\ event' = [event EXCEPT ![e] = "RECEIVED"]
          /\ hook' = [hook EXCEPT ![h].step = "queue"]
     ELSE hook' = [hook EXCEPT ![h] = NoHook] /\ UNCHANGED event
  /\ UNCHANGED <<refundVars, delivered, answered, jobs, job, dead>>

(* Broken variant: a known event is answered without a job. *)
QueueNewEvent(h) ==
  LET e == hook[h].event IN
  /\ hook[h].step = "queue"
  /\ jobs' = IF delivered[e] = 1
             THEN BagAdd(jobs, [event |-> e, attempt |-> 1, stalled |-> FALSE]) ELSE jobs
  /\ answered' = answered \cup { e }
  /\ hook' = [hook EXCEPT ![h] = NoHook]
  /\ UNCHANGED <<refundVars, event, delivered, job, dead>>

(* Every delivery queues a job, that of a known event too, and is then     *)
(* answered.                                                               *)
QueueEvent(h) ==
  LET e == hook[h].event IN
  /\ hook[h].step = "queue"
  /\ jobs' = BagAdd(jobs, [event |-> e, attempt |-> 1, stalled |-> FALSE])
  /\ answered' = answered \cup { e }
  /\ hook' = [hook EXCEPT ![h] = NoHook]
  /\ UNCHANGED <<refundVars, event, delivered, job, dead>>

(* The request dies, or Redis is away; the provider will send again.       *)
HookDies(h) ==
  /\ "hook" \in Faults
  /\ hook[h].step # "idle" /\ delivered[hook[h].event] < MaxDeliveries[hook[h].event]
  /\ hook' = [hook EXCEPT ![h] = NoHook]
  /\ UNCHANGED <<refundVars, event, delivered, answered, jobs, job, dead>>

-----------------------------------------------------------------------------
(* processRefundProviderEvent.                                             *)

MayRun(w) == MayInterleave(w)
Turn(w, step) == job' = [job EXCEPT ![w].step = step]
Finish(w) == job' = [job EXCEPT ![w] = NoJob]

(* shouldProcessProviderEvent, without the reconciliation's retryTerminal. *)
ShouldProcess(e) == event[e] = "RECEIVED"

(* A worker takes a job, reads the event and the refund it is about.       *)
TakeEvent(w, j) ==
  /\ MayRun(w)
  /\ job[w].step = "idle" /\ BagIn(j, jobs)
  /\ jobs' = BagRemove(jobs, j)
  /\ LET known == ActionFor(j.event) # {} /\ refund[About[j.event]].status # "NONE" IN
       job' = IF ShouldProcess(j.event)
              THEN [job EXCEPT ![w] = [event |-> j.event, attempt |-> j.attempt,
                                       stalled |-> j.stalled,
                                       step |-> IF known THEN "call" ELSE "ignore"]]
              ELSE job
  /\ UNCHANGED <<refundVars, event, delivered, answered, hook, dead>>

(* finalizeRefund reads the refund: there already, it is done; under way,  *)
(* it is finalised; otherwise it throws a conflict.                        *)
CallLifecycle(w) ==
  LET e == job[w].event
      r == About[e] IN
  /\ MayRun(w)
  /\ job[w].step = "call"
  /\ IF refund[r].status = Reported[e] THEN Turn(w, "process") /\ UNCHANGED refundVars
     ELSE IF refund[r].status \in Finalizable
     THEN /\ Turn(w, "finalize")
          /\ \E op \in ActionFor(e) : BeginFinalize(w, op, r)
     ELSE Turn(w, "fail") /\ UNCHANGED refundVars
  /\ UNCHANGED <<event, delivered, answered, hook, jobs, dead>>

(* The transaction is that of Refunds; the message follows it, except for  *)
(* a cancelled refund.                                                     *)
Finalize(w) ==
  /\ job[w].step = "finalize"
  /\ TransitionRefund(w) \/ TotalRefunds(w) \/ CommitSuccess(w)
  /\ UNCHANGED eventVars

PublishOutcome(w) ==
  /\ job[w].step = "finalize"
  /\ Publish(w)
  /\ \/ Turn(w, "process")
     \/ "publish" \in Faults /\ request[w].op # "cancel" /\ Turn(w, "fail")
  /\ UNCHANGED <<event, delivered, answered, hook, jobs, dead>>

Mark(w, step, to) ==
  /\ MayRun(w)
  /\ job[w].step = step
  /\ event' = [event EXCEPT ![job[w].event] = to]

(* Broken variant: writes the refund's status into the event. *)
MarkReported(w) ==
  /\ Mark(w, "process", Reported[job[w].event])
  /\ Finish(w)
  /\ UNCHANGED <<refundVars, delivered, answered, hook, jobs, dead>>

MarkProcessed(w) ==
  /\ Mark(w, "process", "PROCESSED")
  /\ Finish(w)
  /\ UNCHANGED <<refundVars, delivered, answered, hook, jobs, dead>>

MarkIgnored(w) ==
  /\ Mark(w, "ignore", "IGNORED")
  /\ Finish(w)
  /\ UNCHANGED <<refundVars, delivered, answered, hook, jobs, dead>>

(* The queue tries a job that threw again, at most MaxAttempts times; what *)
(* is left over goes to the dead letters.                                  *)
Retry(j) ==
  IF j.attempt < MaxAttempts
  THEN jobs' = BagAdd(jobs, [j EXCEPT !.attempt = @ + 1]) /\ UNCHANGED dead
  ELSE dead' = dead \cup { j.event } /\ UNCHANGED jobs

InHandOf(w) == [event |-> job[w].event, attempt |-> job[w].attempt, stalled |-> job[w].stalled]

(* The event is marked FAILED and the error thrown again.                  *)
MarkFailed(w) ==
  /\ Mark(w, "fail", "FAILED")
  /\ Retry(InHandOf(w))
  /\ Finish(w)
  /\ UNCHANGED <<refundVars, delivered, answered, hook>>

(* BullMQ hands the job of a dead worker out again once; the second time   *)
(* it gives the job up.                                                    *)
WorkerDies(w) ==
  /\ "worker" \in Faults
  /\ job[w].step # "idle"
  /\ IF job[w].stalled
     THEN dead' = dead \cup { job[w].event } /\ UNCHANGED jobs
     ELSE jobs' = BagAdd(jobs, [InHandOf(w) EXCEPT !.stalled = TRUE]) /\ UNCHANGED dead
  /\ Finish(w)
  /\ Done(w)
  /\ UNCHANGED <<refund, payment, event, delivered, answered, hook>>

Admins == Processes \ Workers

AdminActs(p) ==
  /\ RefundBegins(p) \/ RefundProceeds(p) \/ Publish(p) \/ Abandon(p)
  /\ UNCHANGED eventVars

Redeliver(e) == e \notin answered /\ \E h \in Hooks : Deliver(h, e)
HookProceeds(h) == StoreEvent(h) \/ QueueEvent(h)
WorkerProceeds(w) ==
  \/ \E j \in Job : TakeEvent(w, j)
  \/ CallLifecycle(w) \/ Finalize(w) \/ PublishOutcome(w)
  \/ MarkProcessed(w) \/ MarkIgnored(w) \/ MarkFailed(w)

Next ==
  \/ \E p \in Admins : AdminActs(p)
  \/ \E h \in Hooks : HookProceeds(h) \/ HookDies(h) \/ \E e \in Events : Deliver(h, e)
  \/ \E w \in Workers : WorkerProceeds(w) \/ WorkerDies(w)

Spec == Init /\ [][Next]_vars

(* A provider sends an event until it is answered; a request or a worker   *)
(* that has started runs on; the queue serves its jobs.  An admin in the   *)
(* middle of an operation goes on or gives up; none has to begin one.      *)
Fairness ==
  /\ \A e \in Events : SF_vars(Redeliver(e))
  /\ \A h \in Hooks : WF_vars(HookProceeds(h))
  /\ \A w \in Workers : SF_vars(WorkerProceeds(w))
  /\ \A p \in Admins :
       WF_vars((RefundProceeds(p) \/ Publish(p) \/ Abandon(p)) /\ UNCHANGED eventVars)

FairSpec == Spec /\ Fairness

-----------------------------------------------------------------------------
(* Properties.                                                             *)

(* An event marked PROCESSED has had its effect, and no second delivery,   *)
(* retry or admin has undone it: its refund is in the status it reports.   *)
ProcessedAgrees ==
  \A e \in Events : event[e] = "PROCESSED" => refund[About[e]].status = Reported[e]

(* An event the provider has to tell is taken in and settled, whichever    *)
(* requests and workers die on the way, unless the queue gives its job up. *)
EventIsSettled ==
  \A e \in Events : <>(event[e] \in { "PROCESSED", "FAILED", "IGNORED" } \/ e \in dead)

=============================================================================
