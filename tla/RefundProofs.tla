---------------------------- MODULE RefundProofs ----------------------------
(***************************************************************************)
(* Refunds and what providers report of them, for any number of refunds,   *)
(* events, webhook requests, workers and admins, and whatever dies: types  *)
(* are kept; and, provided that no operation is overtaken between its read *)
(* and its commit, an event marked PROCESSED has had its effect and keeps  *)
(* it, what was paid is not given back twice, and the payment tells what   *)
(* its refunds add up to.                                                  *)
(*                                                                         *)
(* The argument: whoever is about to write a refund found it finalizable,  *)
(* and as nobody else is, it still is; so a refund that was finalised is   *)
(* never written again.  A worker marks an event PROCESSED only after it   *)
(* found, or brought, the refund in the status the event reports.  And a   *)
(* request that is about to insert a refund checked it against the balance *)
(* there still is, a success counted the refunds there still are.          *)
(***************************************************************************)
EXTENDS RefundEvents, Sums

Orderly == ~SplitRequests

FinalStatus == { "SUCCEEDED", "FAILED", "CANCELLED" }

-----------------------------------------------------------------------------
(* The inductive invariant.                                                *)

RefundRows == [RefundIds -> [status : RefundStatus \cup { "NONE" }, amount : Nat]]
Requests == [Processes -> [op : FinalOps \cup { "request", "none" },
                           refund : RefundIds \cup {NoRefund}, amount : Nat,
                           counted : SUBSET RefundIds, step : RefundStep]]
Jobs == [Workers -> [event : Events \cup {NoEvent}, attempt : 1 .. MaxAttempts,
                     stalled : BOOLEAN,
                     step : { "idle", "call", "finalize", "process", "ignore", "fail" }]]

(* The rows and processes the proof speaks of; what the payment holds and  *)
(* what is queued does not matter to it.                                   *)
Typed ==
  /\ refund \in RefundRows
  /\ request \in Requests
  /\ event \in [Events -> EventStatus \cup { "NONE" }]
  /\ job \in Jobs

(* What a request has in hand is a refund; past the read of a finalisation *)
(* the refund is still finalizable, after the commit it is finalised.      *)
RequestOK(p) ==
  LET q == request[p] IN
  /\ q.step # "idle" => q.refund \in RefundIds
  /\ q.step \in { "transition", "total", "write", "publish" } => q.op \in FinalOps
  /\ q.step \in { "total", "write" } => q.op = "succeed"
  /\ q.step \in { "transition", "total", "write" } => refund[q.refund].status \in Finalizable
  /\ q.step = "publish" => refund[q.refund].status = RefundTarget[q.op]

(* A worker and its call of the refund service.                            *)
JobOK(w) ==
  LET e == job[w].event IN
  /\ job[w].step # "idle" => e \in Events
  /\ job[w].step \in { "call", "finalize", "process" } => ActionFor(e) # {}
  /\ job[w].step = "process" => refund[About[e]].status = Reported[e]
  /\ job[w].step = "finalize" =>
       /\ request[w].refund = About[e] /\ request[w].op \in ActionFor(e)
       /\ request[w].step \in { "transition", "total", "write", "publish" }
  /\ job[w].step # "finalize" => request[w].step = "idle"

(* The effect of a processed event is there, and is final.                 *)
EffectOK(e) ==
  event[e] = "PROCESSED" =>
    refund[About[e]].status = Reported[e] /\ Reported[e] \in FinalStatus

RefundInv ==
  /\ Typed
  /\ \A p \in Processes : RequestOK(p)
  /\ \A w \in Workers : JobOK(w)
  /\ \A e \in Events : EffectOK(e)

-----------------------------------------------------------------------------
(* An event that calls for a step of the refund reports a final status:    *)
(* resolveLifecycleAction.                                                 *)
LEMMA ActionIsFinal ==
  ASSUME NEW e \in Events, NEW op \in ActionFor(e)
  PROVE  op \in FinalOps /\ RefundTarget[op] = Reported[e] /\ Reported[e] \in FinalStatus
BY DEF ActionFor, FinalOps, RefundTarget, FinalStatus

(* A refund that is finalised can no longer be finalised.                  *)
LEMMA FinalIsNotFinalizable == FinalStatus \cap Finalizable = {}
BY DEF FinalStatus, Finalizable

-----------------------------------------------------------------------------
(* Refund operations.  What one process does to the refunds and to its own *)
(* request, whoever it is.                                                 *)

RefundAct(p) == RefundBegins(p) \/ RefundProceeds(p) \/ Publish(p) \/ Abandon(p)

(* No step undoes a refund that was made, failed or cancelled.             *)
FinalStays ==
  \A r \in RefundIds : refund[r].status \in FinalStatus => refund'[r].status = refund[r].status

(* While a process is about to write a refund, no other writes any.        *)
OthersStay(p) ==
  /\ \A q \in Processes \ {p} : request'[q] = request[q]
  /\ refund' # refund =>
       \A q \in Processes \ {p} : request[q].step \notin { "transition", "total", "write" }

(* An update of one request's step, and of one refund's status.            *)
LEMMA StepOf ==
  ASSUME Typed, NEW p \in Processes, NEW s \in RefundStep,
         request' = [request EXCEPT ![p].step = s]
  PROVE  /\ request' \in Requests
         /\ request'[p].step = s /\ request'[p].op = request[p].op
         /\ request'[p].refund = request[p].refund
         /\ \A q \in Processes \ {p} : request'[q] = request[q]
BY DEF Typed, Requests

LEMMA StatusOf ==
  ASSUME Typed, NEW r \in RefundIds, NEW s \in RefundStatus,
         refund' = [refund EXCEPT ![r].status = s]
  PROVE  /\ refund' \in RefundRows /\ refund'[r].status = s
         /\ \A q \in RefundIds \ {r} : refund'[q] = refund[q]
BY DEF Typed, RefundRows

(* At most one process writes at a time: what Orderly asks.                *)
LEMMA Alone ==
  ASSUME Orderly, NEW p \in Processes, MayInterleave(p)
  PROVE  \A q \in Processes \ {p} : request[q].step \notin { "transition", "total", "write" }
BY DEF Orderly, MayInterleave, InHand

(* What an operation of a process changes: finalizeRefund and              *)
(* requestCurrentAdminRefund, step by step.                                *)
LEMMA ActChanges ==
  ASSUME Orderly, Typed, NEW p \in Processes, RequestOK(p), RefundAct(p)
  PROVE  /\ refund' \in RefundRows /\ request' \in Requests
         /\ FinalStays /\ OthersStay(p) /\ RequestOK(p)'
<1> USE DEF Typed
<1> DEFINE done == Done(p) /\ UNCHANGED refund
<1>1. ASSUME done
      PROVE  /\ refund' \in RefundRows /\ request' \in Requests
             /\ FinalStays /\ OthersStay(p) /\ RequestOK(p)'
  <2>1. request' = [request EXCEPT ![p] = Idle]
    BY <1>1 DEF Done
  <2>2. Idle \in [op : FinalOps \cup { "request", "none" },
                  refund : RefundIds \cup {NoRefund}, amount : Nat,
                  counted : SUBSET RefundIds, step : RefundStep]
    BY DEF Idle, RefundStep
  <2>3. request' \in Requests
    BY <2>1, <2>2 DEF Requests
  <2>4. request'[p] = Idle /\ \A q \in Processes \ {p} : request'[q] = request[q]
    BY <2>1 DEF Requests
  <2>5. RequestOK(p)'
    BY <2>4 DEF RequestOK, Idle
  <2>. QED
    BY <1>1, <2>3, <2>4, <2>5 DEF FinalStays, OthersStay
<1>2. CASE Publish(p) \/ Abandon(p)
  BY <1>1, <1>2 DEF Publish, Abandon
<1>3. ASSUME NEW r \in RefundIds, NEW a \in Amounts, BeginRequest(p, r, a)
      PROVE  /\ refund' \in RefundRows /\ request' \in Requests
             /\ FinalStays /\ OthersStay(p) /\ RequestOK(p)'
  <2> DEFINE new == [op |-> "request", refund |-> r, amount |-> a, counted |-> {},
                     step |-> "create"]
  <2>1. request' = [request EXCEPT ![p] = new] /\ refund' = refund /\ a \in Nat
    BY <1>3, RefundsAssumption DEF BeginRequest, Goto
  <2>2. request' \in Requests
    BY <2>1 DEF Requests, RefundStep
  <2>3. request'[p] = new /\ \A q \in Processes \ {p} : request'[q] = request[q]
    BY <2>1 DEF Requests
  <2>. QED
    BY <2>1, <2>2, <2>3 DEF FinalStays, OthersStay, RequestOK
<1>4. ASSUME NEW r \in RefundIds, NEW op \in FinalOps, BeginFinalize(p, op, r)
      PROVE  /\ refund' \in RefundRows /\ request' \in Requests
             /\ FinalStays /\ OthersStay(p) /\ RequestOK(p)'
  <2> DEFINE new == [op |-> op, refund |-> r, amount |-> 0, counted |-> {},
                     step |-> "transition"]
  <2>1. request' = [request EXCEPT ![p] = new] /\ refund' = refund
        /\ refund[r].status \in Finalizable
    BY <1>4 DEF BeginFinalize, Goto
  <2>2. request' \in Requests
    BY <2>1 DEF Requests, RefundStep
  <2>3. request'[p] = new /\ \A q \in Processes \ {p} : request'[q] = request[q]
    BY <2>1 DEF Requests
  <2>. QED
    BY <2>1, <2>2, <2>3 DEF FinalStays, OthersStay, RequestOK
<1>5. CASE CreateRefund(p)
  <2> DEFINE r == request[p].refund
             row == [status |-> "PENDING", amount |-> request[p].amount]
  <2>1. r \in RefundIds /\ request[p].amount \in Nat
    BY <1>5 DEF CreateRefund, At, RequestOK, Requests
  <2>2. refund' = IF refund[r].status = "NONE" THEN [refund EXCEPT ![r] = row] ELSE refund
    BY <1>5 DEF CreateRefund
  <2>3. refund' \in RefundRows
    BY <2>1, <2>2 DEF RefundRows, RefundStatus
  <2>4. FinalStays
    BY <2>1, <2>2 DEF FinalStays, FinalStatus, RefundRows
  <2>5. request' = [request EXCEPT ![p] = Idle]
    BY <1>5 DEF CreateRefund, Done
  <2>6. Idle \in [op : FinalOps \cup { "request", "none" },
                  refund : RefundIds \cup {NoRefund}, amount : Nat,
                  counted : SUBSET RefundIds, step : RefundStep]
    BY DEF Idle, RefundStep
  <2>7. request' \in Requests
    BY <2>5, <2>6 DEF Requests
  <2>8. request'[p] = Idle /\ \A q \in Processes \ {p} : request'[q] = request[q]
    BY <2>5 DEF Requests
  <2>9. RequestOK(p)'
    BY <2>8 DEF RequestOK, Idle
  <2>. QED
    BY <2>3, <2>4, <2>7, <2>8, <2>9, Alone, <1>5 DEF OthersStay, CreateRefund, At
<1>6. CASE TransitionRefund(p)
  <2> DEFINE r == request[p].refund
             op == request[p].op
  <2>1. /\ r \in RefundIds /\ op \in FinalOps /\ request[p].step = "transition"
        /\ refund[r].status \in Finalizable
    BY <1>6 DEF TransitionRefund, At, RequestOK
  <2>2. CASE op = "succeed"
    <3>1. request' = [request EXCEPT ![p].step = "total"] /\ refund' = refund
      BY <1>6, <2>2 DEF TransitionRefund, Step
    <3>. QED
      BY <2>1, <2>2, <3>1, StepOf DEF FinalStays, OthersStay, RequestOK, RefundStep
  <2>3. CASE op # "succeed"
    <3>1. /\ request' = [request EXCEPT ![p].step = "publish"]
          /\ refund' = [refund EXCEPT ![r].status = RefundTarget[op]]
      BY <1>6, <2>3 DEF TransitionRefund, Step
    <3>2. RefundTarget[op] \in RefundStatus
      BY <2>1 DEF RefundTarget, FinalOps, RefundStatus
    <3>4. /\ refund' \in RefundRows /\ refund'[r].status = RefundTarget[op]
          /\ \A x \in RefundIds \ {r} : refund'[x] = refund[x]
      BY <2>1, <3>1, <3>2, StatusOf
    <3>5. refund[r].status \notin FinalStatus
      BY <2>1, FinalIsNotFinalizable
    <3>3. refund' \in RefundRows /\ refund'[r].status = RefundTarget[op] /\ FinalStays
      BY <3>4, <3>5 DEF FinalStays
    <3>. QED
      BY <1>6, <2>1, <3>1, <3>3, StepOf, Alone
      DEF OthersStay, RequestOK, RefundStep, TransitionRefund, At
  <2>. QED
    BY <2>2, <2>3
<1>7. CASE TotalRefunds(p)
  <2> DEFINE new == [request[p] EXCEPT !.step = "write", !.counted = Counts(p)]
  <2>1. request' = [request EXCEPT ![p] = new] /\ refund' = refund
    BY <1>7 DEF TotalRefunds
  <2>2. Counts(p) \in SUBSET RefundIds
    BY <1>7 DEF TotalRefunds, At, Counts, With, RequestOK
  <2>3. /\ new \in [op : FinalOps \cup { "request", "none" },
                     refund : RefundIds \cup {NoRefund}, amount : Nat,
                     counted : SUBSET RefundIds, step : RefundStep]
        /\ new.op = request[p].op /\ new.refund = request[p].refund /\ new.step = "write"
    BY <2>2 DEF Requests, RefundStep
  <2>4. /\ request' \in Requests /\ request'[p] = new
        /\ \A q \in Processes \ {p} : request'[q] = request[q]
    BY <2>1, <2>3 DEF Requests
  <2>. QED
    BY <1>7, <2>1, <2>3, <2>4 DEF FinalStays, OthersStay, RequestOK, TotalRefunds, At
<1>8. CASE CommitSuccess(p)
  <2> DEFINE r == request[p].refund
  <2>1. /\ r \in RefundIds /\ request[p].op = "succeed" /\ refund[r].status \in Finalizable
    BY <1>8 DEF CommitSuccess, At, RequestOK
  <2>2. /\ request' = [request EXCEPT ![p].step = "publish"]
        /\ refund' = [refund EXCEPT ![r].status = "SUCCEEDED"]
    BY <1>8 DEF CommitSuccess, Step
  <2>3. refund' \in RefundRows /\ refund'[r].status = "SUCCEEDED" /\ FinalStays
    BY <2>1, <2>2, StatusOf, FinalIsNotFinalizable DEF FinalStays, RefundStatus
  <2>4. RefundTarget["succeed"] = "SUCCEEDED" /\ "succeed" \in FinalOps
    BY DEF RefundTarget, FinalOps
  <2>5. /\ request' \in Requests
        /\ request'[p].step = "publish" /\ request'[p].op = "succeed" /\ request'[p].refund = r
        /\ \A q \in Processes \ {p} : request'[q] = request[q]
    BY <2>1, <2>2, StepOf DEF RefundStep
  <2>6. RequestOK(p)'
    BY <2>1, <2>3, <2>4, <2>5 DEF RequestOK
  <2>7. OthersStay(p)
    BY <1>8, <2>5, Alone DEF OthersStay, CommitSuccess, At
  <2>. QED
    BY <2>3, <2>5, <2>6, <2>7
<1>. QED
  BY <1>2, <1>3, <1>4, <1>5, <1>6, <1>7, <1>8
  DEF RefundAct, RefundBegins, RefundProceeds

-----------------------------------------------------------------------------
(* What a step of one process means for the others.                        *)

LEMMA OthersKeep ==
  ASSUME Typed, NEW p \in Processes, NEW q \in Processes \ {p},
         RequestOK(q), OthersStay(p), FinalStays
  PROVE  RequestOK(q)'
<1>1. request'[q] = request[q]
  BY DEF OthersStay
<1>2. CASE refund' = refund
  BY <1>1, <1>2 DEF RequestOK
<1>3. CASE refund' # refund
  <2>1. request[q].step \notin { "transition", "total", "write" }
    BY <1>3 DEF OthersStay
  <2>2. ASSUME request[q].step = "publish"
        PROVE  refund'[request[q].refund].status = RefundTarget[request[q].op]
    <3>1. /\ request[q].refund \in RefundIds /\ request[q].op \in FinalOps
          /\ refund[request[q].refund].status = RefundTarget[request[q].op]
      BY <2>2 DEF RequestOK
    <3>2. RefundTarget[request[q].op] \in FinalStatus
      BY <3>1 DEF RefundTarget, FinalOps, FinalStatus
    <3>. QED
      BY <3>1, <3>2 DEF FinalStays
  <2>. QED
    BY <1>1, <2>1, <2>2 DEF RequestOK
<1>. QED
  BY <1>2, <1>3

(* The jobs of workers that take no step, and the events already marked.   *)
LEMMA JobKept ==
  ASSUME RefundInv, FinalStays, NEW w \in Workers,
         job'[w] = job[w], request'[w] = request[w]
  PROVE  JobOK(w)'
<1>1. ASSUME job[w].step = "process"
      PROVE  refund'[About[job[w].event]].status = Reported[job[w].event]
  <2>1. /\ job[w].event \in Events /\ ActionFor(job[w].event) # {}
        /\ refund[About[job[w].event]].status = Reported[job[w].event]
    BY <1>1 DEF RefundInv, JobOK
  <2>2. Reported[job[w].event] \in FinalStatus /\ About[job[w].event] \in RefundIds
    BY <2>1, ActionIsFinal, RefundEventsAssumption
  <2>. QED
    BY <2>1, <2>2 DEF FinalStays
<1>2. JobOK(w)
  BY DEF RefundInv
<1>. QED
  BY <1>1, <1>2 DEF JobOK, ActionFor

LEMMA EffectKept ==
  ASSUME RefundInv, FinalStays, NEW e \in Events,
         event'[e] = event[e] \/ event'[e] # "PROCESSED"
  PROVE  EffectOK(e)'
<1>1. About[e] \in RefundIds
  BY RefundEventsAssumption
<1>2. EffectOK(e)
  BY DEF RefundInv
<1>. QED
  BY <1>1, <1>2 DEF EffectOK, FinalStays

(* A finalisation under way stays with its refund and its operation.       *)
LEMMA FinalizeProceeds ==
  ASSUME Typed, NEW p \in Processes,
         TransitionRefund(p) \/ TotalRefunds(p) \/ CommitSuccess(p)
  PROVE  /\ request'[p].refund = request[p].refund /\ request'[p].op = request[p].op
         /\ request'[p].step \in { "total", "write", "publish" }
<1>1. CASE TransitionRefund(p) \/ CommitSuccess(p)
  <2>1. PICK s \in { "total", "publish" } : request' = [request EXCEPT ![p].step = s]
    BY <1>1 DEF TransitionRefund, CommitSuccess, Step
  <2>. QED
    BY <2>1, StepOf DEF RefundStep
<1>2. CASE TotalRefunds(p)
  BY <1>2 DEF TotalRefunds, Typed, Requests
<1>. QED
  BY <1>1, <1>2

-----------------------------------------------------------------------------
(* Each step keeps the invariant.                                          *)

(* What is left to show of a step that one process takes.                  *)
Keeps(p) ==
  /\ refund' \in RefundRows /\ request' \in Requests
  /\ FinalStays /\ OthersStay(p) /\ RequestOK(p)'

(* A step that leaves the refund service alone.                            *)
LEMMA NoCall ==
  ASSUME RefundInv, NEW p \in Processes, UNCHANGED <<refund, request>>
  PROVE  Keeps(p)
BY DEF Keeps, RefundInv, Typed, FinalStays, OthersStay, RequestOK

(* A call that ends, or is cut off.                                        *)
LEMMA CallEnds ==
  ASSUME RefundInv, NEW p \in Processes, Done(p), UNCHANGED refund
  PROVE  Keeps(p) /\ request'[p].step = "idle"
<1>1. Idle \in [op : FinalOps \cup { "request", "none" },
                refund : RefundIds \cup {NoRefund}, amount : Nat,
                counted : SUBSET RefundIds, step : RefundStep]
  BY DEF Idle, RefundStep
<1>2. /\ request' \in Requests /\ request'[p] = Idle
      /\ \A q \in Processes \ {p} : request'[q] = request[q]
  BY <1>1 DEF Done, RefundInv, Typed, Requests
<1>. QED
  BY <1>2 DEF Keeps, FinalStays, OthersStay, RequestOK, Idle, RefundInv, Typed

LEMMA RequestsKept ==
  ASSUME RefundInv, NEW p \in Processes, Keeps(p)
  PROVE  \A q \in Processes : RequestOK(q)'
BY OthersKeep DEF RefundInv, Keeps

(* A step of a worker that keeps its own part keeps the whole.             *)
LEMMA WorkerKeeps ==
  ASSUME RefundInv, NEW w \in Workers, Keeps(w), job' \in Jobs, JobOK(w)',
         \A v \in Workers \ {w} : job'[v] = job[v],
         event' \in [Events -> EventStatus \cup { "NONE" }],
         \A e \in Events : EffectOK(e)'
  PROVE  RefundInv'
<1>1. w \in Processes /\ \A v \in Workers : v \in Processes
  BY RefundEventsAssumption
<1>2. \A p \in Processes : RequestOK(p)'
  BY <1>1, RequestsKept
<1>3. \A v \in Workers : JobOK(v)'
  BY <1>1, JobKept DEF Keeps, OthersStay
<1>. QED
  BY <1>2, <1>3 DEF RefundInv, Typed, Keeps

(* The events are those of before.                                         *)
LEMMA SameEvents ==
  ASSUME RefundInv, FinalStays, UNCHANGED event
  PROVE  /\ event' \in [Events -> EventStatus \cup { "NONE" }]
         /\ \A e \in Events : EffectOK(e)'
BY EffectKept DEF RefundInv, Typed

(* An admin's step.                                                        *)
LEMMA AdminKeeps ==
  ASSUME Orderly, RefundInv, NEW p \in Admins, AdminActs(p)
  PROVE  RefundInv'
<1>1. p \in Processes /\ \A w \in Workers : w \in Processes \ {p}
  BY RefundEventsAssumption DEF Admins
<1>2. Keeps(p) /\ UNCHANGED <<event, job>>
  BY <1>1, ActChanges DEF AdminActs, RefundAct, RefundInv, Keeps, eventVars
<1>3. \A q \in Processes : RequestOK(q)'
  BY <1>1, <1>2, RequestsKept
<1>4. \A w \in Workers : JobOK(w)'
  BY <1>1, <1>2, JobKept DEF Keeps, OthersStay
<1>5. \A e \in Events : EffectOK(e)'
  BY <1>2, SameEvents DEF Keeps
<1>. QED
  BY <1>2, <1>3, <1>4, <1>5 DEF RefundInv, Typed, Keeps

(* A webhook request's step: it may bring a new event, RECEIVED.           *)
LEMMA HookKeeps ==
  ASSUME RefundInv, NEW h \in Hooks,
         HookProceeds(h) \/ HookDies(h) \/ \E e \in Events : Deliver(h, e)
  PROVE  RefundInv'
<1>1. /\ UNCHANGED <<refund, payment, request, job>>
      /\ event' = event \/ \E e : event' = [event EXCEPT ![e] = "RECEIVED"]
  BY DEF HookProceeds, HookDies, Deliver, StoreEvent, QueueEvent, refundVars
<1>2. /\ event' \in [Events -> EventStatus \cup { "NONE" }]
      /\ \A e \in Events : event'[e] = event[e] \/ event'[e] # "PROCESSED"
  BY <1>1 DEF RefundInv, Typed, EventStatus
<1>3. FinalStays
  BY <1>1 DEF FinalStays
<1>4. \A e \in Events : EffectOK(e)'
  BY <1>2, <1>3, EffectKept
<1>5. \A p \in Processes : RequestOK(p)'
  BY <1>1 DEF RefundInv, RequestOK
<1>6. \A w \in Workers : JobOK(w)'
  BY <1>1, <1>3, JobKept
<1>. QED
  BY <1>1, <1>2, <1>4, <1>5, <1>6 DEF RefundInv, Typed

JobState == [event : Events \cup {NoEvent}, attempt : 1 .. MaxAttempts, stalled : BOOLEAN,
             step : { "idle", "call", "finalize", "process", "ignore", "fail" }]

(* An update of a worker's job, or of its step.                            *)
LEMMA JobSet ==
  ASSUME RefundInv, NEW w \in Workers, NEW new \in JobState,
         job' = [job EXCEPT ![w] = new]
  PROVE  /\ job' \in Jobs /\ job'[w] = new
         /\ \A v \in Workers \ {w} : job'[v] = job[v]
BY DEF RefundInv, Typed, Jobs, JobState

LEMMA TurnSet ==
  ASSUME RefundInv, NEW w \in Workers,
         NEW s \in { "idle", "call", "finalize", "process", "ignore", "fail" }, Turn(w, s)
  PROVE  /\ job' \in Jobs
         /\ job'[w].event = job[w].event /\ job'[w].step = s
         /\ \A v \in Workers \ {w} : job'[v] = job[v]
BY DEF RefundInv, Typed, Jobs, Turn

LEMMA NoJobTyped == NoJob \in JobState /\ NoJob.step = "idle"
BY RefundEventsAssumption DEF NoJob, JobState

(* Taking a job: TakeEvent.                                                *)
LEMMA TakeKeeps ==
  ASSUME RefundInv, NEW w \in Workers, NEW j \in Job, TakeEvent(w, j)
  PROVE  RefundInv'
<1>1. w \in Processes /\ Keeps(w) /\ UNCHANGED <<event, request, refund>>
  BY NoCall, RefundEventsAssumption DEF TakeEvent, refundVars
<1>2. CASE job' = job
  <2>1. JobOK(w)'
    BY <1>1, <1>2, JobKept DEF Keeps
  <2>. QED
    BY <1>1, <1>2, <2>1, SameEvents, WorkerKeeps DEF Keeps, RefundInv, Typed
<1>3. CASE job' # job
  <2> DEFINE known == ActionFor(j.event) # {} /\ refund[About[j.event]].status # "NONE"
             new == [event |-> j.event, attempt |-> j.attempt, stalled |-> j.stalled,
                     step |-> IF known THEN "call" ELSE "ignore"]
  <2>1. job' = [job EXCEPT ![w] = new] /\ job[w].step = "idle"
    BY <1>3 DEF TakeEvent
  <2>2. /\ new \in JobState /\ new.event \in Events /\ new.event = j.event
        /\ new.step \in { "ignore", "call" }
        /\ new.step = "call" => ActionFor(j.event) # {}
    BY DEF Job, JobState
  <2> HIDE DEF new
  <2>3. /\ job' \in Jobs /\ job'[w] = new
        /\ \A v \in Workers \ {w} : job'[v] = job[v]
    BY <2>1, <2>2, JobSet
  <2>4. request'[w].step = "idle"
    BY <1>1, <2>1 DEF RefundInv, JobOK
  <2>5. JobOK(w)'
    BY <2>2, <2>3, <2>4 DEF JobOK, ActionFor
  <2>. QED
    BY <1>1, <2>3, <2>5, SameEvents, WorkerKeeps DEF Keeps
<1>. QED
  BY <1>2, <1>3

(* Calling the refund service: CallLifecycle.                              *)
LEMMA CallKeeps ==
  ASSUME Orderly, RefundInv, NEW w \in Workers, CallLifecycle(w)
  PROVE  RefundInv'
<1> DEFINE e == job[w].event
<1>1. /\ w \in Processes /\ job[w].step = "call" /\ event' = event
      /\ e \in Events /\ ActionFor(e) # {} /\ request[w].step = "idle"
  BY RefundEventsAssumption DEF CallLifecycle, RefundInv, JobOK
<1>2. CASE UNCHANGED refundVars
  <2>1. Keeps(w) /\ refund' = refund /\ request' = request
    BY <1>1, <1>2, NoCall DEF refundVars
  <2>2. \/ Turn(w, "process") /\ refund[About[e]].status = Reported[e]
        \/ Turn(w, "fail")
        \/ Turn(w, "finalize") /\ \E op \in ActionFor(e) : BeginFinalize(w, op, About[e])
    BY DEF CallLifecycle
  <2>3. ~ \E op \in ActionFor(e) : BeginFinalize(w, op, About[e])
    <3> SUFFICES ASSUME NEW op \in ActionFor(e), BeginFinalize(w, op, About[e]) PROVE FALSE
      OBVIOUS
    <3>1. request'[w].step = "transition"
      BY <1>1 DEF BeginFinalize, Goto, RefundInv, Typed, Requests
    <3>. QED
      BY <1>1, <2>1, <3>1
  <2>4. PICK s \in { "process", "fail" } :
          Turn(w, s) /\ (s = "process" => refund[About[e]].status = Reported[e])
    BY <2>2, <2>3
  <2>5. /\ job' \in Jobs /\ job'[w].event = e /\ job'[w].step = s
        /\ \A v \in Workers \ {w} : job'[v] = job[v]
    BY <2>4, TurnSet
  <2>6. JobOK(w)'
    BY <1>1, <2>1, <2>4, <2>5 DEF JobOK, ActionFor
  <2>. QED
    BY <1>1, <2>1, <2>5, <2>6, SameEvents, WorkerKeeps DEF Keeps
<1>3. ASSUME NEW op \in ActionFor(e), BeginFinalize(w, op, About[e]), Turn(w, "finalize")
      PROVE  RefundInv'
  <2>1. About[e] \in RefundIds /\ op \in FinalOps
    BY <1>1, RefundEventsAssumption, ActionIsFinal
  <2>2. RefundAct(w)
    BY <1>3, <2>1 DEF RefundAct, RefundBegins
  <2>3. Keeps(w)
    BY <1>1, <2>2, ActChanges DEF RefundInv, Keeps
  <2>4. request'[w].refund = About[e] /\ request'[w].op = op
        /\ request'[w].step = "transition"
    BY <1>1, <1>3 DEF BeginFinalize, Goto, RefundInv, Typed, Requests
  <2>5. /\ job' \in Jobs /\ job'[w].event = e /\ job'[w].step = "finalize"
        /\ \A v \in Workers \ {w} : job'[v] = job[v]
    BY <1>3, TurnSet
  <2>6. JobOK(w)'
    BY <1>1, <1>3, <2>4, <2>5 DEF JobOK, ActionFor
  <2>. QED
    BY <1>1, <2>3, <2>5, <2>6, SameEvents, WorkerKeeps DEF Keeps
<1>. QED
  BY <1>2, <1>3 DEF CallLifecycle

(* The transaction of a finalisation, and the message that follows it.     *)
LEMMA FinalizeKeeps ==
  ASSUME Orderly, RefundInv, NEW w \in Workers, Finalize(w)
  PROVE  RefundInv'
<1>1. w \in Processes /\ UNCHANGED <<event, job>> /\ job[w].step = "finalize"
  BY RefundEventsAssumption DEF Finalize, eventVars
<1>2. Keeps(w)
  BY <1>1, ActChanges DEF Finalize, RefundAct, RefundProceeds, RefundInv, Keeps
<1>3. /\ request'[w].refund = request[w].refund /\ request'[w].op = request[w].op
      /\ request'[w].step \in { "total", "write", "publish" }
  BY <1>1, FinalizeProceeds DEF Finalize, RefundInv
<1>4. JobOK(w)'
  BY <1>1, <1>3 DEF RefundInv, JobOK, ActionFor
<1>. QED
  BY <1>1, <1>2, <1>4, SameEvents, WorkerKeeps DEF Keeps, RefundInv, Typed

LEMMA PublishKeeps ==
  ASSUME RefundInv, NEW w \in Workers, PublishOutcome(w)
  PROVE  RefundInv'
<1> DEFINE e == job[w].event
<1>1. /\ w \in Processes /\ event' = event /\ refund' = refund /\ Done(w)
      /\ job[w].step = "finalize" /\ request[w].step = "publish"
  BY RefundEventsAssumption DEF PublishOutcome, Publish, At
<1>2. Keeps(w) /\ request'[w].step = "idle"
  BY <1>1, CallEnds
<1>3. PICK s \in { "process", "fail" } : Turn(w, s)
  BY DEF PublishOutcome
<1>4. /\ job' \in Jobs /\ job'[w].event = e /\ job'[w].step = s
      /\ \A v \in Workers \ {w} : job'[v] = job[v]
  BY <1>3, TurnSet
<1>5. e \in Events /\ request[w].op \in ActionFor(e) /\ request[w].refund = About[e]
  BY <1>1 DEF RefundInv, JobOK
<1>6. refund[About[e]].status = Reported[e]
  <2>1. refund[request[w].refund].status = RefundTarget[request[w].op]
    BY <1>1 DEF RefundInv, RequestOK
  <2>. QED
    BY <1>5, <2>1, ActionIsFinal
<1>7. JobOK(w)'
  BY <1>1, <1>2, <1>4, <1>5, <1>6 DEF JobOK, ActionFor
<1>. QED
  BY <1>1, <1>2, <1>4, <1>7, SameEvents, WorkerKeeps DEF Keeps

(* Marking the event: only a worker that saw the effect marks PROCESSED.   *)
LEMMA MarkKeeps ==
  ASSUME RefundInv, NEW w \in Workers, MarkProcessed(w) \/ MarkIgnored(w) \/ MarkFailed(w)
  PROVE  RefundInv'
<1>1. /\ w \in Processes /\ UNCHANGED <<refund, request>> /\ Finish(w)
      /\ job[w].step \in { "process", "ignore", "fail" }
  BY RefundEventsAssumption DEF MarkProcessed, MarkIgnored, MarkFailed, Mark, refundVars
<1>2. Keeps(w)
  BY <1>1, NoCall
<1>3. /\ job' \in Jobs /\ job'[w] = NoJob
      /\ \A v \in Workers \ {w} : job'[v] = job[v]
  BY <1>1, NoJobTyped, JobSet DEF Finish
<1>4. PICK e \in Events : e = job[w].event
  BY <1>1 DEF RefundInv, JobOK
<1>10. request'[w].step = "idle"
  BY <1>1 DEF RefundInv, JobOK
<1>5. JobOK(w)'
  BY <1>3, <1>10, NoJobTyped DEF JobOK
<1>6. PICK to \in { "PROCESSED", "IGNORED", "FAILED" } :
        /\ event' = [event EXCEPT ![e] = to]
        /\ to = "PROCESSED" => job[w].step = "process"
  BY <1>4 DEF MarkProcessed, MarkIgnored, MarkFailed, Mark
<1>7. /\ event' \in [Events -> EventStatus \cup { "NONE" }] /\ event'[e] = to
      /\ \A d \in Events \ {e} : event'[d] = event[d]
  BY <1>4, <1>6 DEF RefundInv, Typed, EventStatus
<1>8. ASSUME to = "PROCESSED" PROVE EffectOK(e)'
  <2>1. refund'[About[e]].status = Reported[e] /\ Reported[e] \in FinalStatus
    BY <1>1, <1>4, <1>6, <1>8, ActionIsFinal DEF RefundInv, JobOK
  <2>. QED
    BY <2>1 DEF EffectOK
<1>9. \A d \in Events : EffectOK(d)'
  BY <1>2, <1>4, <1>7, <1>8, EffectKept DEF Keeps
<1>. QED
  BY <1>2, <1>3, <1>5, <1>7, <1>9, WorkerKeeps

(* A worker that dies leaves its call and its job.                         *)
LEMMA DeathKeeps ==
  ASSUME RefundInv, NEW w \in Workers, WorkerDies(w)
  PROVE  RefundInv'
<1>1. /\ w \in Processes /\ UNCHANGED <<refund, event>> /\ Finish(w) /\ Done(w)
  BY RefundEventsAssumption DEF WorkerDies
<1>2. Keeps(w) /\ request'[w].step = "idle"
  BY <1>1, CallEnds
<1>3. /\ job' \in Jobs /\ job'[w] = NoJob
      /\ \A v \in Workers \ {w} : job'[v] = job[v]
  BY <1>1, NoJobTyped, JobSet DEF Finish
<1>4. JobOK(w)'
  BY <1>2, <1>3, NoJobTyped DEF JobOK
<1>. QED
  BY <1>1, <1>2, <1>3, <1>4, SameEvents, WorkerKeeps DEF Keeps

-----------------------------------------------------------------------------
(* The theorems.                                                           *)

LEMMA RefundStart == Init => RefundInv
<1> SUFFICES ASSUME Init PROVE RefundInv
  OBVIOUS
<1> USE DEF Init, RefundInit
<1>1. /\ refund \in RefundRows /\ request \in Requests
      /\ event \in [Events -> EventStatus \cup { "NONE" }]
  BY DEF RefundRows, Requests, Idle, RefundStep
<1>2. job \in Jobs
  BY NoJobTyped DEF Jobs, JobState
<1>3. \A p \in Processes : RequestOK(p)
  BY DEF RequestOK, Idle
<1>4. \A w \in Workers : JobOK(w)
  BY RefundEventsAssumption DEF JobOK, NoJob, Idle
<1>5. \A e \in Events : EffectOK(e)
  BY DEF EffectOK
<1>. QED
  BY <1>1, <1>2, <1>3, <1>4, <1>5 DEF RefundInv, Typed

LEMMA RefundKept ==
  ASSUME Orderly
  PROVE  RefundInv /\ [Next]_vars => RefundInv'
<1> SUFFICES ASSUME RefundInv, [Next]_vars PROVE RefundInv'
  OBVIOUS
<1>1. ASSUME NEW p \in Admins, AdminActs(p) PROVE RefundInv'
  BY <1>1, AdminKeeps
<1>2. ASSUME NEW h \in Hooks,
             HookProceeds(h) \/ HookDies(h) \/ \E e \in Events : Deliver(h, e)
      PROVE  RefundInv'
  BY <1>2, HookKeeps
<1>3. ASSUME NEW w \in Workers, WorkerProceeds(w) PROVE RefundInv'
  BY <1>3, TakeKeeps, CallKeeps, FinalizeKeeps, PublishKeeps, MarkKeeps DEF WorkerProceeds
<1>4. ASSUME NEW w \in Workers, WorkerDies(w) PROVE RefundInv'
  BY <1>4, DeathKeeps
<1>5. CASE UNCHANGED vars
  <2>1. UNCHANGED <<refund, request, event, job>>
    BY <1>5 DEF vars, refundVars, eventVars
  <2>. QED
    BY <2>1 DEF RefundInv, Typed, RequestOK, JobOK, EffectOK, ActionFor
<1>. QED
  BY <1>1, <1>2, <1>3, <1>4, <1>5 DEF Next

(* An event marked PROCESSED has had its effect, and nothing undoes it:    *)
(* processRefundProviderEvent against every other use of finalizeRefund.   *)
THEOREM ProcessedForGood ==
  ASSUME Orderly
  PROVE  Spec => []ProcessedAgrees
<1>1. RefundInv => ProcessedAgrees
  BY DEF RefundInv, EffectOK, ProcessedAgrees
<1>2. RefundInv /\ [Next]_vars => RefundInv'
  BY RefundKept
<1>. QED
  BY RefundStart, <1>1, <1>2, PTL DEF Spec

-----------------------------------------------------------------------------
(* The money.  What was asked back while nobody else was at work fits into *)
(* what is left; a success counts the refunds made, and itself, and writes *)
(* that sum into the payment in the same transaction.                      *)

Amount == [r \in RefundIds |-> refund[r].amount]

(* A request about to be inserted was checked against the present balance. *)
FitsBalance(p) ==
  LET q == request[p] IN
  q.step = "create" =>
    /\ refund[q.refund].status = "NONE"
    /\ q.amount > 0 /\ TotalOf(With(Reserved)) + q.amount <= Paid

(* A success about to be written has counted every refund made, and itself. *)
CountsAll(p) ==
  request[p].step = "write" =>
    request[p].counted = With({ "SUCCEEDED" }) \cup { request[p].refund }

MoneyInv ==
  /\ \A r \in RefundIds : refund[r].status # "NONE" => refund[r].amount > 0
  /\ \A p \in Processes : FitsBalance(p) /\ CountsAll(p)
  /\ payment.refunded \in Int
  /\ BalanceKept /\ PaymentAgrees

LEMMA Undisturbed ==
  ASSUME Orderly, NEW p \in Processes, MayInterleave(p)
  PROVE  \A q \in Processes \ {p} : request[q].step \notin InHand
BY DEF Orderly, MayInterleave

LEMMA SumTyped ==
  ASSUME Typed
  PROVE  /\ IsFiniteSet(RefundIds) /\ \A r \in RefundIds : Amount[r] \in Nat
         /\ \A rs \in SUBSET RefundIds :
              /\ IsFiniteSet(rs) /\ TotalOf(rs) = SumFunctionOnSet(Amount, rs) /\ TotalOf(rs) \in Nat
<1>1. IsFiniteSet(RefundIds) /\ \A r \in RefundIds : Amount[r] \in Nat
  BY RefundsAssumption DEF Typed, RefundRows, Amount
<1>2. ASSUME NEW rs \in SUBSET RefundIds
      PROVE  IsFiniteSet(rs) /\ TotalOf(rs) = SumFunctionOnSet(Amount, rs) /\ TotalOf(rs) \in Nat
  <2>1. IsFiniteSet(rs) /\ \A r \in rs : Amount[r] \in Nat
    BY <1>1, PartIsFinite
  <2>2. SumFunctionOnSet(Amount, rs) \in Nat
    BY <2>1, SumNat
  <2>. QED
    BY <2>1, <2>2 DEF TotalOf, Amount
<1>. QED
  BY <1>1, <1>2

(* A step that leaves the rows alone, and asks or counts what it checked.  *)
LEMMA RowsUntouched ==
  ASSUME MoneyInv, UNCHANGED <<refund, payment>>, NEW p \in Processes,
         \A q \in Processes \ {p} : request'[q] = request[q],
         FitsBalance(p)', CountsAll(p)'
  PROVE  MoneyInv'
<1>1. ASSUME NEW q \in Processes \ {p} PROVE FitsBalance(q)' /\ CountsAll(q)'
  BY <1>1 DEF MoneyInv, FitsBalance, CountsAll, TotalOf, With
<1>. QED
  BY <1>1 DEF MoneyInv, BalanceKept, PaymentAgrees, TotalOf, With

(* A step that writes a refund while nobody else is at work.               *)
LEMMA OthersOut ==
  ASSUME NEW p \in Processes, \A q \in Processes \ {p} : request[q].step \notin InHand,
         \A q \in Processes \ {p} : request'[q] = request[q],
         request'[p].step \notin InHand
  PROVE  \A q \in Processes : FitsBalance(q)' /\ CountsAll(q)'
BY DEF FitsBalance, CountsAll, InHand

(* requestCurrentAdminRefund: the insert takes what was checked.           *)
LEMMA CreateKeepsMoney ==
  ASSUME Orderly, Typed, MoneyInv, NEW p \in Processes, RequestOK(p), CreateRefund(p)
  PROVE  MoneyInv'
<1> DEFINE r == request[p].refund
           a == request[p].amount
           row == [status |-> "PENDING", amount |-> a]
<1>1. /\ r \in RefundIds /\ a \in Nat /\ a > 0 /\ refund[r].status = "NONE"
      /\ TotalOf(With(Reserved)) + a <= Paid
  BY DEF CreateRefund, At, RequestOK, Typed, Requests, MoneyInv, FitsBalance
<1>2. refund' = [refund EXCEPT ![r] = row] /\ payment' = payment
  BY <1>1 DEF CreateRefund
<1>3. /\ request'[p] = Idle /\ \A q \in Processes \ {p} : request'[q] = request[q]
      /\ \A q \in Processes \ {p} : request[q].step \notin InHand
  BY Undisturbed DEF CreateRefund, Done, At, Typed, Requests
<1>4. \A q \in Processes : FitsBalance(q)' /\ CountsAll(q)'
  BY <1>3, OthersOut DEF Idle, InHand
<1> DEFINE S == With(Reserved)
           T == With({ "SUCCEEDED" })
<1>5. /\ refund'[r] = row
      /\ \A x \in RefundIds \ {r} : refund'[x] = refund[x]
  BY <1>1, <1>2 DEF Typed, RefundRows
<1>6. /\ S \in SUBSET RefundIds /\ r \notin S /\ S' = S \cup {r}
      /\ T \in SUBSET RefundIds /\ r \notin T /\ T' = T
  BY <1>1, <1>5 DEF With, Reserved, Finalizable
<1>7. /\ Amount'[r] = a /\ \A x \in RefundIds : Amount'[x] \in Nat
      /\ \A x \in RefundIds \ {r} : Amount'[x] = Amount[x]
  BY <1>1, <1>5, SumTyped DEF Amount
<1>8. /\ IsFiniteSet(S) /\ IsFiniteSet(T) /\ IsFiniteSet(S \cup {r})
      /\ TotalOf(S) = SumFunctionOnSet(Amount, S) /\ TotalOf(T) = SumFunctionOnSet(Amount, T)
      /\ TotalOf(S) \in Nat
  BY <1>6, SumTyped, OneMoreIsFinite
<1>9. /\ SumFunctionOnSet(Amount', S) = SumFunctionOnSet(Amount, S)
      /\ SumFunctionOnSet(Amount', T) = SumFunctionOnSet(Amount, T)
  <2>1. \A x \in S : Amount[x] \in Int /\ Amount'[x] = Amount[x]
    BY <1>6, <1>7, SumTyped
  <2>2. \A x \in T : Amount[x] \in Int /\ Amount'[x] = Amount[x]
    BY <1>6, <1>7, SumTyped
  <2> HIDE DEF S, T
  <2>. QED
    BY <1>8, <2>1, <2>2, SumAgree
<1>10. SumFunctionOnSet(Amount', S \cup {r}) = a + SumFunctionOnSet(Amount', S)
  <2>1. \A x \in S \cup {r} : Amount'[x] \in Int
    BY <1>1, <1>6, <1>7
  <2> HIDE DEF S, T, r, a
  <2>. QED
    BY <1>6, <1>7, <1>8, <2>1, SumAdd
<1>11. TotalOf(S)' = a + TotalOf(S) /\ TotalOf(T)' = TotalOf(T)
  <2>1. TotalOf(S)' = SumFunctionOnSet(Amount', S') /\ TotalOf(T)' = SumFunctionOnSet(Amount', T')
    BY DEF TotalOf, Amount
  <2>. QED
    BY <1>6, <1>8, <1>9, <1>10, <2>1
<1>12. BalanceKept'
  BY <1>1, <1>8, <1>11, RefundsAssumption DEF BalanceKept
<1>13. PaymentAgrees'
  BY <1>2, <1>11 DEF MoneyInv, PaymentAgrees
<1>. QED
  BY <1>1, <1>2, <1>4, <1>5, <1>12, <1>13 DEF MoneyInv

(* finalizeRefund of a failed or cancelled refund gives its amount free.   *)
LEMMA TransitionKeepsMoney ==
  ASSUME Orderly, Typed, MoneyInv, NEW p \in Processes, RequestOK(p), TransitionRefund(p)
  PROVE  MoneyInv'
<1> DEFINE r == request[p].refund
           op == request[p].op
           S == With(Reserved)
           T == With({ "SUCCEEDED" })
<1>1. /\ r \in RefundIds /\ op \in FinalOps /\ request[p].step = "transition"
      /\ refund[r].status \in Finalizable /\ payment' = payment
  BY DEF TransitionRefund, At, RequestOK
<1>2. \A q \in Processes \ {p} : request[q].step \notin InHand
  BY Undisturbed DEF TransitionRefund, At
<1>3. CASE op = "succeed"
  <2>1. request' = [request EXCEPT ![p].step = "total"] /\ refund' = refund
    BY <1>3 DEF TransitionRefund, Step
  <2>2. request'[p].step = "total" /\ \A q \in Processes \ {p} : request'[q] = request[q]
    BY <2>1, StepOf DEF RefundStep
  <2>3. FitsBalance(p)' /\ CountsAll(p)'
    BY <2>2 DEF FitsBalance, CountsAll
  <2>. QED
    BY <1>1, <2>1, <2>2, <2>3, RowsUntouched
<1>4. CASE op # "succeed"
  <2>1. /\ request' = [request EXCEPT ![p].step = "publish"]
        /\ refund' = [refund EXCEPT ![r].status = RefundTarget[op]]
    BY <1>4 DEF TransitionRefund, Step
  <2>2. request'[p].step = "publish" /\ \A q \in Processes \ {p} : request'[q] = request[q]
    BY <2>1, StepOf DEF RefundStep
  <2>3. \A q \in Processes : FitsBalance(q)' /\ CountsAll(q)'
    BY <1>2, <2>2, OthersOut DEF InHand
  <2>4. RefundTarget[op] \in { "FAILED", "CANCELLED" }
    BY <1>1, <1>4 DEF RefundTarget, FinalOps
  <2>5. /\ refund'[r].status = RefundTarget[op] /\ refund'[r].amount = refund[r].amount
        /\ \A x \in RefundIds \ {r} : refund'[x] = refund[x]
    BY <1>1, <2>1 DEF Typed, RefundRows
  <2>6. S' = S \ {r} /\ T' = T /\ S \in SUBSET RefundIds /\ T \in SUBSET RefundIds
    BY <1>1, <2>4, <2>5 DEF With, Reserved, Finalizable
  <2>7. Amount' = Amount
    BY <2>5 DEF Amount
  <2>8. TotalOf(S)' = SumFunctionOnSet(Amount, S \ {r}) /\ TotalOf(T)' = TotalOf(T)
    BY <2>6, <2>7 DEF TotalOf, Amount
  <2>9. TotalOf(S)' <= TotalOf(S) /\ TotalOf(S)' \in Int /\ TotalOf(S) \in Int
    <3>1. /\ IsFiniteSet(S) /\ TotalOf(S) = SumFunctionOnSet(Amount, S)
          /\ TotalOf(S) \in Nat /\ \A x \in S : Amount[x] \in Nat
      BY <2>6, SumTyped
    <3>2. IsFiniteSet(S \ {r}) /\ S \ {r} \in SUBSET S
      BY <3>1, PartIsFinite
    <3> HIDE DEF S, r
    <3>3. SumFunctionOnSet(Amount, S \ {r}) <= SumFunctionOnSet(Amount, S)
      BY <3>1, <3>2, SumSubset
    <3>4. SumFunctionOnSet(Amount, S \ {r}) \in Nat
      BY <3>1, <3>2, SumNat
    <3>. QED
      BY <2>8, <3>1, <3>3, <3>4
  <2>10. BalanceKept'
    BY <2>9, RefundsAssumption DEF BalanceKept, MoneyInv
  <2>11. PaymentAgrees'
    BY <1>1, <2>8 DEF MoneyInv, PaymentAgrees
  <2>. QED
    BY <1>1, <2>3, <2>5, <2>10, <2>11 DEF MoneyInv, Finalizable
<1>. QED
  BY <1>3, <1>4

(* finalizeRefund of a success: the payment row, written last, tells what  *)
(* the refunds add up to.                                                  *)
LEMMA CommitKeepsMoney ==
  ASSUME Orderly, Typed, MoneyInv, NEW p \in Processes, RequestOK(p), CommitSuccess(p)
  PROVE  MoneyInv'
<1> DEFINE r == request[p].refund
           S == With(Reserved)
           T == With({ "SUCCEEDED" })
           total == TotalOf(request[p].counted)
<1>1. /\ r \in RefundIds /\ request[p].step = "write" /\ refund[r].status \in Finalizable
      /\ request[p].counted = T \cup {r}
  BY DEF CommitSuccess, At, RequestOK, MoneyInv, CountsAll
<1>2. \A q \in Processes \ {p} : request[q].step \notin InHand
  BY Undisturbed DEF CommitSuccess, At
<1>3. /\ request' = [request EXCEPT ![p].step = "publish"]
      /\ refund' = [refund EXCEPT ![r].status = "SUCCEEDED"]
      /\ payment'.refunded = total
      /\ payment'.status = IF total >= Paid THEN "REFUNDED" ELSE "PARTIALLY_REFUNDED"
  BY DEF CommitSuccess, Step
<1>4. request'[p].step = "publish" /\ \A q \in Processes \ {p} : request'[q] = request[q]
  BY <1>3, StepOf DEF RefundStep
<1>5. \A q \in Processes : FitsBalance(q)' /\ CountsAll(q)'
  BY <1>2, <1>4, OthersOut DEF InHand
<1>6. /\ refund'[r].status = "SUCCEEDED" /\ refund'[r].amount = refund[r].amount
      /\ \A x \in RefundIds \ {r} : refund'[x] = refund[x]
  BY <1>1, <1>3 DEF Typed, RefundRows
<1>7. /\ S' = S /\ T' = T \cup {r} /\ r \notin T
      /\ S \in SUBSET RefundIds /\ T \cup {r} \in SUBSET RefundIds
  BY <1>1, <1>6 DEF With, Reserved, Finalizable
<1>8. Amount' = Amount
  BY <1>6 DEF Amount
<1>9. TotalOf(S)' = TotalOf(S) /\ TotalOf(T)' = total
  BY <1>1, <1>7, <1>8 DEF TotalOf, Amount
<1>10. total \in Int /\ total > 0
  <2>1. /\ IsFiniteSet(T \cup {r}) /\ IsFiniteSet(T) /\ T \in SUBSET RefundIds
        /\ total = SumFunctionOnSet(Amount, T \cup {r})
        /\ \A x \in RefundIds : Amount[x] \in Nat
    BY <1>1, <1>7, SumTyped
  <2>2. Amount[r] > 0
    BY <1>1 DEF MoneyInv, Amount, Finalizable
  <2>3. \A x \in T \cup {r} : Amount[x] \in Int
    BY <1>7, <2>1
  <2>4. \A x \in T : Amount[x] \in Nat
    BY <2>1
  <2> HIDE DEF T, r
  <2>5. SumFunctionOnSet(Amount, T \cup {r}) = Amount[r] + SumFunctionOnSet(Amount, T)
    BY <1>7, <2>1, <2>3, SumAdd
  <2>6. SumFunctionOnSet(Amount, T) \in Nat /\ Amount[r] \in Nat
    BY <1>1, <2>1, <2>4, SumNat
  <2>. QED
    BY <2>1, <2>2, <2>5, <2>6
<1>11. BalanceKept'
  BY <1>9 DEF BalanceKept, MoneyInv
<1>12. PaymentAgrees'
  BY <1>3, <1>9, <1>10 DEF PaymentAgrees
<1>. QED
  BY <1>1, <1>3, <1>5, <1>6, <1>10, <1>11, <1>12 DEF MoneyInv, Finalizable

(* Whatever a process does, the money is right.                            *)
LEMMA ActKeepsMoney ==
  ASSUME Orderly, Typed, MoneyInv, NEW p \in Processes, RequestOK(p), RefundAct(p)
  PROVE  MoneyInv'
<1>1. ASSUME NEW new, request' = [request EXCEPT ![p] = new], UNCHANGED <<refund, payment>>,
             FitsBalance(p)', CountsAll(p)'
      PROVE  MoneyInv'
  <2>1. \A q \in Processes \ {p} : request'[q] = request[q]
    BY <1>1 DEF Typed, Requests
  <2>. QED
    BY <1>1, <2>1, RowsUntouched
<1>2. CASE Publish(p) \/ Abandon(p)
  <2>1. request' = [request EXCEPT ![p] = Idle] /\ UNCHANGED <<refund, payment>>
    BY <1>2 DEF Publish, Abandon, Done
  <2>2. request'[p].step = "idle"
    BY <2>1 DEF Typed, Requests, Idle
  <2>3. FitsBalance(p)' /\ CountsAll(p)'
    BY <2>2 DEF FitsBalance, CountsAll
  <2>. QED
    BY <1>1, <2>1, <2>3
<1>3. ASSUME NEW r \in RefundIds, NEW a \in Amounts, BeginRequest(p, r, a)
      PROVE  MoneyInv'
  <2> DEFINE new == [op |-> "request", refund |-> r, amount |-> a, counted |-> {},
                     step |-> "create"]
  <2>1. /\ request' = [request EXCEPT ![p] = new] /\ UNCHANGED <<refund, payment>>
        /\ refund[r].status = "NONE" /\ a > 0 /\ a <= Paid - TotalOf(With(Reserved))
    BY <1>3 DEF BeginRequest, Goto, WithinBalance, Available
  <2>2. request'[p] = new
    BY <2>1 DEF Typed, Requests
  <2>3. a \in Int /\ Paid \in Int /\ TotalOf(With(Reserved)) \in Int
    BY SumTyped, RefundsAssumption DEF With
  <2>4. TotalOf(With(Reserved)) + a <= Paid
    BY <2>1, <2>3
  <2>5. TotalOf(With(Reserved))' = TotalOf(With(Reserved))
    BY <2>1 DEF TotalOf, With
  <2>6. FitsBalance(p)' /\ CountsAll(p)'
    BY <2>1, <2>2, <2>4, <2>5 DEF FitsBalance, CountsAll
  <2>. QED
    BY <1>1, <2>1, <2>6
<1>4. ASSUME NEW r \in RefundIds, NEW op \in FinalOps, BeginFinalize(p, op, r)
      PROVE  MoneyInv'
  <2> DEFINE new == [op |-> op, refund |-> r, amount |-> 0, counted |-> {},
                     step |-> "transition"]
  <2>1. request' = [request EXCEPT ![p] = new] /\ UNCHANGED <<refund, payment>>
    BY <1>4 DEF BeginFinalize, Goto
  <2>2. request'[p] = new
    BY <2>1 DEF Typed, Requests
  <2>3. FitsBalance(p)' /\ CountsAll(p)'
    BY <2>2 DEF FitsBalance, CountsAll
  <2>. QED
    BY <1>1, <2>1, <2>3
<1>5. CASE TotalRefunds(p)
  <2> DEFINE new == [request[p] EXCEPT !.step = "write", !.counted = Counts(p)]
  <2>1. request' = [request EXCEPT ![p] = new] /\ UNCHANGED <<refund, payment>>
    BY <1>5 DEF TotalRefunds
  <2>2. /\ request'[p].step = "write" /\ request'[p].refund = request[p].refund
        /\ request'[p].counted = With({ "SUCCEEDED" }) \cup { request[p].refund }
    BY <2>1 DEF Typed, Requests, Counts
  <2>3. FitsBalance(p)' /\ CountsAll(p)'
    BY <2>1, <2>2 DEF FitsBalance, CountsAll, With
  <2>. QED
    BY <1>1, <2>1, <2>3
<1>. QED
  BY <1>2, <1>3, <1>4, <1>5, CreateKeepsMoney, TransitionKeepsMoney, CommitKeepsMoney
  DEF RefundAct, RefundBegins, RefundProceeds

(* Every step of the composed system is one of a process of the refund     *)
(* service, or a call cut off, or leaves the service alone.                *)
LEMMA StepsOfService ==
  ASSUME \A w \in Workers : job[w].step # "idle" => job[w].event \in Events, [Next]_vars
  PROVE  \/ \E p \in Processes : RefundAct(p)
         \/ \E p \in Processes : Done(p) /\ UNCHANGED <<refund, payment>>
         \/ UNCHANGED refundVars
<1>1. ASSUME NEW p \in Admins, AdminActs(p) PROVE RefundAct(p) /\ p \in Processes
  BY <1>1 DEF AdminActs, RefundAct, Admins
<1>2. ASSUME NEW h \in Hooks,
             HookProceeds(h) \/ HookDies(h) \/ \E e \in Events : Deliver(h, e)
      PROVE  UNCHANGED refundVars
  BY <1>2 DEF HookProceeds, HookDies, Deliver, StoreEvent, QueueEvent
<1>3. ASSUME NEW w \in Workers, WorkerProceeds(w)
      PROVE  RefundAct(w) \/ UNCHANGED refundVars
  <2>1. CASE \E j \in Job : TakeEvent(w, j)
    BY <2>1 DEF TakeEvent
  <2>2. CASE CallLifecycle(w)
    <3>1. CASE UNCHANGED refundVars
      BY <3>1
    <3>2. ASSUME NEW op \in ActionFor(job[w].event), BeginFinalize(w, op, About[job[w].event])
          PROVE  RefundAct(w)
      <4>1. op \in FinalOps /\ About[job[w].event] \in RefundIds
        BY <2>2, RefundEventsAssumption DEF CallLifecycle, ActionFor
      <4>. QED
        BY <3>2, <4>1 DEF RefundAct, RefundBegins
    <3>. QED
      BY <2>2, <3>1, <3>2 DEF CallLifecycle
  <2>3. CASE Finalize(w) \/ PublishOutcome(w)
    BY <2>3 DEF Finalize, PublishOutcome, RefundAct, RefundProceeds
  <2>4. CASE MarkProcessed(w) \/ MarkIgnored(w) \/ MarkFailed(w)
    BY <2>4 DEF MarkProcessed, MarkIgnored, MarkFailed
  <2>. QED
    BY <1>3, <2>1, <2>2, <2>3, <2>4 DEF WorkerProceeds
<1>4. ASSUME NEW w \in Workers, WorkerDies(w)
      PROVE  Done(w) /\ UNCHANGED <<refund, payment>> /\ w \in Processes
  BY <1>4, RefundEventsAssumption DEF WorkerDies
<1>5. \A w \in Workers : w \in Processes
  BY RefundEventsAssumption
<1>. QED
  BY <1>1, <1>2, <1>3, <1>4, <1>5 DEF Next, vars, refundVars

LEMMA MoneyStart == Init => MoneyInv
<1> SUFFICES ASSUME Init PROVE MoneyInv
  OBVIOUS
<1> USE DEF Init, RefundInit
<1>1. With(Reserved) = {} /\ With({ "SUCCEEDED" }) = {}
  BY DEF With, Reserved, Finalizable
<1>2. TotalOf({}) = 0
  BY SumEmpty DEF TotalOf
<1>3. \A p \in Processes : FitsBalance(p) /\ CountsAll(p)
  BY DEF FitsBalance, CountsAll, Idle
<1>. QED
  BY <1>1, <1>2, <1>3, RefundsAssumption DEF MoneyInv, BalanceKept, PaymentAgrees

LEMMA MoneyKept ==
  ASSUME Orderly
  PROVE  RefundInv /\ MoneyInv /\ [Next]_vars => MoneyInv'
<1> SUFFICES ASSUME RefundInv, MoneyInv, [Next]_vars PROVE MoneyInv'
  OBVIOUS
<1>1. ASSUME NEW p \in Processes, RefundAct(p) PROVE MoneyInv'
  BY <1>1, ActKeepsMoney DEF RefundInv
<1>2. ASSUME NEW p \in Processes, Done(p), UNCHANGED <<refund, payment>> PROVE MoneyInv'
  <2>1. request'[p] = Idle /\ \A q \in Processes \ {p} : request'[q] = request[q]
    BY <1>2 DEF Done, RefundInv, Typed, Requests
  <2>2. FitsBalance(p)' /\ CountsAll(p)'
    BY <2>1 DEF FitsBalance, CountsAll, Idle
  <2>. QED
    BY <1>2, <2>1, <2>2, RowsUntouched
<1>3. CASE UNCHANGED refundVars
  BY <1>3 DEF refundVars, MoneyInv, FitsBalance, CountsAll, BalanceKept, PaymentAgrees,
              TotalOf, With
<1>4. \A w \in Workers : job[w].step # "idle" => job[w].event \in Events
  BY DEF RefundInv, JobOK
<1>. QED
  BY <1>1, <1>2, <1>3, <1>4, StepsOfService

(* What was paid is not given back twice: requestCurrentAdminRefund        *)
(* against every other request, finalisation and provider event.           *)
THEOREM NeverPaidBackTwice ==
  ASSUME Orderly
  PROVE  Spec => []BalanceKept
<1>1. MoneyInv => BalanceKept
  BY DEF MoneyInv
<1>. QED
  BY RefundStart, RefundKept, MoneyStart, MoneyKept, <1>1, PTL DEF Spec

(* The payment row tells what its refunds add up to: finalizeRefund, which *)
(* writes the refund first and the payment last.                           *)
THEOREM PaymentTellsRefunds ==
  ASSUME Orderly
  PROVE  Spec => []PaymentAgrees
<1>1. MoneyInv => PaymentAgrees
  BY DEF MoneyInv
<1>. QED
  BY RefundStart, RefundKept, MoneyStart, MoneyKept, <1>1, PTL DEF Spec

-----------------------------------------------------------------------------
(* Types, whatever overtakes what.  A request past its beginning has a     *)
(* refund in hand, a finalisation its operation; a job and a webhook       *)
(* request have their event.                                               *)

RequestState == [op : FinalOps \cup { "request", "none" },
                 refund : RefundIds \cup {NoRefund}, amount : Nat,
                 counted : SUBSET RefundIds, step : RefundStep]
HookState == [event : Events \cup {NoEvent}, step : { "idle", "store", "queue" }]

HasRefund(q) ==
  /\ q.step # "idle" => q.refund \in RefundIds
  /\ q.step \in { "transition", "total", "write", "publish" } => q.op \in FinalOps

TypeInv ==
  /\ TypeOK
  /\ \A p \in Processes : HasRefund(request[p])
  /\ \A w \in Workers : job[w].step # "idle" => job[w].event \in Events
  /\ \A h \in Hooks : hook[h].step # "idle" => hook[h].event \in Events

LEMMA JobAdded ==
  ASSUME TypeOK, NEW j \in Job
  PROVE  IsABag(BagAdd(jobs, j)) /\ DOMAIN BagAdd(jobs, j) \subseteq Job
BY DEF TypeOK, IsABag, BagAdd

LEMMA JobRemoved ==
  ASSUME TypeOK, NEW j \in Job
  PROVE  IsABag(BagRemove(jobs, j)) /\ DOMAIN BagRemove(jobs, j) \subseteq Job
BY DEF TypeOK, IsABag, BagRemove

(* What the refund service keeps: its types, whoever acts.                 *)
ServiceTyped == RefundTypeOK /\ \A p \in Processes : HasRefund(request[p])

LEMMA RequestSet ==
  ASSUME TypeInv, NEW p \in Processes, NEW new \in RequestState, HasRefund(new),
         request' = [request EXCEPT ![p] = new],
         refund' \in RefundRows, payment' \in [status : Refundable \cup { "REFUNDED" }, refunded : Int]
  PROVE  ServiceTyped'
<1>1. request' \in Requests
  BY DEF TypeInv, TypeOK, RefundTypeOK, Requests, RequestState
<1>2. \A q \in Processes : HasRefund(request'[q])
  BY DEF TypeInv, TypeOK, RefundTypeOK
<1>. QED
  BY <1>1, <1>2 DEF ServiceTyped, RefundTypeOK, Requests, RefundRows

LEMMA ActTyped ==
  ASSUME TypeInv, NEW p \in Processes, RefundAct(p) \/ (Done(p) /\ UNCHANGED <<refund, payment>>)
  PROVE  ServiceTyped'
<1> DEFINE q == request[p]
<1>1. /\ refund \in RefundRows /\ request \in Requests /\ q \in RequestState /\ HasRefund(q)
      /\ payment \in [status : Refundable \cup { "REFUNDED" }, refunded : Int]
      /\ Typed
  BY DEF TypeInv, TypeOK, RefundTypeOK, RefundRows, Requests, RequestState, Typed, Jobs
<1>2. Idle \in RequestState /\ HasRefund(Idle)
  BY DEF Idle, RequestState, RefundStep, HasRefund
<1>3. ASSUME NEW s \in RefundStep, request' = [request EXCEPT ![p].step = s],
             q.step # "idle", s = "total" \/ s = "publish", q.op \in FinalOps,
             refund' \in RefundRows,
             payment' \in [status : Refundable \cup { "REFUNDED" }, refunded : Int]
      PROVE  ServiceTyped'
  <2> DEFINE new == [q EXCEPT !.step = s]
  <2>1. request' = [request EXCEPT ![p] = new]
    BY <1>3
  <2>2. new \in RequestState /\ HasRefund(new)
    BY <1>1, <1>3 DEF RequestState, HasRefund
  <2>. QED
    BY <1>3, <2>1, <2>2, RequestSet
<1>4. CASE Done(p) /\ UNCHANGED <<refund, payment>>
  BY <1>1, <1>2, <1>4, RequestSet DEF Done
<1>5. CASE Publish(p) \/ Abandon(p)
  BY <1>4, <1>5 DEF Publish, Abandon
<1>6. ASSUME NEW r \in RefundIds, NEW a \in Amounts, BeginRequest(p, r, a)
      PROVE  ServiceTyped'
  <2> DEFINE new == [op |-> "request", refund |-> r, amount |-> a, counted |-> {},
                     step |-> "create"]
  <2>1. /\ request' = [request EXCEPT ![p] = new] /\ UNCHANGED <<refund, payment>>
        /\ a \in Nat
    BY <1>6, RefundsAssumption DEF BeginRequest, Goto
  <2>2. new \in RequestState /\ HasRefund(new)
    BY <2>1 DEF RequestState, RefundStep, HasRefund
  <2>. QED
    BY <1>1, <2>1, <2>2, RequestSet
<1>7. ASSUME NEW r \in RefundIds, NEW op \in FinalOps, BeginFinalize(p, op, r)
      PROVE  ServiceTyped'
  <2> DEFINE new == [op |-> op, refund |-> r, amount |-> 0, counted |-> {},
                     step |-> "transition"]
  <2>1. request' = [request EXCEPT ![p] = new] /\ UNCHANGED <<refund, payment>>
    BY <1>7 DEF BeginFinalize, Goto
  <2>2. new \in RequestState /\ HasRefund(new)
    BY DEF RequestState, RefundStep, HasRefund
  <2>. QED
    BY <1>1, <2>1, <2>2, RequestSet
<1>8. CASE CreateRefund(p)
  <2>1. q.refund \in RefundIds /\ q.amount \in Nat
    BY <1>1, <1>8 DEF CreateRefund, At, HasRefund, RequestState
  <2>2. refund' \in RefundRows
    BY <1>1, <1>8, <2>1 DEF CreateRefund, RefundRows, RefundStatus
  <2>3. request' = [request EXCEPT ![p] = Idle] /\ payment' = payment
    BY <1>8 DEF CreateRefund, Done
  <2>. QED
    BY <1>1, <1>2, <2>2, <2>3, RequestSet
<1>9. CASE TransitionRefund(p)
  <2>1. q.refund \in RefundIds /\ q.op \in FinalOps /\ q.step # "idle" /\ payment' = payment
    BY <1>1, <1>9 DEF TransitionRefund, At, HasRefund
  <2>2. RefundTarget[q.op] \in RefundStatus
    BY <2>1 DEF RefundTarget, FinalOps, RefundStatus
  <2>3. refund' \in RefundRows
    BY <1>1, <1>9, <2>1, <2>2, StatusOf DEF TransitionRefund
  <2>4. PICK s \in { "total", "publish" } : request' = [request EXCEPT ![p].step = s]
    BY <1>9 DEF TransitionRefund, Step
  <2>. QED
    BY <1>1, <1>3, <2>1, <2>3, <2>4 DEF RefundStep
<1>10. CASE TotalRefunds(p)
  <2> DEFINE new == [q EXCEPT !.step = "write", !.counted = Counts(p)]
  <2>1. request' = [request EXCEPT ![p] = new] /\ UNCHANGED <<refund, payment>>
    BY <1>10 DEF TotalRefunds
  <2>2. q.refund \in RefundIds /\ q.op \in FinalOps
    BY <1>1, <1>10 DEF TotalRefunds, At, HasRefund
  <2>3. Counts(p) \in SUBSET RefundIds
    BY <2>2 DEF Counts, With
  <2>4. new \in RequestState /\ HasRefund(new)
    BY <1>1, <2>2, <2>3 DEF RequestState, RefundStep, HasRefund
  <2>. QED
    BY <1>1, <2>1, <2>4, RequestSet
<1>11. CASE CommitSuccess(p)
  <2>1. q.refund \in RefundIds /\ q.op \in FinalOps /\ q.step # "idle"
    BY <1>1, <1>11 DEF CommitSuccess, At, HasRefund
  <2>2. refund' \in RefundRows
    BY <1>1, <1>11, <2>1, StatusOf DEF CommitSuccess, RefundStatus
  <2>3. q.counted \in SUBSET RefundIds
    BY <1>1 DEF RequestState
  <2>4. TotalOf(q.counted) \in Int
    BY <1>1, <2>3, SumTyped
  <2>5. payment' \in [status : Refundable \cup { "REFUNDED" }, refunded : Int]
    BY <1>11, <2>4 DEF CommitSuccess, Refundable
  <2>6. request' = [request EXCEPT ![p].step = "publish"]
    BY <1>11 DEF CommitSuccess, Step
  <2>. QED
    BY <1>3, <2>1, <2>2, <2>5, <2>6 DEF RefundStep
<1>. QED
  BY <1>4, <1>5, <1>6, <1>7, <1>8, <1>9, <1>10, <1>11
  DEF RefundAct, RefundBegins, RefundProceeds

(* What the queue and the webhook keep.                                    *)
RowsOK ==
  /\ event \in [Events -> EventStatus \cup { "NONE" }]
  /\ delivered \in [Events -> Nat] /\ answered \subseteq Events /\ dead \subseteq Events
HooksOK ==
  /\ hook \in [Hooks -> HookState]
  /\ \A h \in Hooks : hook[h].step # "idle" => hook[h].event \in Events
QueueOK == IsABag(jobs) /\ DOMAIN jobs \subseteq Job
JobsOK ==
  /\ job \in [Workers -> JobState]
  /\ \A w \in Workers : job[w].step # "idle" => job[w].event \in Events
EventsTyped == RowsOK /\ HooksOK /\ QueueOK /\ JobsOK

LEMMA TypeParts == TypeInv <=> ServiceTyped /\ EventsTyped
BY DEF TypeInv, TypeOK, ServiceTyped, EventsTyped, RowsOK, HooksOK, QueueOK, JobsOK,
       HookState, JobState

LEMMA EventsSame ==
  ASSUME TypeInv, UNCHANGED eventVars
  PROVE  EventsTyped'
BY DEF TypeInv, TypeOK, eventVars, EventsTyped, RowsOK, HooksOK, QueueOK, JobsOK, HookState,
       JobState

LEMMA HookTyped ==
  ASSUME TypeInv, NEW h \in Hooks,
         HookProceeds(h) \/ HookDies(h) \/ \E e \in Events : Deliver(h, e)
  PROVE  EventsTyped'
<1> DEFINE e == hook[h].event
<1>1. RowsOK'
  <2>1. CASE HookDies(h)
    BY <2>1 DEF HookDies, TypeInv, TypeOK, EventStatus, RowsOK
  <2>2. CASE StoreEvent(h)
    BY <2>2 DEF StoreEvent, TypeInv, TypeOK, EventStatus, RowsOK
  <2>3. CASE QueueEvent(h)
    BY <2>3 DEF QueueEvent, TypeInv, TypeOK, EventStatus, RowsOK
  <2>4. ASSUME NEW d \in Events, Deliver(h, d) PROVE RowsOK'
    BY <2>4 DEF Deliver, TypeInv, TypeOK, EventStatus, RowsOK
  <2>. QED
    BY <2>1, <2>2, <2>3, <2>4 DEF HookProceeds
<1>2. HooksOK'
  <2>1. NoHook \in HookState /\ NoHook.step = "idle"
    BY DEF NoHook, HookState
  <2>2. hook \in [Hooks -> HookState]
    BY DEF TypeInv, TypeOK, HookState
  <2>3. ASSUME NEW new \in HookState, new.step # "idle" => new.event \in Events,
               hook' = [hook EXCEPT ![h] = new]
        PROVE  HooksOK'
    BY <2>2, <2>3 DEF TypeInv, HooksOK
  <2>4. ASSUME hook[h].step # "idle", hook' = [hook EXCEPT ![h].step = "queue"]
        PROVE  HooksOK'
    BY <2>2, <2>4 DEF TypeInv, HookState, HooksOK
  <2>5. CASE HookDies(h) \/ QueueEvent(h)
    BY <2>1, <2>3, <2>5 DEF HookDies, QueueEvent
  <2>6. CASE StoreEvent(h)
    BY <2>1, <2>3, <2>4, <2>6 DEF StoreEvent
  <2>7. ASSUME NEW d \in Events, Deliver(h, d) PROVE HooksOK'
    <3>1. PICK s \in { "store", "queue" } :
            hook' = [hook EXCEPT ![h] = [event |-> d, step |-> s]]
      BY <2>7 DEF Deliver
    <3>. QED
      BY <2>3, <3>1 DEF HookState
  <2>. QED
    BY <2>5, <2>6, <2>7 DEF HookProceeds
<1>3. QueueOK'
  <2>1. CASE jobs' = jobs
    BY <2>1 DEF TypeInv, TypeOK, QueueOK
  <2>2. CASE QueueEvent(h)
    <3>1. e \in Events
      BY <2>2 DEF QueueEvent, TypeInv
    <3>2. [event |-> e, attempt |-> 1, stalled |-> FALSE] \in Job
      BY <3>1, RefundEventsAssumption DEF Job
    <3>. QED
      BY <2>2, <3>2, JobAdded DEF QueueEvent, TypeInv, QueueOK
  <2>. QED
    BY <2>1, <2>2 DEF HookProceeds, HookDies, StoreEvent, Deliver
<1>4. JobsOK'
  BY DEF HookProceeds, HookDies, StoreEvent, QueueEvent, Deliver, TypeInv, TypeOK, JobState,
         JobsOK
<1>. QED
  BY <1>1, <1>2, <1>3, <1>4 DEF EventsTyped

LEMMA WorkerTyped ==
  ASSUME TypeInv, NEW w \in Workers, WorkerProceeds(w) \/ WorkerDies(w)
  PROVE  EventsTyped'
<1> DEFINE e == job[w].event
<1>1. /\ job \in [Workers -> JobState] /\ job[w] \in JobState
      /\ job[w].step # "idle" => e \in Events
  BY DEF TypeInv, TypeOK, JobState
<1>2. HooksOK'
  BY DEF WorkerProceeds, WorkerDies, TakeEvent, CallLifecycle, Finalize, PublishOutcome,
         MarkProcessed, MarkIgnored, MarkFailed, eventVars, TypeInv, TypeOK, HooksOK, HookState
<1>3. ASSUME NEW new \in JobState, new.step # "idle" => new.event \in Events,
             job' = [job EXCEPT ![w] = new]
      PROVE  JobsOK'
  BY <1>1, <1>3 DEF TypeInv, JobsOK
<1>4. ASSUME Finish(w) PROVE JobsOK'
  BY <1>3, <1>4, NoJobTyped DEF Finish
<1>5. ASSUME job[w].step # "idle",
             NEW t \in { "call", "finalize", "process", "ignore", "fail" }, Turn(w, t)
      PROVE  JobsOK'
  <2> DEFINE new == [job[w] EXCEPT !.step = t]
  <2>1. job' = [job EXCEPT ![w] = new]
    BY <1>5 DEF Turn
  <2>2. new \in JobState /\ new.event \in Events
    BY <1>1, <1>5 DEF JobState
  <2>. QED
    BY <1>3, <2>1, <2>2
<1>6. ASSUME UNCHANGED <<event, delivered, answered, dead>> PROVE RowsOK'
  BY <1>6 DEF TypeInv, TypeOK, RowsOK
<1>7. ASSUME UNCHANGED jobs PROVE QueueOK'
  BY <1>7 DEF TypeInv, TypeOK, QueueOK
<1>8. ASSUME NEW j \in Job, jobs' = BagAdd(jobs, j) PROVE QueueOK'
  BY <1>8, JobAdded DEF TypeInv, QueueOK
<1>9. ASSUME e \in Events PROVE InHandOf(w) \in Job
  BY <1>1, <1>9 DEF InHandOf, Job, JobState
<1>10. ASSUME NEW j \in Job, TakeEvent(w, j) PROVE EventsTyped'
  <2>1. RowsOK'
    BY <1>6, <1>10 DEF TakeEvent
  <2>2. QueueOK'
    BY <1>10, JobRemoved DEF TakeEvent, TypeInv, QueueOK
  <2>3. CASE job' = job
    BY <1>2, <2>1, <2>2, <2>3 DEF EventsTyped, JobsOK, TypeInv, TypeOK, JobState
  <2>4. CASE job' # job
    <3>1. PICK t \in { "call", "ignore" } :
            job' = [job EXCEPT ![w] = [event |-> j.event, attempt |-> j.attempt,
                                       stalled |-> j.stalled, step |-> t]]
      BY <1>10, <2>4 DEF TakeEvent
    <3> DEFINE new == [event |-> j.event, attempt |-> j.attempt, stalled |-> j.stalled,
                       step |-> t]
    <3>2. new \in JobState /\ new.event \in Events
      BY DEF Job, JobState
    <3>3. JobsOK'
      BY <1>3, <3>1, <3>2
    <3>. QED
      BY <1>2, <2>1, <2>2, <3>3 DEF EventsTyped
  <2>. QED
    BY <2>3, <2>4
<1>11. ASSUME CallLifecycle(w) PROVE EventsTyped'
  <2>1. PICK t \in { "process", "finalize", "fail" } : Turn(w, t)
    BY <1>11 DEF CallLifecycle
  <2>2. job[w].step # "idle" /\ UNCHANGED <<event, delivered, answered, dead, jobs>>
    BY <1>11 DEF CallLifecycle
  <2>. QED
    BY <1>2, <1>5, <1>6, <1>7, <2>1, <2>2 DEF EventsTyped
<1>12. CASE Finalize(w)
  BY <1>12, EventsSame DEF Finalize
<1>13. ASSUME PublishOutcome(w) PROVE EventsTyped'
  <2>1. PICK t \in { "process", "fail" } : Turn(w, t)
    BY <1>13 DEF PublishOutcome
  <2>2. job[w].step # "idle" /\ UNCHANGED <<event, delivered, answered, dead, jobs>>
    BY <1>13 DEF PublishOutcome
  <2>. QED
    BY <1>2, <1>5, <1>6, <1>7, <2>1, <2>2 DEF EventsTyped
<1>14. ASSUME MarkProcessed(w) \/ MarkIgnored(w) \/ MarkFailed(w) PROVE EventsTyped'
  <2>1. /\ e \in Events /\ Finish(w) /\ UNCHANGED <<delivered, answered>>
        /\ \E to \in EventStatus : event' = [event EXCEPT ![e] = to]
    BY <1>1, <1>14 DEF MarkProcessed, MarkIgnored, MarkFailed, Mark, EventStatus
  <2>2. event' \in [Events -> EventStatus \cup { "NONE" }]
    BY <2>1 DEF TypeInv, TypeOK
  <2>3. InHandOf(w) \in Job /\ InHandOf(w).event = e
    BY <1>9, <2>1 DEF InHandOf
  <2>4. QueueOK' /\ dead' \subseteq Events
    <3>1. CASE MarkProcessed(w) \/ MarkIgnored(w)
      BY <1>7, <3>1 DEF MarkProcessed, MarkIgnored, TypeInv, TypeOK
    <3>2. CASE MarkFailed(w) /\ InHandOf(w).attempt < MaxAttempts
      <4>1. [InHandOf(w) EXCEPT !.attempt = @ + 1] \in Job
        BY <2>3, <3>2, RefundEventsAssumption DEF Job
      <4>. QED
        BY <1>8, <3>2, <4>1 DEF MarkFailed, Retry, TypeInv, TypeOK
    <3>3. CASE MarkFailed(w) /\ ~(InHandOf(w).attempt < MaxAttempts)
      BY <1>7, <2>1, <2>3, <3>3 DEF MarkFailed, Retry, TypeInv, TypeOK
    <3>. QED
      BY <1>14, <3>1, <3>2, <3>3
  <2>5. RowsOK'
    BY <2>1, <2>2, <2>4 DEF RowsOK, TypeInv, TypeOK
  <2>. QED
    BY <1>2, <1>4, <2>1, <2>4, <2>5 DEF EventsTyped
<1>15. ASSUME WorkerDies(w) PROVE EventsTyped'
  <2>1. e \in Events /\ Finish(w) /\ UNCHANGED <<event, delivered, answered>>
    BY <1>1, <1>15 DEF WorkerDies
  <2>2. [InHandOf(w) EXCEPT !.stalled = TRUE] \in Job
    BY <1>9, <2>1 DEF Job
  <2>3. QueueOK' /\ dead' \subseteq Events
    BY <1>7, <1>8, <1>15, <2>1, <2>2 DEF WorkerDies, TypeInv, TypeOK
  <2>4. RowsOK'
    BY <2>1, <2>3 DEF RowsOK, TypeInv, TypeOK
  <2>. QED
    BY <1>2, <1>4, <2>1, <2>3, <2>4 DEF EventsTyped
<1>. QED
  BY <1>10, <1>11, <1>12, <1>13, <1>14, <1>15 DEF WorkerProceeds

LEMMA TypeStart == Init => TypeInv
<1> SUFFICES ASSUME Init PROVE TypeInv
  OBVIOUS
<1> USE DEF Init, RefundInit
<1>1. RefundTypeOK /\ \A p \in Processes : HasRefund(request[p])
  BY DEF RefundTypeOK, Idle, RefundStep, Refundable, HasRefund
<1>2. RowsOK /\ HooksOK
  BY DEF RowsOK, HooksOK, HookState, NoHook
<1>3. JobsOK
  BY NoJobTyped DEF JobsOK
<1>4. QueueOK
  BY DEF QueueOK, EmptyBag, SetToBag, IsABag
<1>. QED
  BY <1>1, <1>2, <1>3, <1>4, TypeParts DEF ServiceTyped, EventsTyped

LEMMA TypeKept == TypeInv /\ [Next]_vars => TypeInv'
<1> SUFFICES ASSUME TypeInv, [Next]_vars PROVE TypeInv'
  OBVIOUS
<1>1. ServiceTyped'
  <2>1. CASE UNCHANGED refundVars
    BY <2>1 DEF refundVars, TypeInv, TypeOK, RefundTypeOK, ServiceTyped
  <2>2. \A w \in Workers : job[w].step # "idle" => job[w].event \in Events
    BY DEF TypeInv
  <2>. QED
    BY <2>1, <2>2, StepsOfService, ActTyped
<1>2. EventsTyped'
  <2>1. CASE UNCHANGED eventVars
    BY <2>1, EventsSame
  <2>2. ASSUME NEW p \in Admins, AdminActs(p) PROVE UNCHANGED eventVars
    BY <2>2 DEF AdminActs
  <2>. QED
    BY <2>1, <2>2, HookTyped, WorkerTyped DEF Next, vars
<1>3. TypeInv' <=> ServiceTyped' /\ EventsTyped'
  BY TypeParts, PTL
<1>. QED
  BY <1>1, <1>2, <1>3

(* Rows, requests, queue and jobs keep their shape, whoever overtakes whom *)
(* and whatever dies: no request commits a refund it does not have, no     *)
(* retry goes beyond MaxAttempts, no worker settles an event it did not    *)
(* take (processRefundProviderEvent, finalizeRefund).                      *)
THEOREM TypeCorrect == Spec => []TypeOK
<1>1. TypeInv => TypeOK
  BY DEF TypeInv
<1>. QED
  BY TypeStart, TypeKept, <1>1, PTL DEF Spec

=============================================================================
