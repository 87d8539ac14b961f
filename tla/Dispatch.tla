------------------------------ MODULE Dispatch ------------------------------
(***************************************************************************)
(* How a delivery order gets its rider: AutoDispatchService and the two    *)
(* order timeouts run as BullMQ jobs on a pool of workers, while riders,   *)
(* the merchant, the customer and an admin act on the same rows through    *)
(* HTTP handlers.                                                          *)
(*                                                                         *)
(* Every handler reads its rows, checks a policy on what it read, and      *)
(* writes by id in a transaction that checks nothing again.  The reads and *)
(* the transaction are separate steps here, and so is each step that       *)
(* follows the commit (resolving the attempt, enqueueing a job).  The one  *)
(* transaction with a protocol inside it, assignAndNotify, is split at its *)
(* advisory lock, its count and its writes.                                *)
(*                                                                         *)
(* Stock, payments and messages written by the same handlers are the       *)
(* subject of OrderLifecycle; time is abstracted: a delayed job may run at *)
(* any moment after it was enqueued.                                       *)
(***************************************************************************)
EXTENDS OrderPolicy, Naturals, Sequences, FiniteSets, Bags, BagsExt

CONSTANTS
  Orders,             \* delivery orders
  Riders,             \* active rider accounts
  NoRider,            \* the null riderId
  NoOrder,
  Workers,            \* WORKER_CONCURRENCY workers of the dispatch queues
  NoWorker,           \* the holder of a free advisory lock
  Desks,              \* slots from which customer, merchant and admin act
  RiderActs,          \* the rider operations and
  DeskOps,            \* the desk operations that take part
  MaxFailedAttempts,  \* MAX_FAILED_ATTEMPTS
  MaxAttempts,        \* model bound: riders stop coming online when an order
                      \* has had this many dispatch attempts
  SplitRequests,      \* may another step fall between a handler's read and its commit?
  Faults              \* may a process die between two of its steps?

ASSUME ConstantsAssumption ==
  /\ NoRider \notin Riders
  /\ NoOrder \notin Orders
  /\ NoWorker \notin Workers
  /\ Riders \cap Desks = {}
  /\ MaxFailedAttempts \in Nat \ {0}
  /\ MaxAttempts \in Nat
  /\ SplitRequests \in BOOLEAN
  /\ Faults \in BOOLEAN

ASSUME OpsAssumption ==
  /\ RiderActs \subseteq RiderOps \cup { "goOffline" }
  /\ DeskOps \subseteq { "merchantAccept", "merchantReject", "markPreparing",
                         "markReady", "customerCancel", "adminCancel", "adminAssign" }

VARIABLES
  status,     \* Order.status
  delivery,   \* the order's Delivery row: its riderId and status
  online,     \* RiderAvailability: online and available
  attempts,   \* the order's OrderDispatchAttempt rows, by attemptedAt
  queue,      \* jobs waiting in the dispatch and order-timeouts queues
  lock,       \* pg_advisory_xact_lock(hashtext(riderId)): the worker holding it
  worker,     \* what each worker is doing
  request     \* the HTTP request each client has in flight

vars == <<status, delivery, online, attempts, queue, lock, worker, request>>

Clients == Riders \cup Desks

-----------------------------------------------------------------------------
(* Jobs and their payloads.                                                *)

JobKind == { "autoDispatchOrder", "autoDispatchPendingForRider",
             "riderDispatchTimeout", "riderTimeout" }

Job == [kind : JobKind, order : Orders \cup {NoOrder},
        rider : Riders \cup {NoRider}, attempt : Nat]

AutoDispatch(o) == [kind |-> "autoDispatchOrder", order |-> o,
                    rider |-> NoRider, attempt |-> 0]
ScanForRider(r) == [kind |-> "autoDispatchPendingForRider", order |-> NoOrder,
                    rider |-> r, attempt |-> 0]
DispatchTimeout(o, a) == [kind |-> "riderDispatchTimeout", order |-> o,
                          rider |-> NoRider, attempt |-> a]
RiderTimeout(o) == [kind |-> "riderTimeout", order |-> o,
                    rider |-> NoRider, attempt |-> 0]

Outcome == { "pending", "accepted", "rejected", "timeout", "failed" }
Attempt == [rider : Riders, outcome : Outcome]

WorkerStep == { "idle", "pick", "create", "lock", "count", "write",
                "timer", "failed", "requeue", "cancel", "mark", "check",
                "reset", "recount", "expire" }

NoJob == AutoDispatch(NoOrder)
IdleWorker == [step |-> "idle", job |-> NoJob, order |-> NoOrder,
               rider |-> NoRider, attempt |-> 0]

RequestStep == { "idle", "commit", "find", "resolve", "enqueue", "enqueueTimeout" }
IdleRequest == [op |-> "none", order |-> NoOrder, rider |-> NoRider,
                attempt |-> 0, step |-> "idle"]

-----------------------------------------------------------------------------
(* The queries.                                                            *)

Waiting(o) == status[o] = "MERCHANT_ACCEPTED" /\ delivery[o].rider = NoRider

(* findReadyOrdersWithoutRider: orders that have no delivery record. *)
WaitingWithoutRow ==
  { o \in Orders : status[o] = "MERCHANT_ACCEPTED" /\ delivery[o].status = "NO_ROW" }

AttemptsOf(o) == DOMAIN attempts[o]
FailedAttempts(o) ==
  { a \in AttemptsOf(o) : attempts[o][a].outcome \in { "timeout", "rejected" } }
(* Broken variant: gives up one attempt early. *)
ExhaustedEarly(o) == Cardinality(FailedAttempts(o)) + 1 >= MaxFailedAttempts
Exhausted(o) == Cardinality(FailedAttempts(o)) >= MaxFailedAttempts
(* Broken variant: forgets the riders who never gave an answer. *)
TriedAnswered(o) == { attempts[o][a].rider : a \in FailedAttempts(o) }
TriedRiders(o) == { attempts[o][a].rider : a \in AttemptsOf(o) }

(* The orders rider r is on, as counted inside assignAndNotify. *)
ActiveOrders(r) ==
  { o \in Orders : delivery[o].rider = r /\ delivery[o].status \in ActiveDelivery }

(* findEligibleRiders: online, and on no delivery of a narrower list. *)
EligibleRiders ==
  { r \in Riders :
      /\ online[r]
      /\ \A o \in Orders :
           ~(delivery[o].rider = r /\ delivery[o].status \in BusyForEligibility) }

(* The HTTP operations, and the types of the variables. *)
RequestOp == RiderActs \cup DeskOps \cup { "none", "goOnline", "repeatAccept" }

WorkerState == [step : WorkerStep, job : Job, order : Orders \cup {NoOrder},
                rider : Riders \cup {NoRider}, attempt : Nat]
RequestState == [op : RequestOp, order : Orders \cup {NoOrder},
                 rider : Riders \cup {NoRider}, attempt : Nat, step : RequestStep]

TypeOK ==
  /\ status \in [Orders -> OrderStatus]
  /\ delivery \in [Orders -> [rider : Riders \cup {NoRider}, status : DeliveryStatus]]
  /\ online \in [Riders -> BOOLEAN]
  /\ attempts \in [Orders -> Seq(Attempt)]
  /\ IsABag(queue) /\ DOMAIN queue \subseteq Job
  /\ lock \in [Riders -> Workers \cup {NoWorker}]
  /\ worker \in [Workers -> WorkerState]
  /\ request \in [Clients -> RequestState]

-----------------------------------------------------------------------------
(* Without SplitRequests a request that has read commits before anything   *)
(* else happens; with it any step may come between.                        *)
MayInterleave == SplitRequests \/ \A c \in Clients : request[c].step # "commit"

At(w, step) == MayInterleave /\ worker[w].step = step
MayBegin(c) == MayInterleave /\ request[c].step = "idle"
After(c, step) == MayInterleave /\ request[c].step = step

Init ==
  /\ status = [o \in Orders |-> "PLACED"]
  /\ delivery = [o \in Orders |-> [rider |-> NoRider, status |-> "NO_ROW"]]
  /\ online = [r \in Riders |-> FALSE]
  /\ attempts = [o \in Orders |-> <<>>]
  /\ queue = EmptyBag
  /\ lock = [r \in Riders |-> NoWorker]
  /\ worker = [w \in Workers |-> IdleWorker]
  /\ request = [c \in Clients |-> IdleRequest]

-----------------------------------------------------------------------------
(* Workers.  A worker takes a job and does its first reads in one step:    *)
(* nothing it shares changes in between.                                   *)

Goto(w, step) == worker' = [worker EXCEPT ![w].step = step]
Finish(w) == worker' = [worker EXCEPT ![w] = IdleWorker]
Enqueue(job) == queue' = BagAdd(queue, job)
(* Broken variant: misspells an outcome code, which the schema leaves free. *)
SetOutcomeMisspelt(o, a, outcome) ==
  attempts' = [attempts EXCEPT ![o][a].outcome =
                 IF outcome = "timeout" THEN "timed_out" ELSE outcome]
SetOutcome(o, a, outcome) == attempts' = [attempts EXCEPT ![o][a].outcome = outcome]

Take(w, job, o, step) ==
  /\ At(w, "idle")
  /\ BagIn(job, queue)
  /\ queue' = BagRemove(queue, job)
  /\ worker' = IF step = "idle" THEN worker
               ELSE [worker EXCEPT ![w] =
                       [step |-> step, job |-> job, order |-> o,
                        rider |-> job.rider, attempt |-> job.attempt]]

(* handleAutoDispatchOrder: skip an order that no longer waits, cancel one *)
(* that has used up its attempts, otherwise look for a rider.              *)
StartAutoDispatch(w, o) ==
  /\ Take(w, AutoDispatch(o), o,
          IF ~Waiting(o) THEN "idle" ELSE IF Exhausted(o) THEN "cancel" ELSE "pick")
  /\ UNCHANGED <<status, delivery, online, attempts, lock, request>>

(* handleAutoDispatchForRider: the rider must still be online; any order   *)
(* waiting without a Delivery row will do (township only orders them).     *)
StartScanForRider(w, r) ==
  /\ IF online[r] /\ WaitingWithoutRow # {}
     THEN \E o \in WaitingWithoutRow : Take(w, ScanForRider(r), o, "create")
     ELSE Take(w, ScanForRider(r), NoOrder, "idle")
  /\ UNCHANGED <<status, delivery, online, attempts, lock, request>>

(* getTriedRiderIds and pickEligibleRider; with nobody left the job ends   *)
(* and nothing is enqueued in its place.                                   *)
PickRider(w) ==
  /\ At(w, "pick")
  /\ LET candidates == EligibleRiders \ TriedRiders(worker[w].order) IN
       \/ \E r \in candidates :
            worker' = [worker EXCEPT ![w].rider = r, ![w].step = "create"]
       \/ candidates = {} /\ Finish(w)
  /\ UNCHANGED <<status, delivery, online, attempts, queue, lock, request>>

(* assignAndNotify, up to its transaction. *)
CreateAttempt(w) ==
  /\ At(w, "create")
  /\ LET o == worker[w].order IN
       /\ attempts' = [attempts EXCEPT ![o] =
                         Append(@, [rider |-> worker[w].rider, outcome |-> "pending"])]
       /\ worker' = [worker EXCEPT ![w].attempt = Len(attempts[o]) + 1,
                                   ![w].step = "lock"]
  /\ UNCHANGED <<status, delivery, online, queue, lock, request>>

(* Broken variant: pg_try_advisory_xact_lock with its answer ignored. *)
TryRiderLock(w) ==
  /\ At(w, "lock")
  /\ lock' = [lock EXCEPT ![worker[w].rider] = w]
  /\ Goto(w, "count")
  /\ UNCHANGED <<status, delivery, online, attempts, queue, request>>

AcquireRiderLock(w) ==
  /\ At(w, "lock")
  /\ lock[worker[w].rider] = NoWorker
  /\ lock' = [lock EXCEPT ![worker[w].rider] = w]
  /\ Goto(w, "count")
  /\ UNCHANGED <<status, delivery, online, attempts, queue, request>>

(* Broken variant: counts with the narrower list of findEligibleRiders. *)
CountBusy(w) ==
  /\ At(w, "count")
  /\ LET r == worker[w].rider IN
       IF \A o \in ActiveOrders(r) : delivery[o].status \notin BusyForEligibility
       THEN Goto(w, "write") /\ UNCHANGED lock
       ELSE Goto(w, "failed") /\ lock' = [lock EXCEPT ![r] = NoWorker]
  /\ UNCHANGED <<status, delivery, online, attempts, queue, request>>

(* The count under the lock; a busy rider aborts the transaction, which    *)
(* drops the lock.                                                         *)
CountActive(w) ==
  /\ At(w, "count")
  /\ LET r == worker[w].rider IN
       IF ActiveOrders(r) = {}
       THEN Goto(w, "write") /\ UNCHANGED lock
       ELSE Goto(w, "failed") /\ lock' = [lock EXCEPT ![r] = NoWorker]
  /\ UNCHANGED <<status, delivery, online, attempts, queue, request>>

(* upsertAssignedDelivery and updateOrderStatus, then the commit: neither  *)
(* looks at what the order has become since it was read.                   *)
CommitAssignment(w) ==
  /\ At(w, "write")
  /\ LET o == worker[w].order
         r == worker[w].rider IN
       /\ delivery' = [delivery EXCEPT ![o] = [rider |-> r, status |-> "ASSIGNED"]]
       /\ status' = [status EXCEPT ![o] = "RIDER_ASSIGNED"]
       /\ lock' = [lock EXCEPT ![r] = NoWorker]
  /\ Goto(w, "timer")
  /\ UNCHANGED <<online, attempts, queue, request>>

(* Broken variant: assigns and sets no timer. *)
ForgetDispatchTimeout(w) ==
  /\ At(w, "timer")
  /\ Finish(w)
  /\ UNCHANGED <<status, delivery, online, attempts, queue, lock, request>>

ScheduleDispatchTimeout(w) ==
  /\ At(w, "timer")
  /\ Enqueue(DispatchTimeout(worker[w].order, worker[w].attempt))
  /\ Finish(w)
  /\ UNCHANGED <<status, delivery, online, attempts, lock, request>>

(* The catch block: the attempt is marked failed, the order is retried.    *)
MarkAttemptFailed(w) ==
  /\ At(w, "failed")
  /\ SetOutcome(worker[w].order, worker[w].attempt, "failed")
  /\ Goto(w, "requeue")
  /\ UNCHANGED <<status, delivery, online, queue, lock, request>>

RetryOrder(w) ==
  /\ At(w, "requeue")
  /\ Enqueue(AutoDispatch(worker[w].order))
  /\ Finish(w)
  /\ UNCHANGED <<status, delivery, online, attempts, lock, request>>

(* cancelOrderNoRider: cancelOrderForSystem consults no policy.            *)
CancelNoRider(w) ==
  /\ At(w, "cancel")
  /\ status' = [status EXCEPT ![worker[w].order] = "CANCELLED"]
  /\ Finish(w)
  /\ UNCHANGED <<delivery, online, attempts, queue, lock, request>>

(* handleRiderDispatchTimeout, one step per statement.                     *)
StartDispatchTimeout(w, o, a) ==
  /\ Take(w, DispatchTimeout(o, a), o,
          IF attempts[o][a].outcome = "pending" THEN "mark" ELSE "idle")
  /\ UNCHANGED <<status, delivery, online, attempts, lock, request>>

(* Broken variant: marks the attempt and returns. *)
MarkTimeoutOnly(w) ==
  /\ At(w, "mark")
  /\ SetOutcome(worker[w].order, worker[w].attempt, "timeout")
  /\ Finish(w)
  /\ UNCHANGED <<status, delivery, online, queue, lock, request>>

MarkTimeout(w) ==
  /\ At(w, "mark")
  /\ SetOutcome(worker[w].order, worker[w].attempt, "timeout")
  /\ Goto(w, "check")
  /\ UNCHANGED <<status, delivery, online, queue, lock, request>>

CheckUnanswered(w) ==
  /\ At(w, "check")
  /\ LET o == worker[w].order IN
       IF status[o] = "RIDER_ASSIGNED" /\ delivery[o].status = "ASSIGNED"
       THEN Goto(w, "reset") ELSE Finish(w)
  /\ UNCHANGED <<status, delivery, online, attempts, queue, lock, request>>

(* Broken variant: resets the status and leaves the rider on the delivery. *)
TakeBackKeepingRider(w) ==
  /\ At(w, "reset")
  /\ LET o == worker[w].order IN
       /\ delivery' = [delivery EXCEPT ![o].status = "PENDING_ASSIGNMENT"]
       /\ status' = [status EXCEPT ![o] = "MERCHANT_ACCEPTED"]
  /\ Goto(w, "recount")
  /\ UNCHANGED <<online, attempts, queue, lock, request>>

TakeBackAssignment(w) ==
  /\ At(w, "reset")
  /\ LET o == worker[w].order IN
       /\ delivery' = [delivery EXCEPT ![o] =
                         [rider |-> NoRider, status |-> "PENDING_ASSIGNMENT"]]
       /\ status' = [status EXCEPT ![o] = "MERCHANT_ACCEPTED"]
  /\ Goto(w, "recount")
  /\ UNCHANGED <<online, attempts, queue, lock, request>>

RecountAfterTimeout(w) ==
  /\ At(w, "recount")
  /\ Goto(w, IF Exhausted(worker[w].order) THEN "cancel" ELSE "pick")
  /\ UNCHANGED <<status, delivery, online, attempts, queue, lock, request>>

(* OrderTimeoutJob.handleRiderTimeout: read, then cancelAndNotify.         *)
StartRiderTimeout(w, o) ==
  /\ Take(w, RiderTimeout(o), o, IF Waiting(o) THEN "expire" ELSE "idle")
  /\ UNCHANGED <<status, delivery, online, attempts, lock, request>>

ExpireOrder(w) ==
  /\ At(w, "expire")
  /\ status' = [status EXCEPT ![worker[w].order] = "CANCELLED"]
  /\ Finish(w)
  /\ UNCHANGED <<delivery, online, attempts, queue, lock, request>>

(* The assignment transaction aborts on a database error: same catch block. *)
AbortAssignment(w) ==
  /\ Faults /\ MayInterleave
  /\ worker[w].step \in { "lock", "count", "write" }
  /\ lock' = [r \in Riders |-> IF lock[r] = w THEN NoWorker ELSE lock[r]]
  /\ Goto(w, "failed")
  /\ UNCHANGED <<status, delivery, online, attempts, queue, request>>

(* A worker dies: its transaction aborts, and BullMQ hands the stalled job *)
(* out again or, with its attempts used up, moves it to the dead letters.  *)
WorkerDies(w) ==
  /\ Faults /\ MayInterleave
  /\ worker[w].step # "idle"
  /\ lock' = [r \in Riders |-> IF lock[r] = w THEN NoWorker ELSE lock[r]]
  /\ \/ /\ Enqueue(worker[w].job)
        /\ \A o \in Orders : Len(attempts[o]) <= MaxAttempts   \* model bound
     \/ UNCHANGED queue
  /\ Finish(w)
  /\ UNCHANGED <<status, delivery, online, attempts, request>>

-----------------------------------------------------------------------------
(* HTTP requests.  A request reads and is checked in Begin..., commits in  *)
(* Commit..., and goes through what its handler does after the commit.     *)

Proceed(c, step) == request' = [request EXCEPT ![c].step = step]
Done(c) == request' = [request EXCEPT ![c] = IdleRequest]
ReadFor(c, op, o, r) ==
  request' = [request EXCEPT ![c] = [op |-> op, order |-> o, rider |-> r,
                                     attempt |-> 0, step |-> "commit"]]

(* RiderDeliveryActionsService: the delivery is found by id and rider.     *)
BeginRiderAction(r, op, o) ==
  /\ MayBegin(r)
  /\ delivery[o].rider = r
  /\ RiderMay(op, status[o], delivery[o].status)
  /\ ReadFor(r, op, o, r)
  /\ UNCHANGED <<status, delivery, online, attempts, queue, lock, worker>>

(* Both rows are written by id; the rider is dropped when the delivery     *)
(* goes back to PENDING_ASSIGNMENT.                                        *)
CommitRiderAction(r) ==
  /\ request[r].step = "commit" /\ request[r].op \in RiderOps
  /\ LET o == request[r].order
         op == request[r].op
         target == RiderTarget[op] IN
       /\ delivery' = [delivery EXCEPT ![o] =
            [rider |-> IF target.delivery = "PENDING_ASSIGNMENT"
                       THEN NoRider ELSE delivery[o].rider,
             status |-> target.delivery]]
       /\ status' = [status EXCEPT ![o] = target.order]
       /\ \/ op \in { "accept", "reject" } /\ Proceed(r, "find")
          \/ op = "riderCancel" /\ Proceed(r, "enqueue")
          \/ op \in { "pickUp", "onTheWay", "deliver", "fail" } /\ Done(r)
  /\ UNCHANGED <<online, attempts, queue, lock, worker>>

(* resolveDispatchAttempt: the rider's latest pending attempt, if any.     *)
PendingAttempts(o, r) ==
  { a \in AttemptsOf(o) : attempts[o][a] = [rider |-> r, outcome |-> "pending"] }
AfterResolve(r) ==
  IF request[r].op = "reject" THEN Proceed(r, "enqueue") ELSE Done(r)

(* After an accept the delivery is reloaded for this rider first, and one  *)
(* that is no longer his ends the request with 404.                        *)
FindAttempt(r) ==
  /\ After(r, "find")
  /\ LET o == request[r].order
         pending == PendingAttempts(o, r) IN
       IF request[r].op = "accept" /\ delivery[o].rider # r THEN Done(r)
       ELSE IF pending = {} THEN AfterResolve(r)
       ELSE \E latest \in pending :
              /\ \A a \in pending : a <= latest
              /\ request' = [request EXCEPT ![r].attempt = latest, ![r].step = "resolve"]
  /\ UNCHANGED <<status, delivery, online, attempts, queue, lock, worker>>

ResolveAttempt(r) ==
  /\ After(r, "resolve")
  /\ SetOutcome(request[r].order, request[r].attempt,
                IF request[r].op = "reject" THEN "rejected" ELSE "accepted")
  /\ AfterResolve(r)
  /\ UNCHANGED <<status, delivery, online, queue, lock, worker>>

(* Accepting what was already accepted writes nothing but goes on to       *)
(* resolve the attempt.                                                    *)
RepeatAccept(r, o) ==
  /\ MayBegin(r)
  /\ delivery[o] = [rider |-> r, status |-> "ACCEPTED"]
  /\ status[o] = "RIDER_ACCEPTED"
  /\ PendingAttempts(o, r) # {}
  /\ request' = [request EXCEPT ![r] = [op |-> "repeatAccept", order |-> o,
                                         rider |-> r, attempt |-> 0, step |-> "find"]]
  /\ UNCHANGED <<status, delivery, online, attempts, queue, lock, worker>>

(* RiderAvailabilityService.                                               *)
BeginGoOnline(r) ==
  /\ MayBegin(r)
  /\ ~online[r]
  /\ ~BagIn(ScanForRider(r), queue)                \* model bounds
  /\ \A o \in Orders : Len(attempts[o]) < MaxAttempts
  /\ ReadFor(r, "goOnline", NoOrder, r)
  /\ UNCHANGED <<status, delivery, online, attempts, queue, lock, worker>>

CommitGoOnline(r) ==
  /\ request[r].step = "commit" /\ request[r].op = "goOnline"
  /\ online' = [online EXCEPT ![r] = TRUE]
  /\ Proceed(r, "enqueue")
  /\ UNCHANGED <<status, delivery, attempts, queue, lock, worker>>

GoOffline(r) ==
  /\ "goOffline" \in RiderActs
  /\ MayBegin(r)
  /\ online[r]
  /\ online' = [online EXCEPT ![r] = FALSE]
  /\ UNCHANGED <<status, delivery, attempts, queue, lock, worker, request>>

(* The merchant, the customer and an admin.                                *)
DeskMay(op, o, r) ==
  \/ op \in { "merchantAccept", "merchantReject" } /\ status[o] = "PLACED"
  \/ op = "markPreparing" /\ status[o] \in PreparableFrom("DELIVERY")
  \/ op = "markReady" /\ status[o] = "PREPARING"
  \/ op = "customerCancel" /\ status[o] \in CustomerCancellable
  \/ op = "adminCancel" /\ status[o] \in AdminCancellable
  \/ /\ op = "adminAssign"
     /\ status[o] \in AdminAssignable
     /\ ~(status[o] = "RIDER_ASSIGNED" /\ delivery[o].rider = r)
     /\ online[r]
     /\ (BagIn(AutoDispatch(o), queue) => queue[AutoDispatch(o)] < 2)   \* model bound

DeskTarget ==
  [ merchantAccept |-> "MERCHANT_ACCEPTED", merchantReject |-> "MERCHANT_REJECTED",
    markPreparing  |-> "PREPARING",         markReady      |-> "READY",
    customerCancel |-> "CANCELLED",         adminCancel    |-> "CANCELLED",
    adminAssign    |-> "RIDER_ASSIGNED" ]

BeginDeskAction(d, op, o) ==
  /\ MayBegin(d)
  /\ op \in DeskOps
  /\ \E r \in (IF op = "adminAssign" THEN Riders ELSE { NoRider }) :
       DeskMay(op, o, r) /\ ReadFor(d, op, o, r)
  /\ UNCHANGED <<status, delivery, online, attempts, queue, lock, worker>>

(* assignRiderToOrder takes no lock, counts nothing and records no attempt. *)
CommitDeskAction(d) ==
  /\ request[d].step = "commit"
  /\ LET o == request[d].order
         op == request[d].op IN
       /\ status' = [status EXCEPT ![o] = DeskTarget[op]]
       /\ delivery' = IF op # "adminAssign" THEN delivery
                      ELSE [delivery EXCEPT ![o] =
                              [rider |-> request[d].rider, status |-> "ASSIGNED"]]
       /\ IF op = "merchantAccept" THEN Proceed(d, "enqueue") ELSE Done(d)
  /\ UNCHANGED <<online, attempts, queue, lock, worker>>

(* What a handler enqueues after its commit.                               *)
EnqueueFollowUp(c) ==
  /\ After(c, "enqueue")
  /\ Enqueue(IF request[c].op = "goOnline" THEN ScanForRider(c)
             ELSE AutoDispatch(request[c].order))
  /\ IF request[c].op = "merchantAccept" THEN Proceed(c, "enqueueTimeout") ELSE Done(c)
  /\ UNCHANGED <<status, delivery, online, attempts, lock, worker>>

EnqueueRiderTimeout(c) ==
  /\ After(c, "enqueueTimeout")
  /\ Enqueue(RiderTimeout(request[c].order))
  /\ Done(c)
  /\ UNCHANGED <<status, delivery, online, attempts, lock, worker>>

(* merchantAccept's two enqueues are best-effort, each on its own.         *)
EnqueueFails(c) ==
  /\ Faults
  /\ request[c].op = "merchantAccept" /\ After(c, "enqueue")
  /\ Proceed(c, "enqueueTimeout")
  /\ UNCHANGED <<status, delivery, online, attempts, queue, lock, worker>>

(* The process serving a request dies, or a call after the commit throws:  *)
(* what the handler had left to do is not done.                            *)
RequestDies(c) ==
  /\ Faults
  /\ request[c].step # "idle"
  /\ Done(c)
  /\ UNCHANGED <<status, delivery, online, attempts, queue, lock, worker>>

-----------------------------------------------------------------------------
TakesJob(w) ==
  \/ \E o \in Orders :
       \/ StartAutoDispatch(w, o) \/ StartRiderTimeout(w, o)
       \/ \E a \in AttemptsOf(o) : StartDispatchTimeout(w, o, a)
  \/ \E r \in Riders : StartScanForRider(w, r)

Runs(w) ==
  \/ PickRider(w) \/ CreateAttempt(w) \/ AcquireRiderLock(w) \/ CountActive(w)
  \/ CommitAssignment(w) \/ ScheduleDispatchTimeout(w) \/ MarkAttemptFailed(w)
  \/ RetryOrder(w) \/ CancelNoRider(w) \/ MarkTimeout(w) \/ CheckUnanswered(w)
  \/ TakeBackAssignment(w) \/ RecountAfterTimeout(w) \/ ExpireOrder(w)

WorkerFault(w) == AbortAssignment(w) \/ WorkerDies(w)

(* New requests, by choice of the clients. *)
RequestBegins ==
  \/ \E r \in Riders : BeginGoOnline(r) \/ GoOffline(r)
  \/ \E r \in Riders, o \in Orders :
       RepeatAccept(r, o) \/ \E op \in RiderActs \cap RiderOps : BeginRiderAction(r, op, o)
  \/ \E d \in Desks, op \in DeskOps, o \in Orders : BeginDeskAction(d, op, o)

Commit(c) ==
  \/ c \in Riders /\ (CommitRiderAction(c) \/ CommitGoOnline(c))
  \/ c \in Desks /\ CommitDeskAction(c)

AfterCommit(c) ==
  \/ c \in Riders /\ (FindAttempt(c) \/ ResolveAttempt(c))
  \/ EnqueueFollowUp(c) \/ EnqueueRiderTimeout(c)

RequestFault(c) == EnqueueFails(c) \/ RequestDies(c)

Next ==
  \/ RequestBegins
  \/ \E c \in Clients : Commit(c) \/ AfterCommit(c) \/ RequestFault(c)
  \/ \E w \in Workers : TakesJob(w) \/ Runs(w) \/ WorkerFault(w)

Spec == Init /\ [][Next]_vars

(* A handler that has started runs to its end, and BullMQ serves its jobs  *)
(* in order, so that a queued job is not passed over for ever; nobody is   *)
(* obliged to send a request.                                              *)
Fairness ==
  /\ \A c \in Clients : WF_vars(Commit(c)) /\ WF_vars(AfterCommit(c))
  /\ \A w \in Workers : WF_vars(Runs(w))
  /\ \A o \in Orders :
       /\ SF_vars(\E w \in Workers : StartAutoDispatch(w, o))
       /\ SF_vars(\E w \in Workers : StartRiderTimeout(w, o))
       /\ \A a \in 1 .. MaxAttempts + Cardinality(Riders) :
            SF_vars(\E w \in Workers : StartDispatchTimeout(w, o, a))
  /\ \A r \in Riders :
       SF_vars(\E w \in Workers : StartScanForRider(w, r))

FairSpec == Spec /\ Fairness

-----------------------------------------------------------------------------
(* Properties.                                                             *)

(* No rider is on two orders at once, whichever workers assign them: what  *)
(* the advisory lock and the count in assignAndNotify are there for.       *)
NoDoubleBooking ==
  \A r \in Riders : \A o, p \in ActiveOrders(r) : o = p

(* Seen from the riders, all of this implements RiderBooking: an order is  *)
(* held by the rider of its active delivery.  A worker may move an order   *)
(* from one rider to another, but only to one who holds none.              *)
Holder(o) ==
  IF delivery[o].status \in ActiveDelivery THEN delivery[o].rider ELSE NoRider
Booking == INSTANCE RiderBooking WITH held <- [o \in Orders |-> Holder(o)]
BookingSpec == Booking!Spec

(* The order and its Delivery row, always written in one transaction, tell *)
(* the same story: an order waiting for an answer or on the road has a     *)
(* rider at the same stage, and no rider is kept on a delivery that was    *)
(* given back.                                                             *)
OrderMatchesDelivery ==
  \A o \in Orders :
    /\ status[o] = "RIDER_ASSIGNED" => delivery[o].status = "ASSIGNED"
    /\ status[o] \in { "RIDER_ACCEPTED", "PREPARING", "READY" }
         => delivery[o].status = "ACCEPTED"
    /\ status[o] \in { "PICKED_UP", "ON_THE_WAY", "DELIVERED" }
         => delivery[o].status = status[o]
    /\ status[o] = "MERCHANT_ACCEPTED"
         => delivery[o].status \in { "NO_ROW", "PENDING_ASSIGNMENT" }
    /\ delivery[o].rider = NoRider
         <=> delivery[o].status \in { "NO_ROW", "PENDING_ASSIGNMENT" }

(* An assignment the rider has not answered is watched: its attempt is     *)
(* pending and a timeout job for it is queued or in a worker's hands, or   *)
(* will be as soon as the worker that committed it moves on.               *)
UnansweredIsWatched ==
  \A o \in Orders : status[o] = "RIDER_ASSIGNED" =>
    \/ \E a \in AttemptsOf(o) :
         /\ attempts[o][a] = [rider |-> delivery[o].rider, outcome |-> "pending"]
         /\ \/ BagIn(DispatchTimeout(o, a), queue)
            \/ \E w \in Workers :
                 /\ worker[w].order = o /\ worker[w].attempt = a
                 /\ worker[w].step \in { "timer", "mark" }
    \/ \E w \in Workers : worker[w].order = o /\ worker[w].step \in { "check", "reset" }

(* The riders an order was really offered to: those of the attempts that   *)
(* did not fail before the rider was told.                                 *)
Offers(o) == { a \in AttemptsOf(o) : attempts[o][a].outcome # "failed" }

(* No rider is asked about the same order twice: getTriedRiderIds must see *)
(* every earlier offer, and a rider who comes online must not be given an  *)
(* order he has already turned down.                                       *)
NeverAskedTwice ==
  \A o \in Orders : \A a, b \in Offers(o) :
    attempts[o][a].rider = attempts[o][b].rider => a = b

(* The dispatcher gives an order up for want of a rider only after asking  *)
(* MaxFailedAttempts different ones, however their answers raced.          *)
GivenUpOnlyAfterAsking ==
  [][\A w \in Workers :
       (worker[w].step = "cancel" /\ status' # status) =>
         Cardinality({ attempts[worker[w].order][a].rider :
                         a \in Offers(worker[w].order) }) >= MaxFailedAttempts]_vars

(* An unanswered assignment does not stay: the rider answers it or the     *)
(* dispatch timeout takes it back.                                         *)
UnansweredIsLeft ==
  \A o \in Orders : status[o] = "RIDER_ASSIGNED" ~> status[o] # "RIDER_ASSIGNED"

-----------------------------------------------------------------------------
(* What comments in the code say of dispatch, and dispatch does not keep.  *)

(* "Fired 15 min after a rider was assigned.  If rider hasn't accepted,    *)
(* try next rider or cancel": the timer of an attempt takes the order back *)
(* from the rider of that attempt, unanswered, and from nobody else.       *)
TimeoutRevokesOwnAttempt ==
  [][\A w \in Workers :
       LET o == worker[w].order IN
       (worker[w].step = "reset" /\ delivery' # delivery) =>
         delivery[o] = [rider |-> attempts[o][worker[w].attempt].rider,
                        status |-> "ASSIGNED"]]_vars

=============================================================================
