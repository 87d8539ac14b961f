--------------------------- MODULE DispatchProofs ---------------------------
(***************************************************************************)
(* Type correctness of Dispatch, for any number of orders, riders, workers *)
(* and desks, however requests overtake one another and whatever faults    *)
(* occur.                                                                  *)
(*                                                                         *)
(* Then, for a dispatcher with one worker, no faults and no admin who      *)
(* assigns riders: nobody is asked about an order twice, an unanswered     *)
(* assignment is watched, and an order is given up only after asking as    *)
(* many riders as the code means to ask.                                   *)
(*                                                                         *)
(* Then, provided that a request is not overtaken between its read and its *)
(* commit, two results about the rows of an order.  That no rider is       *)
(* booked for two orders at once, and that Dispatch implements             *)
(* RiderBooking, provided also that no admin assigns riders, who takes no  *)
(* lock and counts no orders.  The argument: a worker holds the rider's    *)
(* advisory lock from its count to its commit, every other assignment to   *)
(* this rider needs the same lock, and whatever else writes a delivery     *)
(* only ever takes orders away from riders; so a count of zero is still    *)
(* true at the commit.  And that an order and its delivery always tell the *)
(* same story.  The argument: riders and workers write the two rows        *)
(* together, and a desk moves the order alone, but only from where its     *)
(* handler read it.                                                        *)
(***************************************************************************)
EXTENDS Dispatch, SequenceTheorems, Sums, TLAPS

-----------------------------------------------------------------------------
(* The queue stays a bag of jobs.                                          *)

QueueOK(q) == IsABag(q) /\ DOMAIN q \subseteq Job

(* Adding a job to a bag of jobs gives a bag of jobs: QueueService.add.    *)
LEMMA EnqueueTyped ==
  ASSUME NEW q, QueueOK(q), NEW job \in Job
  PROVE  QueueOK(BagAdd(q, job))
BY DEF QueueOK, IsABag, BagAdd

(* So does taking one out: a worker picking up a job.                      *)
LEMMA DequeueTyped ==
  ASSUME NEW q, QueueOK(q), NEW job \in Job
  PROVE  QueueOK(BagRemove(q, job))
BY DEF QueueOK, IsABag, BagRemove

(* Every job the handlers put on the queue is a job.                       *)
LEMMA JobsTyped ==
  /\ \A o \in Orders \cup {NoOrder} : AutoDispatch(o) \in Job /\ RiderTimeout(o) \in Job
  /\ \A r \in Riders : ScanForRider(r) \in Job
  /\ \A o \in Orders, a \in Nat : DispatchTimeout(o, a) \in Job
BY ConstantsAssumption DEF Job, JobKind, AutoDispatch, RiderTimeout, ScanForRider, DispatchTimeout

-----------------------------------------------------------------------------
(* Type correctness.  TypeOK is not inductive: a step uses the order and   *)
(* the rider of the job or request in hand, which are there at every step  *)
(* that uses them.                                                         *)

WorkerHasOrder ==
  \A w \in Workers :
    /\ worker[w].step # "idle" => worker[w].order \in Orders
    /\ worker[w].step \in { "create", "lock", "count", "write" }
         => worker[w].rider \in Riders

RequestHasOrder ==
  \A c \in Clients :
    /\ request[c].op = "goOnline" => c \in Riders
    /\ \/ request[c].step \in { "find", "resolve" }
       \/ request[c].step = "commit" /\ request[c].op \in RiderOps
       => request[c].order \in Orders
    /\ (c \in Desks /\ request[c].step = "commit") => request[c].op \in DeskOps

TypeInv == TypeOK /\ WorkerHasOrder /\ RequestHasOrder

(* The initial state is typed. *)
LEMMA TypeInit == Init => TypeInv
<1> SUFFICES ASSUME Init PROVE TypeInv
  OBVIOUS
<1>1. IsABag(queue) /\ DOMAIN queue \subseteq Job
  BY DEF Init, EmptyBag, SetToBag, IsABag
<1>2. IdleWorker \in WorkerState
  BY JobsTyped DEF IdleWorker, NoJob, WorkerStep, WorkerState
<1>3. IdleRequest \in RequestState
  BY DEF IdleRequest, RequestOp, RequestStep, RequestState
<1>4. TypeOK
  <2>1. attempts \in [Orders -> Seq(Attempt)]
    <3>1. << >> \in Seq(Attempt)
      OBVIOUS
    <3>2. QED
      BY <3>1 DEF Init
  <2>2. status \in [Orders -> OrderStatus]
    BY DEF Init, OrderStatus
  <2>3. delivery \in [Orders -> [rider : Riders \cup {NoRider}, status : DeliveryStatus]]
    BY DEF Init, DeliveryStatus
  <2>4. worker \in [Workers -> WorkerState]
    BY <1>2 DEF Init
  <2>5. request \in [Clients -> RequestState]
    BY <1>3 DEF Init
  <2>6. QED
    BY <1>1, <2>1, <2>2, <2>3, <2>4, <2>5 DEF Init, TypeOK
<1>5. WorkerHasOrder /\ RequestHasOrder
  BY DEF Init, WorkerHasOrder, RequestHasOrder, IdleWorker, IdleRequest
<1> QED
  BY <1>4, <1>5 DEF TypeInv

-----------------------------------------------------------------------------
(* How the two programs advance.                                           *)

WorkersTyped == worker \in [Workers -> WorkerState] /\ WorkerHasOrder
RequestsTyped == request \in [Clients -> RequestState] /\ RequestHasOrder

(* A worker that goes on to another step of its handler stays typed.       *)
LEMMA GotoTyped ==
  ASSUME WorkersTyped, NEW w \in Workers, NEW step \in WorkerStep, Goto(w, step),
         worker[w].step # "idle",
         step \in { "create", "lock", "count", "write" } => worker[w].rider \in Riders
  PROVE  WorkersTyped'
BY DEF WorkersTyped, WorkerHasOrder, WorkerState, Goto

(* So does one that has finished its job.                                  *)
LEMMA FinishTyped ==
  ASSUME WorkersTyped, NEW w \in Workers, Finish(w)
  PROVE  WorkersTyped'
BY JobsTyped DEF WorkersTyped, WorkerHasOrder, WorkerState, Finish, IdleWorker,
                 NoJob, WorkerStep

(* And one that picks up a job, which also leaves the queue typed.         *)
LEMMA TakeTyped ==
  ASSUME WorkersTyped, QueueOK(queue), NEW w \in Workers, NEW job \in Job,
         NEW o \in Orders \cup {NoOrder}, NEW step \in WorkerStep,
         Take(w, job, o, step), step # "idle" => o \in Orders,
         step \in { "create", "lock", "count", "write" } => job.rider \in Riders
  PROVE  WorkersTyped' /\ QueueOK(queue)'
<1>1. QueueOK(queue)'
  <2>1. queue' = BagRemove(queue, job)
    BY DEF Take
  <2>2. QueueOK(queue')
    BY <2>1, DequeueTyped
  <2> QED
    BY <2>2 DEF QueueOK
<1>2. WorkersTyped'
  BY DEF WorkersTyped, WorkerHasOrder, WorkerState, Take, Job
<1> QED
  BY <1>1, <1>2

(* Putting a job on the queue leaves it typed.                             *)
LEMMA EnqueueStep ==
  ASSUME QueueOK(queue), NEW job \in Job, Enqueue(job)
  PROVE  QueueOK(queue)'
<1>1. QueueOK(queue')
  BY EnqueueTyped DEF Enqueue
<1> QED
  BY <1>1 DEF QueueOK

(* Resolving an attempt leaves the attempts typed.                         *)
LEMMA OutcomeTyped ==
  ASSUME attempts \in [Orders -> Seq(Attempt)], NEW o, NEW a, NEW outcome \in Outcome,
         SetOutcome(o, a, outcome)
  PROVE  attempts' \in [Orders -> Seq(Attempt)]
<1> DEFINE s == attempts[o]
           t == [s EXCEPT ![a].outcome = outcome]
<1>1. ASSUME o \in Orders PROVE t \in Seq(Attempt)
  <2>1. s \in Seq(Attempt)
    BY <1>1
  <2>2. CASE a \in 1 .. Len(s)
    <3> DEFINE e == [s[a] EXCEPT !.outcome = outcome]
    <3>1. e \in Attempt
      <4>1. s[a] \in Attempt
        BY <2>1, <2>2, ElementOfSeq
      <4> HIDE DEF s
      <4> QED
        BY <4>1 DEF Attempt
    <3>2. t = [s EXCEPT ![a] = e]
      OBVIOUS
    <3> QED
      BY <2>1, <2>2, <3>1, <3>2, ExceptSeq
  <2>3. CASE a \notin 1 .. Len(s)
    BY <2>1, <2>3, LenProperties
  <2> QED
    BY <2>2, <2>3
<1>2. attempts' = [attempts EXCEPT ![o] = t]
  BY DEF SetOutcome
<1> HIDE DEF t
<1> QED
  BY <1>1, <1>2

(* A request that goes on to another step of its handler stays typed.      *)
LEMMA ProceedTyped ==
  ASSUME RequestsTyped, NEW c \in Clients, NEW step \in RequestStep, Proceed(c, step),
         step # "commit", step \in { "find", "resolve" } => request[c].order \in Orders
  PROVE  RequestsTyped'
BY DEF RequestsTyped, RequestHasOrder, RequestState, Proceed, Clients

(* So does one that is done.                                               *)
LEMMA DoneTyped ==
  ASSUME RequestsTyped, NEW c \in Clients, Done(c)
  PROVE  RequestsTyped'
BY DEF RequestsTyped, RequestHasOrder, RequestState, Done, IdleRequest, Clients,
       RequestOp, RequestStep

(* And one that has read its rows.                                         *)
LEMMA ReadForTyped ==
  ASSUME RequestsTyped, NEW c \in Clients, NEW op \in RequestOp,
         NEW o \in Orders \cup {NoOrder}, NEW r \in Riders \cup {NoRider},
         ReadFor(c, op, o, r),
         op = "goOnline" => c \in Riders, c \in Desks => op \in DeskOps,
         op \in RiderOps => o \in Orders
  PROVE  RequestsTyped'
BY DEF RequestsTyped, RequestHasOrder, RequestState, ReadFor, Clients, RequestStep

-----------------------------------------------------------------------------
(* Every step preserves the types.                                         *)

RowsTyped ==
  /\ status \in [Orders -> OrderStatus]
  /\ delivery \in [Orders -> [rider : Riders \cup {NoRider}, status : DeliveryStatus]]
  /\ online \in [Riders -> BOOLEAN]
  /\ attempts \in [Orders -> Seq(Attempt)]
  /\ lock \in [Riders -> Workers \cup {NoWorker}]

(* The parts of the type invariant. *)
LEMMA TypeParts ==
  /\ TypeInv => RowsTyped /\ QueueOK(queue) /\ WorkersTyped /\ RequestsTyped
  /\ RowsTyped' /\ QueueOK(queue)' /\ WorkersTyped' /\ RequestsTyped' => TypeInv'
BY DEF TypeInv, TypeOK, RowsTyped, QueueOK, WorkersTyped, RequestsTyped

(* A worker picking up a job preserves the types. *)
LEMMA TakesJobTyped ==
  ASSUME TypeInv, NEW w \in Workers, TakesJob(w)
  PROVE  TypeInv'
<1> USE TypeParts
<1>1. RowsTyped' /\ RequestsTyped'
  BY DEF TakesJob, StartAutoDispatch, StartRiderTimeout, StartDispatchTimeout,
         StartScanForRider, RowsTyped, RequestsTyped, RequestHasOrder
<1>2. WorkersTyped' /\ QueueOK(queue)'
  <2>1. ASSUME NEW o \in Orders, StartAutoDispatch(w, o)
        PROVE  WorkersTyped' /\ QueueOK(queue)'
    <3> DEFINE step == IF ~Waiting(o) THEN "idle"
                       ELSE IF Exhausted(o) THEN "cancel" ELSE "pick"
    <3>1. step \in WorkerStep /\ step \notin { "create", "lock", "count", "write" }
      BY DEF WorkerStep
    <3>2. Take(w, AutoDispatch(o), o, step)
      BY <2>1 DEF StartAutoDispatch
    <3> HIDE DEF step
    <3> QED
      BY <3>1, <3>2, TakeTyped, JobsTyped
  <2>2. ASSUME NEW o \in Orders, StartRiderTimeout(w, o)
        PROVE  WorkersTyped' /\ QueueOK(queue)'
    <3> DEFINE step == IF Waiting(o) THEN "expire" ELSE "idle"
    <3>1. step \in WorkerStep /\ step \notin { "create", "lock", "count", "write" }
      BY DEF WorkerStep
    <3>2. Take(w, RiderTimeout(o), o, step)
      BY <2>2 DEF StartRiderTimeout
    <3> HIDE DEF step
    <3> QED
      BY <3>1, <3>2, TakeTyped, JobsTyped
  <2>3. ASSUME NEW o \in Orders, NEW a \in AttemptsOf(o), StartDispatchTimeout(w, o, a)
        PROVE  WorkersTyped' /\ QueueOK(queue)'
    <3> DEFINE step == IF attempts[o][a].outcome = "pending" THEN "mark" ELSE "idle"
    <3>1. step \in WorkerStep /\ step \notin { "create", "lock", "count", "write" }
      BY DEF WorkerStep
    <3>2. Take(w, DispatchTimeout(o, a), o, step)
      BY <2>3 DEF StartDispatchTimeout
    <3>3. a \in Nat
      <4>1. attempts[o] \in Seq(Attempt)
        BY DEF RowsTyped
      <4> QED
        BY <4>1, LenProperties DEF AttemptsOf
    <3> HIDE DEF step
    <3> QED
      BY <3>1, <3>2, <3>3, TakeTyped, JobsTyped
  <2>4. ASSUME NEW r \in Riders, StartScanForRider(w, r)
        PROVE  WorkersTyped' /\ QueueOK(queue)'
    <3>1. CASE online[r] /\ WaitingWithoutRow # {}
      <4>1. PICK o \in WaitingWithoutRow : Take(w, ScanForRider(r), o, "create")
        BY <2>4, <3>1 DEF StartScanForRider
      <4>2. o \in Orders
        BY DEF WaitingWithoutRow
      <4>3. ScanForRider(r).rider \in Riders /\ "create" \in WorkerStep
        BY DEF ScanForRider, WorkerStep
      <4> QED
        BY <4>1, <4>2, <4>3, TakeTyped, JobsTyped
    <3>2. CASE ~(online[r] /\ WaitingWithoutRow # {})
      <4>1. Take(w, ScanForRider(r), NoOrder, "idle")
        BY <2>4, <3>2 DEF StartScanForRider
      <4>2. "idle" \in WorkerStep
        BY DEF WorkerStep
      <4> QED
        BY <4>1, <4>2, TakeTyped, JobsTyped
    <3> QED
      BY <3>1, <3>2
  <2> QED
    BY <2>1, <2>2, <2>3, <2>4 DEF TakesJob
<1> QED
  BY <1>1, <1>2

(* A worker going on with its handler preserves the types. *)
LEMMA RunsTyped ==
  ASSUME TypeInv, NEW w \in Workers, Runs(w)
  PROVE  TypeInv'
<1> USE TypeParts
<1>1. CASE PickRider(w)
  <2>1. WorkersTyped'
    <3>1. CASE Finish(w)
      BY <3>1, FinishTyped
    <3>2. CASE ~Finish(w)
      <4>1. PICK r \in EligibleRiders \ TriedRiders(worker[w].order) :
              worker' = [worker EXCEPT ![w].rider = r, ![w].step = "create"]
        BY <1>1, <3>2 DEF PickRider
      <4>2. r \in Riders /\ worker[w].order \in Orders
        BY <1>1 DEF PickRider, At, EligibleRiders, WorkersTyped, WorkerHasOrder
      <4> DEFINE next == [worker[w] EXCEPT !.rider = r, !.step = "create"]
      <4>3. worker[w] \in WorkerState
        BY DEF WorkersTyped
      <4>4. /\ next \in WorkerState
            /\ next.order \in Orders /\ next.rider \in Riders
        BY <4>2, <4>3 DEF WorkerState, WorkerStep
      <4>5. worker' = [worker EXCEPT ![w] = next]
        BY <4>1
      <4> HIDE DEF next
      <4> QED
        BY <4>4, <4>5 DEF WorkersTyped, WorkerHasOrder
    <3> QED
      BY <3>1, <3>2
  <2>2. RowsTyped' /\ QueueOK(queue)' /\ RequestsTyped'
    BY <1>1 DEF PickRider, RowsTyped, QueueOK, RequestsTyped, RequestHasOrder
  <2> QED
    BY <2>1, <2>2
<1>2. CASE CreateAttempt(w)
  <2> DEFINE o == worker[w].order
             added == [rider |-> worker[w].rider, outcome |-> "pending"]
  <2>1. o \in Orders /\ added \in Attempt
    BY <1>2 DEF CreateAttempt, At, WorkersTyped, WorkerHasOrder, Attempt, Outcome
  <2>2. attempts[o] \in Seq(Attempt)
    BY <2>1 DEF RowsTyped
  <2>3. Append(attempts[o], added) \in Seq(Attempt) /\ Len(attempts[o]) + 1 \in Nat
    BY <2>1, <2>2, LenProperties
  <2>4. attempts' \in [Orders -> Seq(Attempt)]
    BY <1>2, <2>1, <2>3 DEF CreateAttempt, RowsTyped
  <2>5. WorkersTyped'
    BY <1>2, <2>1, <2>3 DEF CreateAttempt, At, WorkersTyped, WorkerHasOrder,
                            WorkerState, WorkerStep
  <2>6. RowsTyped' /\ QueueOK(queue)' /\ RequestsTyped'
    BY <1>2, <2>4 DEF CreateAttempt, RowsTyped, QueueOK, RequestsTyped, RequestHasOrder
  <2> QED
    BY <2>5, <2>6
<1>3. CASE AcquireRiderLock(w)
  <2>1. WorkersTyped'
    BY <1>3, GotoTyped DEF AcquireRiderLock, At, WorkersTyped, WorkerHasOrder, WorkerStep
  <2>2. RowsTyped' /\ QueueOK(queue)' /\ RequestsTyped'
    BY <1>3 DEF AcquireRiderLock, RowsTyped, QueueOK, RequestsTyped, RequestHasOrder
  <2> QED
    BY <2>1, <2>2
<1>4. CASE CountActive(w)
  <2>1. WorkersTyped'
    BY <1>4, GotoTyped DEF CountActive, At, WorkersTyped, WorkerHasOrder, WorkerStep
  <2>2. RowsTyped' /\ QueueOK(queue)' /\ RequestsTyped'
    BY <1>4 DEF CountActive, RowsTyped, QueueOK, RequestsTyped, RequestHasOrder
  <2> QED
    BY <2>1, <2>2
<1>5. CASE CommitAssignment(w)
  <2>1. WorkersTyped'
    BY <1>5, GotoTyped DEF CommitAssignment, At, WorkersTyped, WorkerHasOrder, WorkerStep
  <2>2. worker[w].rider \in Riders
    BY <1>5 DEF CommitAssignment, At, WorkersTyped, WorkerHasOrder
  <2>3. RowsTyped' /\ QueueOK(queue)' /\ RequestsTyped'
    BY <1>5, <2>2 DEF CommitAssignment, RowsTyped, QueueOK, RequestsTyped,
                      RequestHasOrder, OrderStatus, DeliveryStatus
  <2> QED
    BY <2>1, <2>3
<1>6. CASE ScheduleDispatchTimeout(w)
  <2>1. worker[w].order \in Orders /\ worker[w].attempt \in Nat
    BY <1>6 DEF ScheduleDispatchTimeout, At, WorkersTyped, WorkerHasOrder, WorkerState
  <2>2. QueueOK(queue)'
    BY <1>6, <2>1, JobsTyped, EnqueueStep DEF ScheduleDispatchTimeout
  <2>3. WorkersTyped'
    BY <1>6, FinishTyped DEF ScheduleDispatchTimeout
  <2>4. RowsTyped' /\ RequestsTyped'
    BY <1>6 DEF ScheduleDispatchTimeout, RowsTyped, RequestsTyped, RequestHasOrder
  <2> QED
    BY <2>2, <2>3, <2>4
<1>7. CASE MarkAttemptFailed(w)
  <2>1. attempts' \in [Orders -> Seq(Attempt)]
    BY <1>7, OutcomeTyped DEF MarkAttemptFailed, RowsTyped, Outcome
  <2>2. WorkersTyped'
    BY <1>7, GotoTyped DEF MarkAttemptFailed, At, WorkerStep
  <2>3. RowsTyped' /\ QueueOK(queue)' /\ RequestsTyped'
    BY <1>7, <2>1 DEF MarkAttemptFailed, RowsTyped, QueueOK, RequestsTyped, RequestHasOrder
  <2> QED
    BY <2>2, <2>3
<1>8. CASE RetryOrder(w)
  <2>1. worker[w].order \in Orders
    BY <1>8 DEF RetryOrder, At, WorkersTyped, WorkerHasOrder
  <2>2. QueueOK(queue)'
    BY <1>8, <2>1, JobsTyped, EnqueueStep DEF RetryOrder
  <2>3. WorkersTyped'
    BY <1>8, FinishTyped DEF RetryOrder
  <2>4. RowsTyped' /\ RequestsTyped'
    BY <1>8 DEF RetryOrder, RowsTyped, RequestsTyped, RequestHasOrder
  <2> QED
    BY <2>2, <2>3, <2>4
<1>9. CASE CancelNoRider(w)
  <2>1. WorkersTyped'
    BY <1>9, FinishTyped DEF CancelNoRider
  <2>2. RowsTyped' /\ QueueOK(queue)' /\ RequestsTyped'
    BY <1>9 DEF CancelNoRider, RowsTyped, QueueOK, RequestsTyped, RequestHasOrder,
                OrderStatus
  <2> QED
    BY <2>1, <2>2
<1>10. CASE MarkTimeout(w)
  <2>1. attempts' \in [Orders -> Seq(Attempt)]
    BY <1>10, OutcomeTyped DEF MarkTimeout, RowsTyped, Outcome
  <2>2. WorkersTyped'
    BY <1>10, GotoTyped DEF MarkTimeout, At, WorkerStep
  <2>3. RowsTyped' /\ QueueOK(queue)' /\ RequestsTyped'
    BY <1>10, <2>1 DEF MarkTimeout, RowsTyped, QueueOK, RequestsTyped, RequestHasOrder
  <2> QED
    BY <2>2, <2>3
<1>11. CASE CheckUnanswered(w)
  <2>1. WorkersTyped'
    BY <1>11, GotoTyped, FinishTyped DEF CheckUnanswered, At, WorkerStep
  <2>2. RowsTyped' /\ QueueOK(queue)' /\ RequestsTyped'
    BY <1>11 DEF CheckUnanswered, RowsTyped, QueueOK, RequestsTyped, RequestHasOrder
  <2> QED
    BY <2>1, <2>2
<1>12. CASE TakeBackAssignment(w)
  <2>1. WorkersTyped'
    BY <1>12, GotoTyped DEF TakeBackAssignment, At, WorkerStep
  <2>2. RowsTyped' /\ QueueOK(queue)' /\ RequestsTyped'
    BY <1>12 DEF TakeBackAssignment, RowsTyped, QueueOK, RequestsTyped, RequestHasOrder,
                 OrderStatus, DeliveryStatus
  <2> QED
    BY <2>1, <2>2
<1>13. CASE RecountAfterTimeout(w)
  <2>1. WorkersTyped'
    BY <1>13, GotoTyped DEF RecountAfterTimeout, At, WorkerStep
  <2>2. RowsTyped' /\ QueueOK(queue)' /\ RequestsTyped'
    BY <1>13 DEF RecountAfterTimeout, RowsTyped, QueueOK, RequestsTyped, RequestHasOrder
  <2> QED
    BY <2>1, <2>2
<1>14. CASE ExpireOrder(w)
  <2>1. WorkersTyped'
    BY <1>14, FinishTyped DEF ExpireOrder
  <2>2. RowsTyped' /\ QueueOK(queue)' /\ RequestsTyped'
    BY <1>14 DEF ExpireOrder, RowsTyped, QueueOK, RequestsTyped, RequestHasOrder,
                 OrderStatus
  <2> QED
    BY <2>1, <2>2
<1> QED
  BY <1>1, <1>2, <1>3, <1>4, <1>5, <1>6, <1>7, <1>8, <1>9, <1>10, <1>11, <1>12,
     <1>13, <1>14 DEF Runs

(* A fault of a worker preserves the types. *)
LEMMA WorkerFaultTyped ==
  ASSUME TypeInv, NEW w \in Workers, WorkerFault(w)
  PROVE  TypeInv'
<1> USE TypeParts
<1>1. CASE AbortAssignment(w)
  <2>1. WorkersTyped'
    BY <1>1, GotoTyped DEF AbortAssignment, WorkerStep
  <2>2. RowsTyped' /\ QueueOK(queue)' /\ RequestsTyped'
    BY <1>1 DEF AbortAssignment, RowsTyped, QueueOK, RequestsTyped, RequestHasOrder
  <2> QED
    BY <2>1, <2>2
<1>2. CASE WorkerDies(w)
  <2>1. WorkersTyped'
    BY <1>2, FinishTyped DEF WorkerDies
  <2>2. QueueOK(queue)'
    <3>1. worker[w].job \in Job
      BY DEF WorkersTyped, WorkerState
    <3>2. CASE Enqueue(worker[w].job)
      BY <3>1, <3>2, EnqueueStep
    <3>3. CASE UNCHANGED queue
      BY <3>3 DEF QueueOK
    <3> QED
      BY <1>2, <3>2, <3>3 DEF WorkerDies
  <2>3. RowsTyped' /\ RequestsTyped'
    BY <1>2 DEF WorkerDies, RowsTyped, RequestsTyped, RequestHasOrder
  <2> QED
    BY <2>1, <2>2, <2>3
<1> QED
  BY <1>1, <1>2 DEF WorkerFault

(* A new request preserves the types. *)
LEMMA RequestBeginsTyped ==
  ASSUME TypeInv, RequestBegins
  PROVE  TypeInv'
<1> USE TypeParts
<1>1. ASSUME NEW r \in Riders, BeginGoOnline(r) PROVE TypeInv'
  <2>1. RequestsTyped'
    BY <1>1, ReadForTyped, ConstantsAssumption DEF BeginGoOnline, Clients, RequestOp, RiderOps
  <2>2. RowsTyped' /\ QueueOK(queue)' /\ WorkersTyped'
    BY <1>1 DEF BeginGoOnline, RowsTyped, QueueOK, WorkersTyped, WorkerHasOrder
  <2> QED
    BY <2>1, <2>2
<1>2. ASSUME NEW r \in Riders, GoOffline(r) PROVE TypeInv'
  BY <1>2 DEF GoOffline, RowsTyped, QueueOK, WorkersTyped, WorkerHasOrder,
              RequestsTyped, RequestHasOrder
<1>3. ASSUME NEW r \in Riders, NEW o \in Orders, RepeatAccept(r, o) PROVE TypeInv'
  <2>1. RequestsTyped'
    BY <1>3, ConstantsAssumption DEF RepeatAccept, RequestsTyped, RequestHasOrder,
       RequestState, RequestStep, RequestOp, RiderOps, Clients
  <2>2. RowsTyped' /\ QueueOK(queue)' /\ WorkersTyped'
    BY <1>3 DEF RepeatAccept, RowsTyped, QueueOK, WorkersTyped, WorkerHasOrder
  <2> QED
    BY <2>1, <2>2
<1>4. ASSUME NEW r \in Riders, NEW o \in Orders, NEW op \in RiderActs \cap RiderOps,
             BeginRiderAction(r, op, o)
      PROVE  TypeInv'
  <2>1. RequestsTyped'
    <3>1. op # "goOnline"
      BY DEF RiderOps
    <3> QED
      BY <1>4, <3>1, ReadForTyped, ConstantsAssumption
      DEF BeginRiderAction, Clients, RequestOp
  <2>2. RowsTyped' /\ QueueOK(queue)' /\ WorkersTyped'
    BY <1>4 DEF BeginRiderAction, RowsTyped, QueueOK, WorkersTyped, WorkerHasOrder
  <2> QED
    BY <2>1, <2>2
<1>5. ASSUME NEW d \in Desks, NEW op \in DeskOps, NEW o \in Orders,
             BeginDeskAction(d, op, o)
      PROVE  TypeInv'
  <2>1. PICK r \in Riders \cup {NoRider} : ReadFor(d, op, o, r)
    BY <1>5 DEF BeginDeskAction
  <2>2. op # "goOnline"
    BY OpsAssumption
  <2>3. RequestsTyped'
    BY <2>1, <2>2, ReadForTyped DEF Clients, RequestOp
  <2>4. RowsTyped' /\ QueueOK(queue)' /\ WorkersTyped'
    BY <1>5 DEF BeginDeskAction, RowsTyped, QueueOK, WorkersTyped, WorkerHasOrder
  <2> QED
    BY <2>3, <2>4
<1> QED
  BY <1>1, <1>2, <1>3, <1>4, <1>5 DEF RequestBegins

(* A commit preserves the types. *)
LEMMA CommitTyped ==
  ASSUME TypeInv, NEW c \in Clients, Commit(c)
  PROVE  TypeInv'
<1> USE TypeParts
<1>1. CASE c \in Riders /\ CommitRiderAction(c)
  <2> DEFINE op == request[c].op
             o == request[c].order
  <2>1. op \in RiderOps /\ RiderTarget[op].order \in OrderStatus
          /\ RiderTarget[op].delivery \in DeliveryStatus
    BY <1>1 DEF CommitRiderAction, RiderOps, RiderTarget, OrderStatus, DeliveryStatus
  <2>2. delivery' \in [Orders -> [rider : Riders \cup {NoRider}, status : DeliveryStatus]]
    BY <1>1, <2>1 DEF CommitRiderAction, RowsTyped
  <2>3. status' \in [Orders -> OrderStatus]
    BY <1>1, <2>1 DEF CommitRiderAction, RowsTyped
  <2>4. RequestsTyped'
    BY <1>1, ProceedTyped, DoneTyped DEF CommitRiderAction, RequestStep, RequestsTyped,
                                         RequestHasOrder
  <2>5. RowsTyped' /\ QueueOK(queue)' /\ WorkersTyped'
    BY <1>1, <2>2, <2>3 DEF CommitRiderAction, RowsTyped, QueueOK, WorkersTyped,
                            WorkerHasOrder
  <2> QED
    BY <2>4, <2>5
<1>2. CASE c \in Riders /\ CommitGoOnline(c)
  <2>1. RequestsTyped'
    BY <1>2, ProceedTyped DEF CommitGoOnline, RequestStep
  <2>2. RowsTyped' /\ QueueOK(queue)' /\ WorkersTyped'
    BY <1>2 DEF CommitGoOnline, RowsTyped, QueueOK, WorkersTyped, WorkerHasOrder
  <2> QED
    BY <2>1, <2>2
<1>3. CASE c \in Desks /\ CommitDeskAction(c)
  <2> DEFINE op == request[c].op
             o == request[c].order
  <2>1. op \in DeskOps /\ request[c].rider \in Riders \cup {NoRider}
    BY <1>3 DEF CommitDeskAction, RequestsTyped, RequestHasOrder, RequestState
  <2>2. DeskTarget[op] \in OrderStatus
    <3>1. op \in { "merchantAccept", "merchantReject", "markPreparing", "markReady",
                   "customerCancel", "adminCancel", "adminAssign" }
      BY <2>1, OpsAssumption
    <3> HIDE DEF op
    <3> QED
      BY <3>1 DEF DeskTarget, OrderStatus
  <2>3. delivery' \in [Orders -> [rider : Riders \cup {NoRider}, status : DeliveryStatus]]
    BY <1>3, <2>1 DEF CommitDeskAction, RowsTyped, DeliveryStatus
  <2>4. status' \in [Orders -> OrderStatus]
    BY <1>3, <2>2 DEF CommitDeskAction, RowsTyped
  <2>5. RequestsTyped'
    BY <1>3, ProceedTyped, DoneTyped DEF CommitDeskAction, RequestStep
  <2>6. RowsTyped' /\ QueueOK(queue)' /\ WorkersTyped'
    BY <1>3, <2>3, <2>4 DEF CommitDeskAction, RowsTyped, QueueOK, WorkersTyped,
                            WorkerHasOrder
  <2> QED
    BY <2>5, <2>6
<1> QED
  BY <1>1, <1>2, <1>3 DEF Commit

(* What a request does after its commit, and its faults, preserve the types. *)
LEMMA AfterCommitTyped ==
  ASSUME TypeInv, NEW c \in Clients, AfterCommit(c) \/ RequestFault(c)
  PROVE  TypeInv'
<1> USE TypeParts
<1>1. CASE c \in Riders /\ FindAttempt(c)
  <2> DEFINE pending == PendingAttempts(request[c].order, c)
  <2>1. RequestsTyped'
    <3>1. CASE AfterResolve(c) \/ Done(c)
      BY <3>1, ProceedTyped, DoneTyped DEF AfterResolve, RequestStep
    <3>2. CASE ~(AfterResolve(c) \/ Done(c))
      <4>1. PICK latest \in pending :
              request' = [request EXCEPT ![c].attempt = latest, ![c].step = "resolve"]
        BY <1>1, <3>2 DEF FindAttempt
      <4>2. request[c].order \in Orders => latest \in Nat
        <5> SUFFICES ASSUME request[c].order \in Orders PROVE latest \in Nat
          OBVIOUS
        <5>1. attempts[request[c].order] \in Seq(Attempt)
          BY DEF RowsTyped
        <5> QED
          BY <5>1, LenProperties DEF PendingAttempts, AttemptsOf
      <4>3. request[c].order \in Orders
        BY <1>1 DEF FindAttempt, After, RequestsTyped, RequestHasOrder
      <4> DEFINE next == [request[c] EXCEPT !.attempt = latest, !.step = "resolve"]
      <4>4. request[c] \in RequestState
        BY DEF RequestsTyped
      <4>5. /\ next \in RequestState
            /\ next.order = request[c].order /\ next.step = "resolve"
            /\ next.op = request[c].op
        BY <4>2, <4>3, <4>4 DEF RequestState, RequestStep
      <4>6. request' = [request EXCEPT ![c] = next]
        BY <4>1
      <4> HIDE DEF next
      <4> QED
        BY <4>3, <4>5, <4>6 DEF RequestsTyped, RequestHasOrder
    <3> QED
      BY <3>1, <3>2
  <2>2. RowsTyped' /\ QueueOK(queue)' /\ WorkersTyped'
    BY <1>1 DEF FindAttempt, RowsTyped, QueueOK, WorkersTyped, WorkerHasOrder
  <2> QED
    BY <2>1, <2>2
<1>2. CASE c \in Riders /\ ResolveAttempt(c)
  <2>1. attempts' \in [Orders -> Seq(Attempt)]
    BY <1>2, OutcomeTyped DEF ResolveAttempt, RowsTyped, Outcome
  <2>2. RequestsTyped'
    BY <1>2, ProceedTyped, DoneTyped DEF ResolveAttempt, AfterResolve, RequestStep
  <2>3. RowsTyped' /\ QueueOK(queue)' /\ WorkersTyped'
    BY <1>2, <2>1 DEF ResolveAttempt, RowsTyped, QueueOK, WorkersTyped, WorkerHasOrder
  <2> QED
    BY <2>2, <2>3
<1>3. CASE EnqueueFollowUp(c)
  <2> DEFINE job == IF request[c].op = "goOnline" THEN ScanForRider(c)
                    ELSE AutoDispatch(request[c].order)
  <2>1. job \in Job
    BY JobsTyped DEF RequestsTyped, RequestHasOrder, RequestState
  <2>2. Enqueue(job)
    BY <1>3 DEF EnqueueFollowUp
  <2> HIDE DEF job
  <2>3. QueueOK(queue)'
    BY <2>1, <2>2, EnqueueStep
  <2>4. RequestsTyped'
    BY <1>3, ProceedTyped, DoneTyped DEF EnqueueFollowUp, RequestStep
  <2>5. RowsTyped' /\ WorkersTyped'
    BY <1>3 DEF EnqueueFollowUp, RowsTyped, WorkersTyped, WorkerHasOrder
  <2> QED
    BY <2>3, <2>4, <2>5
<1>4. CASE EnqueueRiderTimeout(c)
  <2>1. RiderTimeout(request[c].order) \in Job
    BY JobsTyped DEF RequestsTyped, RequestState
  <2>2. QueueOK(queue)'
    BY <1>4, <2>1, EnqueueStep DEF EnqueueRiderTimeout
  <2>3. RequestsTyped'
    BY <1>4, DoneTyped DEF EnqueueRiderTimeout
  <2>4. RowsTyped' /\ WorkersTyped'
    BY <1>4 DEF EnqueueRiderTimeout, RowsTyped, WorkersTyped, WorkerHasOrder
  <2> QED
    BY <2>2, <2>3, <2>4
<1>5. CASE RequestFault(c)
  <2>1. RequestsTyped'
    BY <1>5, ProceedTyped, DoneTyped DEF RequestFault, EnqueueFails, RequestDies, RequestStep
  <2>2. RowsTyped' /\ QueueOK(queue)' /\ WorkersTyped'
    BY <1>5 DEF RequestFault, EnqueueFails, RequestDies, RowsTyped, QueueOK, WorkersTyped,
                WorkerHasOrder
  <2> QED
    BY <2>1, <2>2
<1> QED
  BY <1>1, <1>2, <1>3, <1>4, <1>5 DEF AfterCommit

(* Every step preserves the types. *)
LEMMA TypeStep == TypeInv /\ [Next]_vars => TypeInv'
<1> SUFFICES ASSUME TypeInv, [Next]_vars PROVE TypeInv'
  OBVIOUS
<1>1. CASE UNCHANGED vars
  BY <1>1, TypeParts DEF vars, RowsTyped, QueueOK, WorkersTyped, WorkerHasOrder,
                         RequestsTyped, RequestHasOrder
<1>2. CASE Next
  BY <1>2, TakesJobTyped, RunsTyped, WorkerFaultTyped, RequestBeginsTyped, CommitTyped,
     AfterCommitTyped DEF Next
<1> QED
  BY <1>1, <1>2

(* The variables keep the shapes the schema and the job payloads give them *)
(* in every behaviour of the dispatcher, whatever interleaves or fails.    *)
THEOREM TypeCorrect == Spec => []TypeOK
<1>1. TypeInv => TypeOK
  BY DEF TypeInv
<1> QED
  BY <1>1, TypeInit, TypeStep, PTL DEF Spec

-----------------------------------------------------------------------------
(* Whom an order was offered to, for a dispatcher with one worker, with    *)
(* requests that overtake one another as they like, but no fault and no    *)
(* admin who assigns riders: a second worker, or a job run over again, may *)
(* be about to ask the same rider, and an admin asks riders off the books. *)
(*                                                                         *)
(* The argument: an attempt is in the worker's hands until its assignment  *)
(* is committed, and nobody else knows of it.  Once it has left them it    *)
(* stays an offer for good, its rider is passed over by getTriedRiderIds,  *)
(* and its order has a Delivery row, which hides it from the scan for a    *)
(* rider who comes online.                                                 *)

Alone == (\A v, w \in Workers : v = w) /\ ~Faults /\ "adminAssign" \notin DeskOps

Hands == { "lock", "count", "write", "failed" }
HasInHand(q, o, a) == q.order = o /\ q.attempt = a /\ q.step \in Hands
InHand(o, a) == \E w \in Workers : HasInHand(worker[w], o, a)

Asked(o) == { attempts[o][a].rider : a \in Offers(o) }
WasAsked(o, r) == \E b \in Offers(o) : attempts[o][b].rider = r /\ ~InHand(o, b)

WorkerFits(q) ==
  /\ q.step = "create" => q.rider \notin Asked(q.order)
  /\ q.step \in Hands => /\ q.attempt \in AttemptsOf(q.order)
                         /\ attempts[q.order][q.attempt] = [rider |-> q.rider, outcome |-> "pending"]
  /\ q.step \in { "timer", "mark" } => q.attempt \in Offers(q.order)
  /\ q.step = "cancel" => Cardinality(Asked(q.order)) >= MaxFailedAttempts

WorkersFit == \A w \in Workers : WorkerFits(worker[w])

(* An order without a Delivery row was offered to nobody yet, and one with *)
(* a rider was offered to him.                                             *)
OrderFits(o) ==
  /\ delivery[o].status = "NO_ROW" => \A a \in Offers(o) : InHand(o, a)
  /\ status[o] = "RIDER_ASSIGNED" => delivery[o].status = "ASSIGNED"
  /\ delivery[o].rider # NoRider => WasAsked(o, delivery[o].rider)

OrdersFit == \A o \in Orders : OrderFits(o)

(* A rider who answers was asked, and once he has answered the order does  *)
(* not wait for his answer, even if it waits for another rider's.          *)
AnswerFits(r, q) ==
  q.step \in { "find", "resolve" } \/ (q.step = "commit" /\ q.op \in RiderOps) =>
    /\ q.order \in Orders /\ WasAsked(q.order, r)
    /\ q.step \in { "find", "resolve" } =>
         ~(status[q.order] = "RIDER_ASSIGNED" /\ delivery[q.order].rider = r)
    /\ q.step = "resolve" => /\ q.attempt \in Offers(q.order) /\ ~InHand(q.order, q.attempt)
                             /\ attempts[q.order][q.attempt].rider = r

AnswersFit == \A r \in Riders : AnswerFits(r, request[r])

(* A dispatch timeout is of an offer that was made.                        *)
TimersFit ==
  \A o \in Orders, a \in Nat :
    BagIn(DispatchTimeout(o, a), queue) => a \in Offers(o) /\ ~InHand(o, a)

AskingInv ==
  /\ TypeInv /\ NeverAskedTwice /\ WorkersFit /\ OrdersFit /\ AnswersFit /\ TimersFit
  /\ UnansweredIsWatched

-----------------------------------------------------------------------------
(* With no two offers to one rider, every failed attempt is another rider. *)
LEMMA FailedWereAsked ==
  ASSUME attempts \in [Orders -> Seq(Attempt)], NeverAskedTwice, NEW o \in Orders
  PROVE  /\ Cardinality(FailedAttempts(o)) \in Nat /\ Cardinality(Asked(o)) \in Nat
         /\ Cardinality(FailedAttempts(o)) <= Cardinality(Asked(o))
<1> DEFINE rider == [a \in Offers(o) |-> attempts[o][a].rider]
           n == Len(attempts[o])
<1>1. n \in Nat /\ AttemptsOf(o) = 1 .. n
  BY DEF AttemptsOf
<1>2. Offers(o) \in SUBSET (1 .. n) /\ FailedAttempts(o) \in SUBSET Offers(o)
  BY <1>1 DEF Offers, FailedAttempts
<1>3. /\ rider \in [Offers(o) -> Asked(o)] /\ \A r \in Asked(o) : \E a \in Offers(o) : rider[a] = r
      /\ \A a, b \in Offers(o) : rider[a] = rider[b] => a = b
  BY DEF NeverAskedTwice, Asked
<1> HIDE DEF rider, n
<1> QED
  BY <1>1, <1>2, <1>3, PartsAndImages

(* What the steps other than CreateAttempt do to the offers: each keeps    *)
(* its rider, none is added, and those out of the worker's hands remain.   *)
OffersRemain ==
  /\ \A o \in Orders : Offers(o)' \subseteq Offers(o)
  /\ \A o \in Orders : \A b \in Offers(o)' : attempts'[o][b].rider = attempts[o][b].rider
  /\ \A o \in Orders : \A b \in Offers(o) : ~InHand(o, b) => b \in Offers(o)' /\ ~InHand(o, b)'

(* So nobody is asked twice, and whoever was asked still was.              *)
LEMMA AskedStays ==
  ASSUME OffersRemain
  PROVE  /\ NeverAskedTwice => NeverAskedTwice'
         /\ \A o \in Orders : Asked(o)' \subseteq Asked(o)
         /\ \A o \in Orders, r \in Riders : WasAsked(o, r) => WasAsked(o, r)'
<1>1. NeverAskedTwice => NeverAskedTwice'
  BY DEF OffersRemain, NeverAskedTwice
<1>2. \A o \in Orders : Asked(o)' \subseteq Asked(o)
  BY DEF OffersRemain, Asked
<1>3. \A o \in Orders, r \in Riders : WasAsked(o, r) => WasAsked(o, r)'
  BY DEF OffersRemain, WasAsked
<1> QED
  BY <1>1, <1>2, <1>3

(* Offers are a matter of the attempts alone.                              *)
LEMMA OffersUntouched ==
  ASSUME UNCHANGED attempts
  PROVE  \A o \in Orders : /\ Offers(o)' = Offers(o) /\ AttemptsOf(o)' = AttemptsOf(o)
                           /\ Asked(o)' = Asked(o)
BY DEF Offers, AttemptsOf, Asked

(* Requests hold no attempt in hand.                                       *)
LEMMA RequestsLeaveOffers ==
  ASSUME UNCHANGED <<attempts, worker>>
  PROVE  OffersRemain
BY DEF OffersRemain, Offers, AttemptsOf, InHand

(* An answer is written to one attempt.                                    *)
LEMMA OneOutcome ==
  ASSUME attempts \in [Orders -> Seq(Attempt)], NEW o \in Orders, NEW a \in AttemptsOf(o),
         NEW outcome, SetOutcome(o, a, outcome)
  PROVE  /\ \A p \in Orders : AttemptsOf(p)' = AttemptsOf(p)
         /\ \A p \in Orders : \A b \in AttemptsOf(p) : p # o \/ b # a => attempts'[p][b] = attempts[p][b]
         /\ attempts'[o][a] = [rider |-> attempts[o][a].rider, outcome |-> outcome]
<1> DEFINE e == [attempts[o][a] EXCEPT !.outcome = outcome]
<1>1. attempts' = [attempts EXCEPT ![o] = [attempts[o] EXCEPT ![a] = e]]
  BY DEF SetOutcome
<1>2. attempts[o][a] \in Attempt
  BY ElementOfSeq DEF AttemptsOf
<1>3. e = [rider |-> attempts[o][a].rider, outcome |-> outcome]
  BY <1>2 DEF Attempt
<1> HIDE DEF e
<1>4. /\ \A p \in Orders \ {o} : attempts'[p] = attempts[p]
      /\ attempts'[o] = [attempts[o] EXCEPT ![a] = e]
  BY <1>1
<1>5. /\ DOMAIN attempts'[o] = DOMAIN attempts[o] /\ attempts'[o][a] = e
      /\ \A b \in AttemptsOf(o) \ {a} : attempts'[o][b] = attempts[o][b]
  BY <1>4 DEF AttemptsOf
<1> QED
  BY <1>3, <1>4, <1>5 DEF AttemptsOf

(* Any outcome but failed keeps an offer, and failed is written only to an *)
(* attempt in hand.                                                        *)
LEMMA OutcomeKeepsOffers ==
  ASSUME attempts \in [Orders -> Seq(Attempt)], NEW o \in Orders, NEW a \in Offers(o),
         NEW outcome, SetOutcome(o, a, outcome),
         outcome # "failed" \/ InHand(o, a),
         \A p \in Orders : \A b \in Offers(p) : ~InHand(p, b) => ~InHand(p, b)'
  PROVE  OffersRemain
<1>1. a \in AttemptsOf(o)
  BY DEF Offers
<1> HIDE DEF InHand
<1>2. /\ \A p \in Orders : AttemptsOf(p)' = AttemptsOf(p)
      /\ \A p \in Orders : \A b \in AttemptsOf(p) : p # o \/ b # a => attempts'[p][b] = attempts[p][b]
      /\ attempts'[o][a].rider = attempts[o][a].rider /\ attempts'[o][a].outcome = outcome
  <2>1. attempts'[o][a] = [rider |-> attempts[o][a].rider, outcome |-> outcome]
    BY <1>1, OneOutcome
  <2>2. /\ \A p \in Orders : AttemptsOf(p)' = AttemptsOf(p)
        /\ \A p \in Orders : \A b \in AttemptsOf(p) : p # o \/ b # a => attempts'[p][b] = attempts[p][b]
    BY <1>1, OneOutcome
  <2> QED
    BY <2>1, <2>2
<1>3. \A p \in Orders : Offers(p)' \subseteq Offers(p)
  BY <1>2 DEF Offers
<1>4. \A p \in Orders : \A b \in Offers(p)' : attempts'[p][b].rider = attempts[p][b].rider
  <2> SUFFICES ASSUME NEW p \in Orders, NEW b \in Offers(p)' PROVE attempts'[p][b].rider = attempts[p][b].rider
    OBVIOUS
  <2>1. b \in AttemptsOf(p)
    BY <1>3 DEF Offers
  <2> QED
    BY <1>2, <2>1
<1>5. \A p \in Orders : \A b \in Offers(p) : ~InHand(p, b) => b \in Offers(p)' /\ ~InHand(p, b)'
  <2> SUFFICES ASSUME NEW p \in Orders, NEW b \in Offers(p), ~InHand(p, b) PROVE b \in Offers(p)'
    OBVIOUS
  <2>1. b \in AttemptsOf(p) /\ attempts[p][b].outcome # "failed"
    BY DEF Offers
  <2>2. attempts'[p][b].outcome # "failed"
    BY <1>2, <2>1
  <2> QED
    BY <1>2, <2>1, <2>2 DEF Offers
<1> QED
  BY <1>3, <1>4, <1>5 DEF OffersRemain

-----------------------------------------------------------------------------
(* The queue: only the step that sets a timer adds a dispatch timeout.     *)
NoNewTimers ==
  \A o \in Orders, a \in Nat : BagIn(DispatchTimeout(o, a), queue') => BagIn(DispatchTimeout(o, a), queue)

(* What is queued after a job was added.                                   *)
LEMMA EnqueueIn ==
  ASSUME NEW job, NEW other, Enqueue(job)
  PROVE  BagIn(other, queue') <=> BagIn(other, queue) \/ other = job
BY DEF Enqueue, BagAdd, BagIn, BagToSet

(* What is queued after a job was taken.                                   *)
LEMMA TakeIn ==
  ASSUME NEW w \in Workers, NEW job, NEW o, NEW step, NEW other, Take(w, job, o, step)
  PROVE  /\ BagIn(other, queue') => BagIn(other, queue)
         /\ BagIn(other, queue) /\ other # job => BagIn(other, queue')
BY DEF Take, BagRemove, BagIn, BagToSet

(* Dispatch timeouts differ from the other jobs and from one another.      *)
LEMMA TimersDiffer ==
  /\ \A o, p, a : DispatchTimeout(o, a) # AutoDispatch(p) /\ DispatchTimeout(o, a) # RiderTimeout(p)
  /\ \A o, r, a : DispatchTimeout(o, a) # ScanForRider(r)
  /\ \A o, p, a, b : DispatchTimeout(o, a) = DispatchTimeout(p, b) => o = p /\ a = b
<1>1. \A o, a : DispatchTimeout(o, a).kind = "riderDispatchTimeout"
  BY DEF DispatchTimeout
<1>2. \A o, r : /\ AutoDispatch(o).kind = "autoDispatchOrder" /\ RiderTimeout(o).kind = "riderTimeout"
                /\ ScanForRider(r).kind = "autoDispatchPendingForRider"
  BY DEF AutoDispatch, RiderTimeout, ScanForRider
<1>3. \A o, a : DispatchTimeout(o, a).order = o /\ DispatchTimeout(o, a).attempt = a
  BY DEF DispatchTimeout
<1>4. \A o, p, a : DispatchTimeout(o, a) # AutoDispatch(p) /\ DispatchTimeout(o, a) # RiderTimeout(p)
  <2> SUFFICES ASSUME NEW o, NEW p, NEW a
               PROVE  DispatchTimeout(o, a) # AutoDispatch(p) /\ DispatchTimeout(o, a) # RiderTimeout(p)
    OBVIOUS
  <2>1. DispatchTimeout(o, a).kind # AutoDispatch(p).kind /\ DispatchTimeout(o, a).kind # RiderTimeout(p).kind
    BY <1>1, <1>2
  <2> QED
    BY <2>1
<1>5. \A o, r, a : DispatchTimeout(o, a) # ScanForRider(r)
  <2> SUFFICES ASSUME NEW o, NEW r, NEW a PROVE DispatchTimeout(o, a) # ScanForRider(r)
    OBVIOUS
  <2>1. DispatchTimeout(o, a).kind # ScanForRider(r).kind
    BY <1>1, <1>2
  <2> QED
    BY <2>1
<1>6. \A o, p, a, b : DispatchTimeout(o, a) = DispatchTimeout(p, b) => o = p /\ a = b
  <2> SUFFICES ASSUME NEW o, NEW p, NEW a, NEW b, DispatchTimeout(o, a) = DispatchTimeout(p, b)
               PROVE  o = p /\ a = b
    OBVIOUS
  <2>1. DispatchTimeout(o, a).order = DispatchTimeout(p, b).order /\ DispatchTimeout(o, a).attempt = DispatchTimeout(p, b).attempt
    OBVIOUS
  <2> QED
    BY <1>3, <2>1
<1> QED
  BY <1>4, <1>5, <1>6

-----------------------------------------------------------------------------
(* What a handler or a worker that goes on leaves of its record.           *)
LEMMA Proceeds ==
  ASSUME RequestsTyped, NEW c \in Clients, NEW step, Proceed(c, step)
  PROVE  /\ request'[c].step = step /\ request'[c].op = request[c].op
         /\ request'[c].order = request[c].order /\ request'[c].attempt = request[c].attempt
         /\ \A d \in Clients \ {c} : request'[d] = request[d]
BY DEF RequestsTyped, RequestState, Proceed

(* A request that is done.                                                 *)
LEMMA IsDone ==
  ASSUME RequestsTyped, NEW c \in Clients, Done(c)
  PROVE  request'[c].step = "idle" /\ \A d \in Clients \ {c} : request'[d] = request[d]
BY DEF RequestsTyped, Done, IdleRequest

(* A request that has read its rows.                                       *)
LEMMA HasRead ==
  ASSUME RequestsTyped, NEW c \in Clients, NEW op, NEW o, NEW r, ReadFor(c, op, o, r)
  PROVE  /\ request'[c].step = "commit" /\ request'[c].op = op /\ request'[c].order = o
         /\ \A d \in Clients \ {c} : request'[d] = request[d]
BY DEF RequestsTyped, ReadFor

(* A worker that goes on to another step of its handler.                   *)
LEMMA GoesOn ==
  ASSUME WorkersTyped, NEW w \in Workers, NEW step, Goto(w, step)
  PROVE  /\ worker'[w].step = step /\ worker'[w].order = worker[w].order
         /\ worker'[w].rider = worker[w].rider /\ worker'[w].attempt = worker[w].attempt
BY DEF WorkersTyped, WorkerState, Goto

(* A worker that has finished its job.                                     *)
LEMMA Finishes ==
  ASSUME WorkersTyped, NEW w \in Workers, Finish(w)
  PROVE  worker'[w].step = "idle"
BY DEF WorkersTyped, Finish, IdleWorker

-----------------------------------------------------------------------------
(* The watch over an unanswered assignment, order by order.                *)
OnWatch(q, o, a) == q.order = o /\ q.attempt = a /\ q.step \in { "timer", "mark" }
TakesBack(q, o) == q.order = o /\ q.step \in { "check", "reset" }

WatchedBy(o, a) ==
  /\ a \in AttemptsOf(o) /\ attempts[o][a] = [rider |-> delivery[o].rider, outcome |-> "pending"]
  /\ BagIn(DispatchTimeout(o, a), queue) \/ \E w \in Workers : OnWatch(worker[w], o, a)

Watched(o) == (\E a \in AttemptsOf(o) : WatchedBy(o, a)) \/ \E w \in Workers : TakesBack(worker[w], o)

(* UnansweredIsWatched, order by order.                                    *)
LEMMA WatchedIsIt ==
  /\ UnansweredIsWatched <=> \A o \in Orders : status[o] = "RIDER_ASSIGNED" => Watched(o)
  /\ UnansweredIsWatched' <=> \A o \in Orders : status'[o] = "RIDER_ASSIGNED" => Watched(o)'
BY DEF UnansweredIsWatched, Watched, WatchedBy, OnWatch, TakesBack

(* Steps that leave an order waiting for its rider's answer only where it  *)
(* was, make no Delivery row go and put no other rider on one.             *)
RowsRecede ==
  /\ \A o \in Orders : status'[o] = "RIDER_ASSIGNED" => status[o] = "RIDER_ASSIGNED" /\ delivery'[o] = delivery[o]
  /\ \A o \in Orders : delivery'[o].status = "NO_ROW" => delivery[o].status = "NO_ROW"
  /\ \A o \in Orders : delivery'[o].rider \in { NoRider, delivery[o].rider }

TimersKept ==
  \A o \in Orders, a \in Nat : BagIn(DispatchTimeout(o, a), queue) => BagIn(DispatchTimeout(o, a), queue')

(* Attempts are numbered.                                                  *)
LEMMA AttemptsNumbered ==
  ASSUME attempts \in [Orders -> Seq(Attempt)], NEW o \in Orders
  PROVE  AttemptsOf(o) = 1 .. Len(attempts[o]) /\ Len(attempts[o]) \in Nat /\ AttemptsOf(o) \subseteq Nat
BY DEF AttemptsOf

Watching == { "timer", "mark", "check", "reset" }

(* A step that leaves an order's rows, timers and watchers alone leaves it *)
(* watched.                                                                *)
LEMMA WatchKept ==
  ASSUME attempts \in [Orders -> Seq(Attempt)], NEW o \in Orders, Watched(o),
         delivery'[o] = delivery[o],
         \A a \in AttemptsOf(o) : a \in AttemptsOf(o)' /\ attempts'[o][a] = attempts[o][a],
         \A a \in Nat : BagIn(DispatchTimeout(o, a), queue) => BagIn(DispatchTimeout(o, a), queue'),
         \A w \in Workers : worker[w].order = o /\ worker[w].step \in Watching => worker'[w] = worker[w]
  PROVE  Watched(o)'
<1>1. CASE \E w \in Workers : TakesBack(worker[w], o)
  <2>1. PICK w \in Workers : TakesBack(worker[w], o)
    BY <1>1
  <2>2. worker'[w] = worker[w]
    BY <2>1 DEF TakesBack, Watching
  <2> QED
    BY <2>1, <2>2 DEF Watched, TakesBack
<1>2. CASE \E a \in AttemptsOf(o) : WatchedBy(o, a)
  <2>1. PICK a \in AttemptsOf(o) : WatchedBy(o, a)
    BY <1>2
  <2>2. a \in AttemptsOf(o)' /\ attempts'[o][a] = attempts[o][a] /\ a \in Nat
    BY AttemptsNumbered DEF AttemptsOf
  <2>3. BagIn(DispatchTimeout(o, a), queue) => BagIn(DispatchTimeout(o, a), queue')
    BY <2>2
  <2>4. ASSUME NEW w \in Workers, OnWatch(worker[w], o, a) PROVE OnWatch(worker'[w], o, a)
    BY <2>4 DEF OnWatch, Watching
  <2>5. WatchedBy(o, a)'
    BY <2>1, <2>2, <2>3, <2>4 DEF WatchedBy
  <2> QED
    BY <2>2, <2>5 DEF Watched
<1> QED
  BY <1>1, <1>2 DEF Watched

(* All orders stay watched when no watching worker moves.                  *)
LEMMA WatchStays ==
  ASSUME attempts \in [Orders -> Seq(Attempt)], UnansweredIsWatched, UNCHANGED attempts, RowsRecede, TimersKept,
         \A w \in Workers : worker[w].step \in Watching => worker'[w] = worker[w]
  PROVE  UnansweredIsWatched'
<1> SUFFICES ASSUME NEW o \in Orders, status'[o] = "RIDER_ASSIGNED" PROVE Watched(o)'
  BY WatchedIsIt
<1>1. delivery'[o] = delivery[o] /\ Watched(o)
  BY WatchedIsIt DEF RowsRecede
<1> QED
  BY <1>1, WatchKept DEF TimersKept, AttemptsOf

(* Orders stay fit when no row is made and nothing leaves the hands.       *)
LEMMA OrdersStayFit ==
  ASSUME OrdersFit, TypeInv, OffersRemain, RowsRecede,
         \A o \in Orders : \A a \in Offers(o)' : InHand(o, a) => InHand(o, a)'
  PROVE  OrdersFit'
<1> SUFFICES ASSUME NEW o \in Orders PROVE OrderFits(o)'
  BY DEF OrdersFit
<1>1. OrderFits(o)
  BY DEF OrdersFit
<1> HIDE DEF InHand
<1>2. delivery'[o].status = "NO_ROW" => \A a \in Offers(o)' : InHand(o, a)'
  BY <1>1 DEF OrderFits, RowsRecede, OffersRemain
<1>3. status'[o] = "RIDER_ASSIGNED" => delivery'[o].status = "ASSIGNED"
  BY <1>1 DEF OrderFits, RowsRecede
<1>4. ASSUME NEW r \in Riders, delivery'[o].rider = r PROVE WasAsked(o, r)'
  <2>1. delivery[o].rider = r /\ r # NoRider
    BY <1>4, ConstantsAssumption DEF RowsRecede
  <2>2. WasAsked(o, r)
    BY <1>1, <2>1 DEF OrderFits
  <2> QED
    BY <2>2, AskedStays
<1>5. delivery'[o].rider \in Riders \cup { NoRider }
  BY DEF RowsRecede, TypeInv, TypeOK
<1>6. (delivery[o].rider # NoRider => WasAsked(o, delivery[o].rider))'
  BY <1>4, <1>5
<1> QED
  BY <1>2, <1>3, <1>6 DEF OrderFits

(* A rider's answer still fits where it stands.                            *)
LEMMA AnswerStaysFit ==
  ASSUME OffersRemain, NEW r \in Riders, AnswerFits(r, request[r]), request'[r] = request[r],
         \A o \in Orders : WasAsked(o, r) /\ status'[o] = "RIDER_ASSIGNED" /\ delivery'[o].rider = r
                             => status[o] = "RIDER_ASSIGNED" /\ delivery[o].rider = r
  PROVE  AnswerFits(r, request[r])'
<1> DEFINE q == request[r]
<1> SUFFICES ASSUME q.step \in { "find", "resolve" } \/ (q.step = "commit" /\ q.op \in RiderOps) PROVE AnswerFits(r, request[r])'
  BY DEF AnswerFits
<1>1. PICK o \in Orders : o = q.order
  BY DEF AnswerFits
<1>2. WasAsked(o, r) /\ WasAsked(o, r)'
  BY <1>1, AskedStays DEF AnswerFits
<1>3. q.step \in { "find", "resolve" } => ~(status'[o] = "RIDER_ASSIGNED" /\ delivery'[o].rider = r)
  BY <1>1, <1>2 DEF AnswerFits
<1>4. q.step = "resolve" => /\ q.attempt \in Offers(o)' /\ ~InHand(o, q.attempt)'
                            /\ attempts'[o][q.attempt].rider = r
  BY <1>1 DEF AnswerFits, OffersRemain
<1> QED
  BY <1>1, <1>2, <1>3, <1>4 DEF AnswerFits

-----------------------------------------------------------------------------
(* The invariant without the types, and the steps of the requests.         *)
AsksRightly ==
  NeverAskedTwice /\ WorkersFit /\ OrdersFit /\ AnswersFit /\ TimersFit /\ UnansweredIsWatched

(* A step of a request: all is left to check is its answer.                *)
LEMMA RequestMoves ==
  ASSUME AskingInv, UNCHANGED <<attempts, worker>>, RowsRecede, TimersKept, NoNewTimers, AnswersFit'
  PROVE  AsksRightly'
<1>1. OffersRemain
  BY RequestsLeaveOffers
<1>2. NeverAskedTwice'
  BY <1>1, AskedStays DEF AskingInv
<1>3. \A o, a : InHand(o, a)' <=> InHand(o, a)
  BY DEF InHand
<1>4. WorkersFit'
  <2> SUFFICES ASSUME NEW w \in Workers PROVE WorkerFits(worker[w])'
    BY DEF WorkersFit
  <2>1. WorkerFits(worker[w]) /\ worker'[w] = worker[w] /\ attempts' = attempts
    BY DEF WorkersFit, AskingInv
  <2> QED
    BY <2>1 DEF WorkerFits, Asked, Offers, AttemptsOf
<1>5. OrdersFit'
  BY <1>1, <1>3, OrdersStayFit DEF AskingInv, OffersRemain
<1>6. TimersFit'
  BY <1>1 DEF TimersFit, NoNewTimers, OffersRemain, AskingInv
<1>7. UnansweredIsWatched'
  BY WatchStays DEF AskingInv, TypeInv, TypeOK
<1> QED
  BY <1>2, <1>4, <1>5, <1>6, <1>7 DEF AsksRightly

(* Only the answer of the client that moved needs a look.                  *)
LEMMA OneAnswer ==
  ASSUME AskingInv, OffersRemain, RowsRecede, NEW c \in Clients,
         \A d \in Clients \ {c} : request'[d] = request[d],
         c \in Riders => AnswerFits(c, request[c])'
  PROVE  AnswersFit'
<1> SUFFICES ASSUME NEW r \in Riders, r # c PROVE AnswerFits(r, request[r])'
  BY DEF AnswersFit
<1>1. request'[r] = request[r] /\ AnswerFits(r, request[r])
  BY DEF Clients, AskingInv, AnswersFit
<1> QED
  BY <1>1, AnswerStaysFit DEF RowsRecede

(* A request that begins: the rider holds the delivery, so he was asked.   *)
LEMMA BeginsRightly == ASSUME AskingInv, RequestBegins PROVE AsksRightly'
<1>1. /\ UNCHANGED <<status, delivery, attempts, queue, worker>>
  BY DEF RequestBegins, BeginGoOnline, GoOffline, RepeatAccept, BeginRiderAction, BeginDeskAction
<1>2. RowsRecede /\ TimersKept /\ NoNewTimers /\ OffersRemain
  BY <1>1, RequestsLeaveOffers DEF RowsRecede, TimersKept, NoNewTimers
<1> USE TypeParts
<1>3. ASSUME NEW r \in Riders, BeginGoOnline(r) PROVE AnswersFit'
  <2>1. r \in Clients /\ ReadFor(r, "goOnline", NoOrder, r)
    BY <1>3 DEF BeginGoOnline, Clients
  <2>2. /\ request'[r].step = "commit" /\ request'[r].op \notin RiderOps
        /\ \A d \in Clients \ {r} : request'[d] = request[d]
    BY <2>1, HasRead DEF RiderOps, AskingInv
  <2> QED
    BY <1>2, <2>1, <2>2, OneAnswer DEF AnswerFits
<1>4. ASSUME NEW r \in Riders, GoOffline(r) PROVE AnswersFit'
  <2>1. r \in Clients /\ UNCHANGED request
    BY <1>4 DEF GoOffline, Clients
  <2>2. AnswerFits(r, request[r])'
    BY <1>1, <1>2, <2>1, AnswerStaysFit DEF AskingInv, AnswersFit
  <2> QED
    BY <1>2, <2>1, <2>2, OneAnswer
<1>5. ASSUME NEW r \in Riders, NEW o \in Orders, delivery[o].rider = r PROVE WasAsked(o, r)'
  <2>1. WasAsked(o, r)
    BY <1>5, ConstantsAssumption DEF AskingInv, OrdersFit, OrderFits
  <2> QED
    BY <1>2, <2>1, AskedStays
<1>6. ASSUME NEW r \in Riders, NEW o \in Orders, RepeatAccept(r, o) PROVE AnswersFit'
  <2> DEFINE q == [op |-> "repeatAccept", order |-> o, rider |-> r, attempt |-> 0, step |-> "find"]
  <2>1. r \in Clients /\ request' = [request EXCEPT ![r] = q] /\ delivery[o].rider = r /\ status[o] = "RIDER_ACCEPTED"
    BY <1>6 DEF RepeatAccept, Clients
  <2>2. q.order = o /\ q.step = "find"
    OBVIOUS
  <2> HIDE DEF q
  <2>3. request'[r] = q /\ \A d \in Clients \ {r} : request'[d] = request[d]
    BY <2>1 DEF AskingInv, RequestsTyped
  <2>4. AnswerFits(r, request[r])'
    BY <1>1, <1>5, <2>1, <2>2, <2>3 DEF AnswerFits
  <2> QED
    BY <1>2, <2>1, <2>3, <2>4, OneAnswer
<1>7. ASSUME NEW r \in Riders, NEW o \in Orders, NEW op \in RiderOps, BeginRiderAction(r, op, o) PROVE AnswersFit'
  <2>1. r \in Clients /\ ReadFor(r, op, o, r) /\ delivery[o].rider = r
    BY <1>7 DEF BeginRiderAction, Clients
  <2>2. /\ request'[r].step = "commit" /\ request'[r].order = o
        /\ \A d \in Clients \ {r} : request'[d] = request[d]
    BY <2>1, HasRead DEF AskingInv
  <2>3. AnswerFits(r, request[r])'
    BY <1>5, <2>1, <2>2 DEF AnswerFits
  <2> QED
    BY <1>2, <2>1, <2>2, <2>3, OneAnswer
<1>8. ASSUME NEW d \in Desks, NEW op \in DeskOps, NEW o \in Orders, BeginDeskAction(d, op, o) PROVE AnswersFit'
  <2>1. PICK r : ReadFor(d, op, o, r)
    BY <1>8 DEF BeginDeskAction
  <2>2. d \in Clients /\ d \notin Riders
    BY ConstantsAssumption DEF Clients
  <2>3. \A c \in Clients \ {d} : request'[c] = request[c]
    BY <2>1, <2>2, HasRead DEF AskingInv
  <2> QED
    BY <1>2, <2>2, <2>3, OneAnswer
<1>9. AnswersFit'
  BY <1>3, <1>4, <1>6, <1>7, <1>8 DEF RequestBegins
<1> QED
  BY <1>1, <1>2, <1>9, RequestMoves

(* What a handler commits: an answer moves the order on, and a rider left  *)
(* on the delivery is the one who was there.                               *)
LEMMA CommitsRightly ==
  ASSUME AskingInv, Alone, NEW c \in Clients, Commit(c)
  PROVE  AsksRightly'
<1> USE TypeParts
<1>1. UNCHANGED <<attempts, queue, worker>>
  BY DEF Commit, CommitRiderAction, CommitGoOnline, CommitDeskAction
<1>2. TimersKept /\ NoNewTimers /\ OffersRemain
  BY <1>1, RequestsLeaveOffers DEF TimersKept, NoNewTimers
<1>3. ASSUME NEW r \in Riders, r = c, CommitRiderAction(r) PROVE RowsRecede /\ AnswersFit'
  <2>1. PICK o \in Orders, op \in RiderOps : o = request[r].order /\ op = request[r].op
    BY <1>3 DEF CommitRiderAction, RequestsTyped, RequestHasOrder, Clients, AskingInv
  <2> DEFINE rider == IF RiderTarget[op].delivery = "PENDING_ASSIGNMENT" THEN NoRider ELSE delivery[o].rider
             row == [rider |-> rider, status |-> RiderTarget[op].delivery]
  <2>2. status' = [status EXCEPT ![o] = RiderTarget[op].order] /\ delivery' = [delivery EXCEPT ![o] = row]
    BY <1>3, <2>1 DEF CommitRiderAction
  <2>3. /\ RiderTarget[op].order # "RIDER_ASSIGNED" /\ row.status # "NO_ROW"
        /\ row.rider \in { NoRider, delivery[o].rider }
    BY DEF RiderTarget, RiderOps
  <2> HIDE DEF row
  <2>4. /\ status'[o] # "RIDER_ASSIGNED" /\ delivery'[o].status # "NO_ROW"
        /\ delivery'[o].rider \in { NoRider, delivery[o].rider }
        /\ \A p \in Orders \ {o} : status'[p] = status[p] /\ delivery'[p] = delivery[p]
    BY <2>2, <2>3 DEF RowsTyped, AskingInv
  <2>5. RowsRecede
    BY <2>4 DEF RowsRecede
  <2>6. \/ \E step \in { "find", "enqueue" } : Proceed(r, step)
        \/ Done(r)
    BY <1>3 DEF CommitRiderAction
  <2>7. r \in Clients /\ WasAsked(o, r)
    BY <1>3, <2>1 DEF AskingInv, AnswersFit, AnswerFits, CommitRiderAction
  <2>8. WasAsked(o, r)'
    BY <1>2, <2>7, AskedStays
  <2>9. CASE \E step \in { "find", "enqueue" } : Proceed(r, step)
    <3>1. PICK step \in { "find", "enqueue" } : Proceed(r, step)
      BY <2>9
    <3>2. /\ request'[r].step = step /\ request'[r].order = o
          /\ \A d \in Clients \ {r} : request'[d] = request[d]
      BY <2>1, <2>7, <3>1, Proceeds DEF AskingInv
    <3>3. AnswerFits(r, request[r])'
      BY <2>4, <2>8, <3>2 DEF AnswerFits
    <3> QED
      BY <1>2, <2>5, <2>7, <3>2, <3>3, OneAnswer
  <2>10. CASE Done(r)
    <3>1. request'[r].step = "idle" /\ \A d \in Clients \ {r} : request'[d] = request[d]
      BY <2>7, <2>10, IsDone DEF AskingInv
    <3> QED
      BY <1>2, <2>5, <2>7, <3>1, OneAnswer DEF AnswerFits
  <2> QED
    BY <2>5, <2>6, <2>9, <2>10
<1>4. ASSUME c \in Riders, CommitGoOnline(c) PROVE RowsRecede /\ AnswersFit'
  <2>1. RowsRecede
    BY <1>4 DEF CommitGoOnline, RowsRecede
  <2>2. request'[c].step = "enqueue" /\ \A d \in Clients \ {c} : request'[d] = request[d]
    BY <1>4, Proceeds DEF CommitGoOnline, AskingInv
  <2> QED
    BY <1>2, <2>1, <2>2, OneAnswer DEF AnswerFits
<1>5. ASSUME c \in Desks, CommitDeskAction(c) PROVE RowsRecede /\ AnswersFit'
  <2>1. c \notin Riders
    BY <1>5, ConstantsAssumption
  <2>2. request[c].op \in DeskOps /\ request[c].op # "adminAssign"
    BY <1>5 DEF Alone, CommitDeskAction, RequestsTyped, RequestHasOrder, AskingInv
  <2>3. DeskTarget[request[c].op] # "RIDER_ASSIGNED"
    <3>1. request[c].op \in { "merchantAccept", "merchantReject", "markPreparing", "markReady",
                              "customerCancel", "adminCancel" }
      BY <2>2, OpsAssumption
    <3> QED
      BY <3>1 DEF DeskTarget
  <2>4. delivery' = delivery /\ status' = [status EXCEPT ![request[c].order] = DeskTarget[request[c].op]]
    BY <1>5, <2>2 DEF CommitDeskAction
  <2>5. \A o \in Orders : status'[o] = "RIDER_ASSIGNED" => status[o] = "RIDER_ASSIGNED"
    BY <2>3, <2>4 DEF RowsTyped, AskingInv
  <2>6. RowsRecede
    BY <2>4, <2>5 DEF RowsRecede
  <2>7. \A d \in Clients \ {c} : request'[d] = request[d]
    BY <1>5, Proceeds, IsDone DEF CommitDeskAction, AskingInv
  <2> QED
    BY <1>2, <2>1, <2>6, <2>7, OneAnswer
<1> QED
  BY <1>1, <1>2, <1>3, <1>4, <1>5, RequestMoves DEF Commit

(* resolveDispatchAttempt finds an offer that is out of hand.              *)
LEMMA FindsRightly ==
  ASSUME AskingInv, NEW r \in Riders, FindAttempt(r)
  PROVE  AsksRightly'
<1> USE TypeParts
<1> DEFINE o == request[r].order
<1>1. UNCHANGED <<status, delivery, attempts, queue, worker>> /\ r \in Clients
  BY DEF FindAttempt, Clients
<1>2. RowsRecede /\ TimersKept /\ NoNewTimers /\ OffersRemain
  BY <1>1, RequestsLeaveOffers DEF RowsRecede, TimersKept, NoNewTimers
<1>3. ASSUME request'[r].step \in { "enqueue", "idle" },
             \A d \in Clients \ {r} : request'[d] = request[d]
      PROVE  AnswersFit'
  BY <1>1, <1>2, <1>3, OneAnswer DEF AnswerFits
<1>4. ASSUME Done(r) PROVE AnswersFit'
  BY <1>1, <1>3, <1>4, IsDone DEF AskingInv
<1>5. ASSUME Proceed(r, "enqueue") PROVE AnswersFit'
  BY <1>1, <1>3, <1>5, Proceeds DEF AskingInv
<1>6. ASSUME NEW a \in PendingAttempts(o, r),
             request' = [request EXCEPT ![r].attempt = a, ![r].step = "resolve"]
      PROVE  AnswersFit'
  <2> DEFINE q == [request[r] EXCEPT !.attempt = a, !.step = "resolve"]
  <2>1. request[r] \in RequestState
    BY <1>1 DEF AskingInv, RequestsTyped
  <2>2. q.step = "resolve" /\ q.attempt = a /\ q.order = o
    BY <2>1 DEF RequestState
  <2>3. request' = [request EXCEPT ![r] = q]
    BY <1>6
  <2> HIDE DEF q
  <2>4. request'[r] = q /\ \A d \in Clients \ {r} : request'[d] = request[d]
    BY <1>1, <2>3 DEF AskingInv, RequestsTyped
  <2>5. /\ o \in Orders /\ WasAsked(o, r)
        /\ ~(status[o] = "RIDER_ASSIGNED" /\ delivery[o].rider = r)
    BY DEF FindAttempt, After, AskingInv, AnswersFit, AnswerFits
  <2>6. a \in Offers(o) /\ attempts[o][a].rider = r
    BY DEF PendingAttempts, Offers
  <2>7. ~InHand(o, a)
    <3>1. PICK b \in Offers(o) : attempts[o][b].rider = r /\ ~InHand(o, b)
      BY <2>5 DEF WasAsked
    <3>2. a = b
      BY <2>5, <2>6, <3>1 DEF AskingInv, NeverAskedTwice
    <3> QED
      BY <3>1, <3>2
  <2>8. AnswerFits(r, q)
    BY <2>2, <2>5, <2>6, <2>7 DEF AnswerFits
  <2>9. AnswerFits(r, request[r])'
    BY <1>1, <2>4, <2>8 DEF AnswerFits, WasAsked, Offers, AttemptsOf, InHand
  <2> QED
    BY <1>1, <1>2, <2>4, <2>9, OneAnswer
<1>7. AnswersFit'
  <2>1. \/ Done(r) \/ AfterResolve(r)
        \/ \E a \in PendingAttempts(o, r) : request' = [request EXCEPT ![r].attempt = a, ![r].step = "resolve"]
    BY DEF FindAttempt
  <2> QED
    BY <1>4, <1>5, <1>6, <2>1 DEF AfterResolve
<1> QED
  BY <1>1, <1>2, <1>7, RequestMoves

(* The outcome of an answer goes to an offer nobody waits for.             *)
LEMMA ResolvesRightly ==
  ASSUME AskingInv, Alone, NEW r \in Riders, ResolveAttempt(r)
  PROVE  AsksRightly'
<1> USE TypeParts
<1> DEFINE o == request[r].order
           a == request[r].attempt
<1>1. /\ o \in Orders /\ a \in Offers(o)
      /\ attempts[o][a].rider = r /\ ~InHand(o, a)
      /\ ~(status[o] = "RIDER_ASSIGNED" /\ delivery[o].rider = r)
  BY DEF ResolveAttempt, After, AskingInv, AnswersFit, AnswerFits
<1>2. PICK outcome \in { "rejected", "accepted" } : SetOutcome(o, a, outcome)
  BY DEF ResolveAttempt
<1> HIDE DEF o, a
<1>3. UNCHANGED <<status, delivery, queue, worker>> /\ r \in Clients
  BY DEF ResolveAttempt, Clients
<1>4. attempts \in [Orders -> Seq(Attempt)] /\ a \in AttemptsOf(o)
  BY <1>1 DEF AskingInv, RowsTyped, Offers
<1>5. \A p, b : InHand(p, b)' <=> InHand(p, b)
  BY <1>3 DEF InHand
<1>6. OffersRemain
  BY <1>1, <1>2, <1>4, <1>5, OutcomeKeepsOffers
<1>7. /\ \A p \in Orders : AttemptsOf(p)' = AttemptsOf(p)
      /\ \A p \in Orders : \A b \in AttemptsOf(p) : p # o \/ b # a => attempts'[p][b] = attempts[p][b]
      /\ attempts'[o][a] = [rider |-> attempts[o][a].rider, outcome |-> outcome]
  BY <1>1, <1>2, <1>4, OneOutcome
<1>8. \A p \in Orders : Offers(p)' = Offers(p) /\ Asked(p)' = Asked(p)
  <2> TAKE p \in Orders
  <2>1. Offers(p) \subseteq Offers(p)'
    <3> SUFFICES ASSUME NEW b \in Offers(p) PROVE b \in Offers(p)'
      OBVIOUS
    <3>1. b \in AttemptsOf(p) /\ attempts[p][b].outcome # "failed"
      BY DEF Offers
    <3>2. attempts'[p][b].outcome # "failed"
      BY <1>7, <3>1
    <3> QED
      BY <1>7, <3>1, <3>2 DEF Offers
  <2>2. Offers(p)' = Offers(p)
    BY <1>6, <2>1 DEF OffersRemain
  <2> QED
    BY <1>6, <2>2 DEF OffersRemain, Asked
<1>9. NeverAskedTwice'
  BY <1>6, AskedStays DEF AskingInv
<1>10. WorkersFit'
  <2> SUFFICES ASSUME NEW w \in Workers PROVE WorkerFits(worker[w])'
    BY DEF WorkersFit
  <2> DEFINE q == worker[w]
  <2>1. WorkerFits(q) /\ worker'[w] = q /\ (q.step # "idle" => q.order \in Orders)
    BY <1>3 DEF AskingInv, WorkersFit, WorkersTyped, WorkerHasOrder
  <2>2. q.step \in Hands => attempts'[q.order][q.attempt] = attempts[q.order][q.attempt]
    <3> SUFFICES ASSUME q.step \in Hands PROVE attempts'[q.order][q.attempt] = attempts[q.order][q.attempt]
      OBVIOUS
    <3>1. InHand(q.order, q.attempt)
      BY DEF InHand, HasInHand
    <3>2. q.order \in Orders /\ q.attempt \in AttemptsOf(q.order) /\ (q.order # o \/ q.attempt # a)
      BY <1>1, <2>1, <3>1 DEF WorkerFits, Hands
    <3> QED
      BY <1>7, <3>2
  <2> QED
    BY <1>7, <1>8, <2>1, <2>2 DEF WorkerFits, Hands
<1>11. OrdersFit'
  <2>1. RowsRecede
    BY <1>3 DEF RowsRecede
  <2> QED
    BY <1>5, <1>6, <2>1, OrdersStayFit DEF AskingInv
<1>12. AnswersFit'
  <2>1. request'[r].step \in { "enqueue", "idle" } /\ \A d \in Clients \ {r} : request'[d] = request[d]
    BY <1>3, Proceeds, IsDone DEF ResolveAttempt, AfterResolve, AskingInv
  <2>2. RowsRecede
    BY <1>3 DEF RowsRecede
  <2> QED
    BY <1>3, <1>6, <2>1, <2>2, OneAnswer DEF AnswerFits
<1>13. TimersFit'
  BY <1>3, <1>5, <1>8 DEF AskingInv, TimersFit
<1>14. UnansweredIsWatched'
  <2> SUFFICES ASSUME NEW p \in Orders, status[p] = "RIDER_ASSIGNED" PROVE Watched(p)'
    BY <1>3, WatchedIsIt
  <2>1. Watched(p)
    BY WatchedIsIt DEF AskingInv
  <2>2. CASE \E w \in Workers : TakesBack(worker[w], p)
    BY <1>3, <2>2 DEF Watched
  <2>3. ASSUME NEW b \in AttemptsOf(p), WatchedBy(p, b) PROVE Watched(p)'
    <3>1. p # o \/ b # a
      BY <1>1, <2>3 DEF WatchedBy
    <3>2. attempts'[p][b] = attempts[p][b] /\ AttemptsOf(p)' = AttemptsOf(p)
      BY <1>7, <3>1
    <3>3. WatchedBy(p, b)'
      BY <1>3, <2>3, <3>2 DEF WatchedBy
    <3> QED
      BY <3>2, <3>3 DEF Watched
  <2> QED
    BY <2>1, <2>2, <2>3 DEF Watched
<1> QED
  BY <1>9, <1>10, <1>11, <1>12, <1>13, <1>14 DEF AsksRightly

(* What follows a commit.                                                  *)
LEMMA FollowsUpRightly ==
  ASSUME AskingInv, Alone, NEW c \in Clients, AfterCommit(c)
  PROVE  AsksRightly'
<1> USE TypeParts
<1>1. ASSUME EnqueueFollowUp(c) \/ EnqueueRiderTimeout(c) PROVE AsksRightly'
  <2>1. UNCHANGED <<status, delivery, attempts, worker>>
    BY <1>1 DEF EnqueueFollowUp, EnqueueRiderTimeout
  <2>2. PICK job : /\ Enqueue(job)
                   /\ \A o, a : DispatchTimeout(o, a) # job
    BY <1>1, TimersDiffer DEF EnqueueFollowUp, EnqueueRiderTimeout
  <2>3. NoNewTimers /\ TimersKept
    BY <2>2, EnqueueIn DEF NoNewTimers, TimersKept
  <2>4. RowsRecede /\ OffersRemain
    BY <2>1, RequestsLeaveOffers DEF RowsRecede
  <2>5. request'[c].step \in { "enqueueTimeout", "idle" } /\ \A d \in Clients \ {c} : request'[d] = request[d]
    BY <1>1, Proceeds, IsDone DEF EnqueueFollowUp, EnqueueRiderTimeout, AskingInv
  <2>6. AnswersFit'
    BY <2>4, <2>5, OneAnswer DEF AnswerFits
  <2> QED
    BY <2>1, <2>3, <2>4, <2>6, RequestMoves
<1> QED
  BY <1>1, FindsRightly, ResolvesRightly DEF AfterCommit

-----------------------------------------------------------------------------
(* The steps of the worker.                                                *)
LEMMA OnlyWorker ==
  ASSUME Alone, NEW w \in Workers
  PROVE  /\ \A o, a : InHand(o, a) <=> HasInHand(worker[w], o, a)
         /\ \A o, a : InHand(o, a)' <=> HasInHand(worker'[w], o, a)
         /\ WorkersFit' <=> WorkerFits(worker[w])'
BY DEF Alone, InHand, WorkersFit

(* A worker that takes up a job.                                           *)
LEMMA TakesUp ==
  ASSUME WorkersTyped, NEW w \in Workers, NEW job, NEW o, NEW step, Take(w, job, o, step)
  PROVE  /\ worker[w].step = "idle" /\ worker'[w].step = step
         /\ step # "idle" => /\ worker'[w].order = o /\ worker'[w].rider = job.rider
                             /\ worker'[w].attempt = job.attempt
BY DEF WorkersTyped, Take, At

(* A step that touches no attempt and no request, and leaves in hand what  *)
(* was in hand.                                                            *)
LEMMA WorkerMoves ==
  ASSUME AskingInv, Alone, NEW w \in Workers, UNCHANGED <<attempts, request>>, RowsRecede,
         \A o, a : HasInHand(worker'[w], o, a) <=> HasInHand(worker[w], o, a),
         WorkerFits(worker[w])', TimersFit', UnansweredIsWatched'
  PROVE  AsksRightly'
<1>1. \A o, a : InHand(o, a)' <=> InHand(o, a)
  BY OnlyWorker
<1>2. OffersRemain
  BY <1>1 DEF OffersRemain, Offers, AttemptsOf
<1>3. NeverAskedTwice'
  BY <1>2, AskedStays DEF AskingInv
<1>4. WorkersFit'
  BY OnlyWorker
<1>5. OrdersFit'
  BY <1>1, <1>2, OrdersStayFit DEF AskingInv
<1>6. AnswersFit'
  <2> SUFFICES ASSUME NEW r \in Riders PROVE AnswerFits(r, request[r])'
    BY DEF AnswersFit
  <2>1. AnswerFits(r, request[r])
    BY DEF AskingInv, AnswersFit
  <2> QED
    BY <1>2, <2>1, AnswerStaysFit DEF RowsRecede
<1> QED
  BY <1>3, <1>4, <1>5, <1>6 DEF AsksRightly

(* Timers that are not new are still of offers that were made.             *)
LEMMA TimersStayFit ==
  ASSUME TimersFit, UNCHANGED attempts, NoNewTimers, NEW w \in Workers, Alone,
         \A o, a : HasInHand(worker'[w], o, a) => HasInHand(worker[w], o, a)
  PROVE  TimersFit'
<1> SUFFICES ASSUME NEW o \in Orders, NEW a \in Nat, BagIn(DispatchTimeout(o, a), queue')
             PROVE  a \in Offers(o)' /\ ~InHand(o, a)'
  BY DEF TimersFit
<1>1. a \in Offers(o) /\ ~InHand(o, a)
  BY DEF TimersFit, NoNewTimers
<1>2. ~InHand(o, a)'
  BY <1>1, OnlyWorker
<1> QED
  BY <1>1, <1>2, OffersUntouched

(* So many riders were asked that the dispatcher may give the order up.    *)
LEMMA ExhaustedWereAsked ==
  ASSUME attempts \in [Orders -> Seq(Attempt)], NeverAskedTwice, NEW o \in Orders, Exhausted(o)
  PROVE  Cardinality(Asked(o)) >= MaxFailedAttempts
BY FailedWereAsked, ConstantsAssumption DEF Exhausted

(* The first reads of a job: each kind of job goes where it may.           *)
LEMMA TakesRightly ==
  ASSUME AskingInv, Alone, NEW w \in Workers, TakesJob(w)
  PROVE  AsksRightly'
<1> USE TypeParts
<1>1. UNCHANGED <<status, delivery, attempts, request>>
  BY DEF TakesJob, StartAutoDispatch, StartRiderTimeout, StartDispatchTimeout, StartScanForRider
<1>2. RowsRecede /\ attempts \in [Orders -> Seq(Attempt)]
  BY <1>1 DEF RowsRecede, RowsTyped, AskingInv
<1>3. ASSUME NEW job, NEW o, NEW step, Take(w, job, o, step), step \notin Hands
      PROVE  /\ worker[w].step = "idle" /\ TimersFit'
             /\ \A p, a : HasInHand(worker'[w], p, a) <=> HasInHand(worker[w], p, a)
  <2>1. worker[w].step = "idle" /\ worker'[w].step \notin Hands
    BY <1>3, TakesUp DEF AskingInv
  <2>2. \A p, a : HasInHand(worker'[w], p, a) <=> HasInHand(worker[w], p, a)
    BY <2>1 DEF HasInHand, Hands
  <2>3. NoNewTimers
    BY <1>3, TakeIn DEF NoNewTimers
  <2>4. TimersFit'
    BY <1>1, <2>2, <2>3, TimersStayFit DEF AskingInv
  <2> QED
    BY <2>1, <2>2, <2>4
<1>4. ASSUME NEW job, NEW o, NEW step, Take(w, job, o, step), step \notin Hands,
             \A p, a : DispatchTimeout(p, a) # job, WorkerFits(worker[w])'
      PROVE  AsksRightly'
  <2>1. TimersKept
    BY <1>4, TakeIn DEF TimersKept
  <2>2. \A v \in Workers : worker[v].step \in Watching => worker'[v] = worker[v]
    BY <1>3, <1>4 DEF Alone, Watching
  <2>3. UnansweredIsWatched'
    BY <1>1, <1>2, <2>1, <2>2, WatchStays DEF AskingInv
  <2> QED
    BY <1>1, <1>2, <1>3, <1>4, <2>3, WorkerMoves
<1>5. ASSUME NEW o \in Orders, StartAutoDispatch(w, o) PROVE AsksRightly'
  <2> DEFINE step == IF ~Waiting(o) THEN "idle" ELSE IF Exhausted(o) THEN "cancel" ELSE "pick"
  <2>1. Take(w, AutoDispatch(o), o, step)
    BY <1>5 DEF StartAutoDispatch
  <2>2. step \in { "idle", "cancel", "pick" } /\ (step = "cancel" => Exhausted(o))
    OBVIOUS
  <2> HIDE DEF step
  <2>3. worker'[w].step = step /\ (step = "cancel" => worker'[w].order = o)
    BY <2>1, TakesUp DEF AskingInv
  <2>4. step = "cancel" => Cardinality(Asked(o)') >= MaxFailedAttempts
    BY <1>1, <1>2, <2>2, ExhaustedWereAsked, OffersUntouched DEF AskingInv
  <2>5. WorkerFits(worker[w])'
    BY <2>2, <2>3, <2>4 DEF WorkerFits, Hands
  <2>6. \A p, a : DispatchTimeout(p, a) # AutoDispatch(o)
    BY TimersDiffer
  <2>7. step \notin Hands
    BY <2>2 DEF Hands
  <2> QED
    BY <1>4, <2>1, <2>5, <2>6, <2>7
<1>6. ASSUME NEW o \in Orders, StartRiderTimeout(w, o) PROVE AsksRightly'
  <2>1. PICK step \in { "idle", "expire" } : Take(w, RiderTimeout(o), o, step)
    BY <1>6 DEF StartRiderTimeout
  <2>2. worker'[w].step = step /\ step \notin Hands
    BY <2>1, TakesUp DEF AskingInv, Hands
  <2>3. WorkerFits(worker[w])'
    BY <2>1, <2>2 DEF WorkerFits, Hands
  <2>4. \A p, a : DispatchTimeout(p, a) # RiderTimeout(o)
    BY TimersDiffer
  <2> QED
    BY <1>4, <2>1, <2>2, <2>3, <2>4
<1>7. ASSUME NEW r \in Riders, StartScanForRider(w, r) PROVE AsksRightly'
  <2>1. \/ Take(w, ScanForRider(r), NoOrder, "idle")
        \/ \E o \in WaitingWithoutRow : Take(w, ScanForRider(r), o, "create")
    BY <1>7 DEF StartScanForRider
  <2>2. \A p, a : DispatchTimeout(p, a) # ScanForRider(r)
    BY TimersDiffer
  <2>3. "idle" \notin Hands /\ "create" \notin Hands
    BY DEF Hands
  <2>4. ASSUME Take(w, ScanForRider(r), NoOrder, "idle") PROVE WorkerFits(worker[w])'
    BY <2>4, TakesUp DEF AskingInv, WorkerFits, Hands
  <2>5. ASSUME NEW o \in WaitingWithoutRow, Take(w, ScanForRider(r), o, "create") PROVE WorkerFits(worker[w])'
    <3>1. o \in Orders /\ \A a \in Offers(o) : InHand(o, a)
      BY DEF WaitingWithoutRow, AskingInv, OrdersFit, OrderFits
    <3>2. \A a : ~InHand(o, a)
      BY <2>3, <2>5, <1>3, OnlyWorker DEF HasInHand
    <3>3. worker'[w].step = "create" /\ worker'[w].order = o
      BY <2>5, TakesUp DEF AskingInv
    <3>4. Asked(o)' = {}
      BY <1>1, <3>1, <3>2, OffersUntouched DEF Asked
    <3> QED
      BY <3>3, <3>4 DEF WorkerFits, Hands
  <2> QED
    BY <1>4, <2>1, <2>2, <2>3, <2>4, <2>5
<1>8. ASSUME NEW o \in Orders, NEW a \in AttemptsOf(o), StartDispatchTimeout(w, o, a) PROVE AsksRightly'
  <2> DEFINE step == IF attempts[o][a].outcome = "pending" THEN "mark" ELSE "idle"
  <2>1. Take(w, DispatchTimeout(o, a), o, step) /\ BagIn(DispatchTimeout(o, a), queue) /\ a \in Nat
    BY <1>2, <1>8, AttemptsNumbered DEF StartDispatchTimeout, Take
  <2>2. step \in { "idle", "mark" } /\ (step = "idle" => attempts[o][a].outcome # "pending")
    OBVIOUS
  <2> HIDE DEF step
  <2>3. worker'[w].step = step /\ (step = "mark" => worker'[w].order = o /\ worker'[w].attempt = a)
    BY <2>1, <2>2, TakesUp DEF AskingInv, DispatchTimeout
  <2>4. a \in Offers(o)'
    BY <1>1, <2>1, OffersUntouched DEF AskingInv, TimersFit
  <2>5. WorkerFits(worker[w])' /\ step \notin Hands
    BY <2>2, <2>3, <2>4 DEF WorkerFits, Hands
  <2>6. UnansweredIsWatched'
    <3> SUFFICES ASSUME NEW p \in Orders, status[p] = "RIDER_ASSIGNED" PROVE Watched(p)'
      BY <1>1, WatchedIsIt
    <3>1. Watched(p) /\ worker[w].step = "idle"
      BY <1>3, <2>1, <2>5, WatchedIsIt DEF AskingInv
    <3>2. \A v \in Workers : worker[v].step \notin Watching
      BY <3>1 DEF Alone, Watching
    <3>3. PICK b \in AttemptsOf(p) : WatchedBy(p, b) /\ BagIn(DispatchTimeout(p, b), queue)
      BY <3>1, <3>2 DEF Watched, WatchedBy, OnWatch, TakesBack, Watching
    <3>4. attempts'[p][b] = [rider |-> delivery'[p].rider, outcome |-> "pending"] /\ b \in AttemptsOf(p)'
      BY <1>1, <3>3 DEF WatchedBy, AttemptsOf
    <3>5. BagIn(DispatchTimeout(p, b), queue') \/ OnWatch(worker'[w], p, b)
      <4>1. CASE p = o /\ b = a
        BY <1>1, <2>2, <2>3, <3>4, <4>1 DEF OnWatch
      <4>2. CASE ~(p = o /\ b = a)
        BY <2>1, <3>3, <4>2, TakeIn, TimersDiffer
      <4> QED
        BY <4>1, <4>2
    <3> QED
      BY <3>4, <3>5 DEF Watched, WatchedBy
  <2> QED
    BY <1>1, <1>2, <1>3, <2>1, <2>5, <2>6, WorkerMoves
<1> QED
  BY <1>5, <1>6, <1>7, <1>8 DEF TakesJob

(* A step of a handler between its writes.                                 *)
LEMMA HandlerMoves ==
  ASSUME AskingInv, Alone, NEW w \in Workers, UNCHANGED <<attempts, request, queue>>, RowsRecede,
         \A o, a : HasInHand(worker'[w], o, a) <=> HasInHand(worker[w], o, a),
         WorkerFits(worker[w])',
         worker[w].step \in Watching => UnansweredIsWatched'
  PROVE  AsksRightly'
<1> USE TypeParts
<1>1. NoNewTimers /\ TimersKept
  BY DEF NoNewTimers, TimersKept
<1>2. TimersFit'
  BY <1>1, TimersStayFit DEF AskingInv
<1>3. attempts \in [Orders -> Seq(Attempt)]
  BY DEF AskingInv, RowsTyped
<1>4. UnansweredIsWatched'
  <2> SUFFICES ASSUME worker[w].step \notin Watching PROVE UnansweredIsWatched'
    OBVIOUS
  <2>1. \A v \in Workers : worker[v].step \in Watching => worker'[v] = worker[v]
    BY DEF Alone
  <2> QED
    BY <1>1, <1>3, <2>1, WatchStays DEF AskingInv
<1> QED
  BY <1>2, <1>4, WorkerMoves

(* pickEligibleRider passes over everyone the order was offered to.        *)
LEMMA PicksRightly ==
  ASSUME AskingInv, Alone, NEW w \in Workers, PickRider(w)
  PROVE  AsksRightly'
<1> USE TypeParts
<1>1. /\ UNCHANGED <<status, delivery, attempts, queue, request>>
      /\ worker[w].step = "pick" /\ worker[w].step \notin Hands \cup Watching
      /\ worker[w] \in WorkerState
  BY DEF PickRider, At, Hands, Watching, AskingInv, WorkersTyped
<1>0. PICK o \in Orders : o = worker[w].order
  BY DEF PickRider, At, AskingInv, WorkersTyped, WorkerHasOrder
<1>2. RowsRecede
  BY <1>1 DEF RowsRecede
<1>3. ASSUME WorkerFits(worker[w])', worker'[w].step \notin Hands PROVE AsksRightly'
  <2>1. \A p, a : HasInHand(worker'[w], p, a) <=> HasInHand(worker[w], p, a)
    BY <1>1, <1>3 DEF HasInHand
  <2> QED
    BY <1>1, <1>2, <1>3, <2>1, HandlerMoves
<1>4. CASE Finish(w)
  <2>1. worker'[w].step = "idle"
    BY <1>4, Finishes DEF AskingInv
  <2> QED
    BY <1>3, <2>1 DEF WorkerFits, Hands
<1>5. CASE \E r \in EligibleRiders \ TriedRiders(worker[w].order) : worker' = [worker EXCEPT ![w].rider = r, ![w].step = "create"]
  <2>1. PICK r \in EligibleRiders \ TriedRiders(worker[w].order) :
          worker' = [worker EXCEPT ![w].rider = r, ![w].step = "create"]
    BY <1>5
  <2> DEFINE q == [worker[w] EXCEPT !.rider = r, !.step = "create"]
  <2>2. q.step = "create" /\ q.rider = r /\ q.order = o
    BY <1>1, <1>0 DEF WorkerState
  <2>3. worker' = [worker EXCEPT ![w] = q]
    BY <2>1
  <2> HIDE DEF q
  <2>4. worker'[w] = q
    BY <2>3 DEF AskingInv, WorkersTyped
  <2>5. r \notin Asked(o)'
    BY <1>1, <1>0, OffersUntouched DEF TriedRiders, Asked, Offers
  <2>6. WorkerFits(worker[w])'
    BY <2>2, <2>4, <2>5 DEF WorkerFits, Hands
  <2>7. worker'[w].step \notin Hands
    BY <2>2, <2>4 DEF Hands
  <2> QED
    BY <1>3, <2>6, <2>7
<1> QED
  BY <1>4, <1>5 DEF PickRider

(* The lock, the count, and the steps that read before they go on.         *)
LEMMA LocksRightly ==
  ASSUME AskingInv, Alone, NEW w \in Workers, AcquireRiderLock(w) \/ CountActive(w)
  PROVE  AsksRightly'
<1> USE TypeParts
<1>1. /\ UNCHANGED <<status, delivery, attempts, queue, request>>
      /\ worker[w].step \in Hands /\ worker[w].step \notin Watching
  BY DEF AcquireRiderLock, CountActive, At, Hands, Watching
<1>2. PICK step \in { "count", "write", "failed" } : Goto(w, step)
  BY DEF AcquireRiderLock, CountActive
<1>3. /\ worker'[w].step \in Hands /\ worker'[w].step \notin { "create", "timer", "mark", "cancel" }
      /\ worker'[w].order = worker[w].order /\ worker'[w].rider = worker[w].rider
      /\ worker'[w].attempt = worker[w].attempt
  BY <1>2, GoesOn DEF AskingInv, Hands
<1>4. \A o, a : HasInHand(worker'[w], o, a) <=> HasInHand(worker[w], o, a)
  BY <1>1, <1>3 DEF HasInHand
<1>5. WorkerFits(worker[w])'
  <2>1. WorkerFits(worker[w])
    BY DEF AskingInv, WorkersFit
  <2> QED
    BY <1>1, <1>3, <2>1 DEF WorkerFits, AttemptsOf
<1>6. RowsRecede
  BY <1>1 DEF RowsRecede
<1> QED
  BY <1>1, <1>4, <1>5, <1>6, HandlerMoves

(* Steps after which the worker holds and watches nothing more.            *)
LEMMA LeavesRightly ==
  ASSUME AskingInv, Alone, NEW w \in Workers, CancelNoRider(w) \/ ExpireOrder(w)
  PROVE  AsksRightly'
<1> USE TypeParts
<1>1. /\ UNCHANGED <<delivery, attempts, queue, request>>
      /\ worker[w].step \notin Hands \cup Watching
      /\ status' = [status EXCEPT ![worker[w].order] = "CANCELLED"] /\ Finish(w)
  BY DEF CancelNoRider, ExpireOrder, At, Hands, Watching
<1>2. worker'[w].step = "idle"
  BY <1>1, Finishes DEF AskingInv
<1>3. WorkerFits(worker[w])' /\ \A o, a : HasInHand(worker'[w], o, a) <=> HasInHand(worker[w], o, a)
  BY <1>1, <1>2 DEF WorkerFits, HasInHand, Hands
<1>4. RowsRecede
  <2>1. \A o \in Orders : status'[o] \in { "CANCELLED", status[o] }
    BY <1>1 DEF AskingInv, RowsTyped
  <2> QED
    BY <1>1, <2>1 DEF RowsRecede
<1> QED
  BY <1>1, <1>3, <1>4, HandlerMoves

(* After a timeout the failed attempts are counted again.                  *)
LEMMA RecountsRightly ==
  ASSUME AskingInv, Alone, NEW w \in Workers, RecountAfterTimeout(w)
  PROVE  AsksRightly'
<1> USE TypeParts
<1>1. /\ UNCHANGED <<status, delivery, attempts, queue, request>>
      /\ worker[w].step = "recount" /\ worker[w].step \notin Hands \cup Watching
  BY DEF RecountAfterTimeout, At, Hands, Watching
<1>0. PICK o \in Orders : o = worker[w].order
  BY DEF RecountAfterTimeout, At, AskingInv, WorkersTyped, WorkerHasOrder
<1>2. PICK step \in { "cancel", "pick" } : Goto(w, step) /\ (step = "cancel" => Exhausted(o))
  BY <1>0 DEF RecountAfterTimeout
<1>3. worker'[w].step = step /\ worker'[w].order = o
  BY <1>2, <1>0, GoesOn DEF AskingInv
<1>4. \A p, a : HasInHand(worker'[w], p, a) <=> HasInHand(worker[w], p, a)
  BY <1>1, <1>3 DEF HasInHand, Hands
<1>5. step = "cancel" => Cardinality(Asked(o)') >= MaxFailedAttempts
  BY <1>1, <1>2, ExhaustedWereAsked, OffersUntouched DEF AskingInv, RowsTyped
<1>6. WorkerFits(worker[w])'
  BY <1>3, <1>5 DEF WorkerFits, Hands
<1>7. RowsRecede
  BY <1>1 DEF RowsRecede
<1> QED
  BY <1>1, <1>4, <1>6, <1>7, HandlerMoves

(* The dispatch timeout looks at the order again, and takes it back.       *)
LEMMA ChecksRightly ==
  ASSUME AskingInv, Alone, NEW w \in Workers, CheckUnanswered(w)
  PROVE  AsksRightly'
<1> USE TypeParts
<1> DEFINE o == worker[w].order
<1>1. /\ UNCHANGED <<status, delivery, attempts, queue, request>>
      /\ worker[w].step = "check" /\ o \in Orders
  BY DEF CheckUnanswered, At, AskingInv, WorkersTyped, WorkerHasOrder
<1>2. \/ Goto(w, "reset")
      \/ Finish(w) /\ ~(status[o] = "RIDER_ASSIGNED" /\ delivery[o].status = "ASSIGNED")
  BY DEF CheckUnanswered
<1>3. worker'[w].step \in { "reset", "idle" } /\ (worker'[w].step = "reset" => worker'[w].order = o)
  BY <1>2, GoesOn, Finishes DEF AskingInv
<1>4. \A p, a : HasInHand(worker'[w], p, a) <=> HasInHand(worker[w], p, a)
  BY <1>1, <1>3 DEF HasInHand, Hands
<1>5. status[o] = "RIDER_ASSIGNED" => worker'[w].step = "reset"
  BY <1>1, <1>2, GoesOn DEF AskingInv, OrdersFit, OrderFits
<1>6. WorkerFits(worker[w])' /\ RowsRecede
  BY <1>1, <1>3 DEF WorkerFits, Hands, RowsRecede
<1>7. UnansweredIsWatched'
  <2> SUFFICES ASSUME NEW p \in Orders, status[p] = "RIDER_ASSIGNED" PROVE Watched(p)'
    BY <1>1, WatchedIsIt
  <2>1. CASE p = o
    BY <1>3, <1>5, <2>1 DEF Watched, TakesBack
  <2>2. CASE p # o
    <3>1. Watched(p) /\ attempts \in [Orders -> Seq(Attempt)]
      BY WatchedIsIt DEF AskingInv, RowsTyped
    <3>2. \A v \in Workers : worker[v].order # p
      BY <2>2 DEF Alone
    <3> QED
      BY <1>1, <3>1, <3>2, WatchKept DEF AttemptsOf
  <2> QED
    BY <2>1, <2>2
<1> QED
  BY <1>1, <1>4, <1>6, <1>7, HandlerMoves

(* The order goes back to waiting, without its rider.                      *)
LEMMA TakesBackRightly ==
  ASSUME AskingInv, Alone, NEW w \in Workers, TakeBackAssignment(w)
  PROVE  AsksRightly'
<1> USE TypeParts
<1> DEFINE o == worker[w].order
           row == [rider |-> NoRider, status |-> "PENDING_ASSIGNMENT"]
<1>1. /\ UNCHANGED <<attempts, queue, request>>
      /\ delivery' = [delivery EXCEPT ![o] = row]
      /\ status' = [status EXCEPT ![o] = "MERCHANT_ACCEPTED"]
      /\ worker[w].step = "reset" /\ o \in Orders /\ Goto(w, "recount")
  BY DEF TakeBackAssignment, At, AskingInv, WorkersTyped, WorkerHasOrder
<1>2. row.rider = NoRider /\ row.status # "NO_ROW"
  OBVIOUS
<1> HIDE DEF o, row
<1>3. /\ \A p \in Orders \ {o} : status'[p] = status[p] /\ delivery'[p] = delivery[p]
      /\ status'[o] = "MERCHANT_ACCEPTED" /\ delivery'[o] = row
  BY <1>1 DEF AskingInv, RowsTyped
<1>4. worker'[w].step = "recount"
  BY <1>1, GoesOn DEF AskingInv
<1>5. \A p, a : HasInHand(worker'[w], p, a) <=> HasInHand(worker[w], p, a)
  BY <1>1, <1>4 DEF HasInHand, Hands
<1>6. WorkerFits(worker[w])' /\ RowsRecede
  <2>1. WorkerFits(worker[w])'
    BY <1>4 DEF WorkerFits, Hands
  <2>2. RowsRecede
    BY <1>2, <1>3 DEF RowsRecede
  <2> QED
    BY <2>1, <2>2
<1>7. UnansweredIsWatched'
  <2> SUFFICES ASSUME NEW p \in Orders, status'[p] = "RIDER_ASSIGNED" PROVE Watched(p)'
    BY WatchedIsIt
  <2>1. p # o /\ status[p] = "RIDER_ASSIGNED" /\ delivery'[p] = delivery[p]
    BY <1>3
  <2>2. Watched(p) /\ attempts \in [Orders -> Seq(Attempt)]
    BY <2>1, WatchedIsIt DEF AskingInv, RowsTyped
  <2>3. \A v \in Workers : worker[v].order # p
    BY <2>1 DEF Alone, o
  <2> QED
    BY <1>1, <2>1, <2>2, <2>3, WatchKept DEF AttemptsOf
<1> QED
  BY <1>1, <1>5, <1>6, <1>7, HandlerMoves

(* The retry of an order is no timer.                                      *)
LEMMA RetriesRightly ==
  ASSUME AskingInv, Alone, NEW w \in Workers, RetryOrder(w)
  PROVE  AsksRightly'
<1> USE TypeParts
<1>1. /\ UNCHANGED <<status, delivery, attempts, request>>
      /\ worker[w].step \notin Hands \cup Watching
      /\ Finish(w) /\ Enqueue(AutoDispatch(worker[w].order))
      /\ attempts \in [Orders -> Seq(Attempt)]
  BY DEF RetryOrder, At, Hands, Watching, AskingInv, RowsTyped
<1>2. worker'[w].step = "idle"
  BY <1>1, Finishes DEF AskingInv
<1>3. WorkerFits(worker[w])' /\ \A o, a : HasInHand(worker'[w], o, a) <=> HasInHand(worker[w], o, a)
  BY <1>1, <1>2 DEF WorkerFits, HasInHand, Hands
<1>4. NoNewTimers /\ TimersKept
  BY <1>1, EnqueueIn, TimersDiffer DEF NoNewTimers, TimersKept
<1>5. RowsRecede
  BY <1>1 DEF RowsRecede
<1>6. TimersFit'
  BY <1>1, <1>3, <1>4, TimersStayFit DEF AskingInv
<1>7. UnansweredIsWatched'
  <2>1. \A v \in Workers : worker[v].step \in Watching => worker'[v] = worker[v]
    BY <1>1 DEF Alone
  <2> QED
    BY <1>1, <1>4, <1>5, <2>1, WatchStays DEF AskingInv
<1> QED
  BY <1>1, <1>3, <1>5, <1>6, <1>7, WorkerMoves

(* The timer is of the offer just made, and takes over the watch.          *)
LEMMA SchedulesRightly ==
  ASSUME AskingInv, Alone, NEW w \in Workers, ScheduleDispatchTimeout(w)
  PROVE  AsksRightly'
<1> USE TypeParts
<1>1. /\ UNCHANGED <<status, delivery, attempts, request>>
      /\ worker[w].step = "timer" /\ worker[w].step \notin Hands
      /\ attempts \in [Orders -> Seq(Attempt)]
  BY DEF ScheduleDispatchTimeout, At, Hands, AskingInv, RowsTyped
<1>2. PICK o \in Orders, a \in Nat : o = worker[w].order /\ a = worker[w].attempt
  BY DEF ScheduleDispatchTimeout, At, AskingInv, WorkersTyped, WorkerHasOrder, WorkerState
<1>3. Enqueue(DispatchTimeout(o, a)) /\ worker'[w].step = "idle"
  BY <1>2, Finishes DEF ScheduleDispatchTimeout, AskingInv
<1>4. \A p, b : HasInHand(worker'[w], p, b) <=> HasInHand(worker[w], p, b)
  BY <1>1, <1>3 DEF HasInHand, Hands
<1>5. WorkerFits(worker[w])' /\ RowsRecede
  BY <1>1, <1>3 DEF WorkerFits, Hands, RowsRecede
<1>6. a \in Offers(o)
  BY <1>1, <1>2 DEF AskingInv, WorkersFit, WorkerFits
<1>7. \A p, b : ~InHand(p, b) /\ ~InHand(p, b)'
  BY <1>1, <1>3, OnlyWorker DEF HasInHand, Hands
<1>8. \A p, b : BagIn(DispatchTimeout(p, b), queue') <=> BagIn(DispatchTimeout(p, b), queue) \/ (p = o /\ b = a)
  BY <1>3, EnqueueIn, TimersDiffer
<1>9. TimersFit'
  <2> SUFFICES ASSUME NEW p \in Orders, NEW b \in Nat, BagIn(DispatchTimeout(p, b), queue') PROVE b \in Offers(p)'
    BY <1>7 DEF TimersFit
  <2> QED
    BY <1>1, <1>6, <1>8, OffersUntouched DEF AskingInv, TimersFit
<1>10. UnansweredIsWatched'
  <2> SUFFICES ASSUME NEW p \in Orders, status[p] = "RIDER_ASSIGNED" PROVE Watched(p)'
    BY <1>1, WatchedIsIt
  <2>1. Watched(p) /\ \A v \in Workers : v = w
    BY WatchedIsIt DEF AskingInv, Alone
  <2>2. PICK b \in AttemptsOf(p) : WatchedBy(p, b)
    BY <1>1, <2>1 DEF Watched, TakesBack
  <2>3. BagIn(DispatchTimeout(p, b), queue')
    BY <1>2, <1>8, <2>1, <2>2 DEF WatchedBy, OnWatch
  <2>4. WatchedBy(p, b)' /\ b \in AttemptsOf(p)'
    BY <1>1, <2>2, <2>3 DEF WatchedBy, AttemptsOf
  <2> QED
    BY <2>4 DEF Watched
<1> QED
  BY <1>1, <1>4, <1>5, <1>9, <1>10, WorkerMoves

(* A worker that writes an outcome has nothing in hand afterwards.         *)
LEMMA OutcomeMoves ==
  ASSUME AskingInv, Alone, NEW w \in Workers, UNCHANGED <<status, delivery, queue, request>>, OffersRemain,
         worker'[w].step \in { "requeue", "check" },
         \A o \in Orders : \A a \in Offers(o)' : ~InHand(o, a),
         UnansweredIsWatched'
  PROVE  AsksRightly'
<1>1. RowsRecede
  BY DEF RowsRecede
<1>2. \A o, a : ~InHand(o, a)'
  BY OnlyWorker DEF HasInHand, Hands
<1>3. NeverAskedTwice'
  BY AskedStays DEF AskingInv
<1>4. WorkersFit'
  <2>1. WorkerFits(worker[w])'
    BY DEF WorkerFits, Hands
  <2> QED
    BY <2>1, OnlyWorker
<1>5. OrdersFit'
  BY <1>1, OrdersStayFit DEF AskingInv
<1>6. AnswersFit'
  <2> SUFFICES ASSUME NEW r \in Riders PROVE AnswerFits(r, request[r])'
    BY DEF AnswersFit
  <2>1. AnswerFits(r, request[r])
    BY DEF AskingInv, AnswersFit
  <2> QED
    BY <2>1, AnswerStaysFit
<1>7. TimersFit'
  BY <1>2 DEF AskingInv, TimersFit, OffersRemain
<1> QED
  BY <1>3, <1>4, <1>5, <1>6, <1>7 DEF AsksRightly

(* A failed attempt was in hand: no timer was set for it.                  *)
LEMMA FailsRightly ==
  ASSUME AskingInv, Alone, NEW w \in Workers, MarkAttemptFailed(w)
  PROVE  AsksRightly'
<1> USE TypeParts
<1>1. /\ UNCHANGED <<status, delivery, queue, request>>
      /\ worker[w].step = "failed" /\ worker[w].step \in Hands
      /\ attempts \in [Orders -> Seq(Attempt)]
  BY DEF MarkAttemptFailed, At, Hands, AskingInv, RowsTyped
<1>2. PICK o \in Orders, a \in Nat : o = worker[w].order /\ a = worker[w].attempt
  BY DEF MarkAttemptFailed, At, AskingInv, WorkersTyped, WorkerHasOrder, WorkerState
<1>3. SetOutcome(o, a, "failed") /\ worker'[w].step = "requeue"
  BY <1>2, GoesOn DEF MarkAttemptFailed, AskingInv
<1>4. /\ \A p, b : InHand(p, b) <=> p = o /\ b = a
      /\ \A p, b : ~InHand(p, b)'
  BY <1>1, <1>2, <1>3, OnlyWorker DEF HasInHand, Hands
<1>5. a \in AttemptsOf(o) /\ a \in Offers(o)
  <2>1. a \in AttemptsOf(o) /\ attempts[o][a] = [rider |-> worker[w].rider, outcome |-> "pending"]
    BY <1>1, <1>2 DEF AskingInv, WorkersFit, WorkerFits
  <2> QED
    BY <2>1 DEF Offers
<1>6. /\ \A p \in Orders : AttemptsOf(p)' = AttemptsOf(p)
      /\ \A p \in Orders : \A b \in AttemptsOf(p) : p # o \/ b # a => attempts'[p][b] = attempts[p][b]
      /\ attempts'[o][a].outcome = "failed"
  <2>1. attempts'[o][a] = [rider |-> attempts[o][a].rider, outcome |-> "failed"]
    BY <1>1, <1>3, <1>5, OneOutcome
  <2> QED
    BY <1>1, <1>3, <1>5, <2>1, OneOutcome
<1>7. OffersRemain
  BY <1>1, <1>3, <1>4, <1>5, OutcomeKeepsOffers
<1>8. \A p \in Orders : \A b \in Offers(p)' : ~InHand(p, b)
  BY <1>4, <1>6 DEF Offers
<1>9. UnansweredIsWatched'
  <2> SUFFICES ASSUME NEW p \in Orders, status[p] = "RIDER_ASSIGNED" PROVE Watched(p)'
    BY <1>1, WatchedIsIt
  <2>1. Watched(p) /\ \A v \in Workers : v = w
    BY WatchedIsIt DEF AskingInv, Alone
  <2>2. PICK b \in AttemptsOf(p) : WatchedBy(p, b) /\ BagIn(DispatchTimeout(p, b), queue)
    BY <1>1, <2>1 DEF Watched, WatchedBy, OnWatch, TakesBack
  <2>3. ~InHand(p, b)
    BY <1>1, <2>2, AttemptsNumbered DEF AskingInv, TimersFit
  <2>4. attempts'[p][b] = attempts[p][b] /\ b \in AttemptsOf(p)'
    BY <1>4, <1>6, <2>2, <2>3
  <2>5. WatchedBy(p, b)'
    BY <1>1, <2>2, <2>4 DEF WatchedBy
  <2> QED
    BY <2>4, <2>5 DEF Watched
<1> QED
  BY <1>1, <1>3, <1>7, <1>8, <1>9, OutcomeMoves

(* The timed-out offer stays an offer, and its order is in the worker's    *)
(* hands.                                                                  *)
LEMMA TimesOutRightly ==
  ASSUME AskingInv, Alone, NEW w \in Workers, MarkTimeout(w)
  PROVE  AsksRightly'
<1> USE TypeParts
<1>1. /\ UNCHANGED <<status, delivery, queue, request>>
      /\ worker[w].step = "mark" /\ worker[w].step \notin Hands
      /\ attempts \in [Orders -> Seq(Attempt)]
  BY DEF MarkTimeout, At, Hands, AskingInv, RowsTyped
<1>2. PICK o \in Orders, a \in Nat : o = worker[w].order /\ a = worker[w].attempt
  BY DEF MarkTimeout, At, AskingInv, WorkersTyped, WorkerHasOrder, WorkerState
<1>3. SetOutcome(o, a, "timeout") /\ worker'[w].step = "check" /\ worker'[w].order = o
  BY <1>2, GoesOn DEF MarkTimeout, AskingInv
<1>4. \A p, b : ~InHand(p, b) /\ ~InHand(p, b)'
  BY <1>1, <1>3, OnlyWorker DEF HasInHand, Hands
<1>5. a \in Offers(o) /\ a \in AttemptsOf(o)
  BY <1>1, <1>2 DEF AskingInv, WorkersFit, WorkerFits, Offers
<1>6. OffersRemain
  BY <1>1, <1>3, <1>4, <1>5, OutcomeKeepsOffers
<1>7. /\ \A p \in Orders : AttemptsOf(p)' = AttemptsOf(p)
      /\ \A p \in Orders : \A b \in AttemptsOf(p) : p # o \/ b # a => attempts'[p][b] = attempts[p][b]
  BY <1>1, <1>3, <1>5, OneOutcome
<1>8. UnansweredIsWatched'
  <2> SUFFICES ASSUME NEW p \in Orders, status[p] = "RIDER_ASSIGNED" PROVE Watched(p)'
    BY <1>1, WatchedIsIt
  <2>1. CASE p = o
    BY <1>3, <2>1 DEF Watched, TakesBack
  <2>2. CASE p # o
    <3>1. Watched(p)
      BY WatchedIsIt DEF AskingInv
    <3>2. \A v \in Workers : worker[v].order # p
      BY <1>2, <2>2 DEF Alone
    <3> QED
      BY <1>1, <1>7, <2>2, <3>1, <3>2, WatchKept
  <2> QED
    BY <2>1, <2>2
<1> QED
  BY <1>1, <1>3, <1>4, <1>6, <1>8, OutcomeMoves

(* One attempt more: the number it gets, and that the others stay.         *)
LEMMA AttemptAdded ==
  ASSUME attempts \in [Orders -> Seq(Attempt)], NEW o \in Orders, NEW e \in Attempt,
         attempts' = [attempts EXCEPT ![o] = Append(@, e)]
  PROVE  /\ \A p \in Orders \ {o} : attempts'[p] = attempts[p]
         /\ Len(attempts[o]) + 1 \notin AttemptsOf(o)
         /\ AttemptsOf(o)' = AttemptsOf(o) \cup { Len(attempts[o]) + 1 }
         /\ \A b \in AttemptsOf(o) : attempts'[o][b] = attempts[o][b]
         /\ attempts'[o][Len(attempts[o]) + 1] = e
<1> DEFINE s == attempts[o]
<1>1. s \in Seq(Attempt) /\ attempts'[o] = Append(s, e)
  OBVIOUS
<1>2. \A p \in Orders \ {o} : attempts'[p] = attempts[p]
  OBVIOUS
<1> HIDE DEF s
<1>3. /\ Len(s) \in Nat /\ DOMAIN s = 1 .. Len(s)
      /\ Append(s, e) \in Seq(Attempt) /\ Len(Append(s, e)) = Len(s) + 1
      /\ DOMAIN Append(s, e) = 1 .. Len(s) + 1
  BY <1>1, LenProperties, AppendProperties
<1>4. /\ \A b \in 1 .. Len(s) : Append(s, e)[b] = s[b]
      /\ Append(s, e)[Len(s) + 1] = e
  BY <1>1, AppendProperties
<1>5. AttemptsOf(o) = 1 .. Len(s) /\ AttemptsOf(o)' = 1 .. Len(s) + 1
  BY <1>1, <1>3 DEF AttemptsOf, s
<1> QED
  BY <1>1, <1>2, <1>3, <1>4, <1>5 DEF s

(* A new attempt is in the worker's hands, and asks somebody else.         *)
LEMMA CreatesRightly ==
  ASSUME AskingInv, Alone, NEW w \in Workers, CreateAttempt(w)
  PROVE  AsksRightly'
<1> USE TypeParts
<1>1. /\ UNCHANGED <<status, delivery, queue, request>>
      /\ worker[w].step = "create" /\ worker[w].step \notin Hands
      /\ attempts \in [Orders -> Seq(Attempt)]
  BY DEF CreateAttempt, At, Hands, AskingInv, RowsTyped
<1>2. PICK o \in Orders, r \in Riders : o = worker[w].order /\ r = worker[w].rider
  BY DEF CreateAttempt, At, AskingInv, WorkersTyped, WorkerHasOrder
<1> DEFINE e == [rider |-> r, outcome |-> "pending"]
           n == Len(attempts[o]) + 1
           q == [worker[w] EXCEPT !.attempt = n, !.step = "lock"]
<1>3. attempts' = [attempts EXCEPT ![o] = Append(@, e)] /\ worker' = [worker EXCEPT ![w] = q]
  BY <1>2 DEF CreateAttempt
<1>4. /\ e \in Attempt /\ e.rider = r /\ e.outcome = "pending"
      /\ q.step = "lock" /\ q.attempt = n /\ q.order = o /\ q.rider = r
  BY <1>2 DEF Attempt, Outcome, AskingInv, WorkersTyped, WorkerState
<1> HIDE DEF q
<1>5. worker'[w] = q
  BY <1>3 DEF AskingInv, WorkersTyped
<1>6. PICK a : a = n
  OBVIOUS
<1>7. /\ \A p \in Orders \ {o} : attempts'[p] = attempts[p]
      /\ a \notin AttemptsOf(o) /\ AttemptsOf(o)' = AttemptsOf(o) \cup {a}
      /\ \A b \in AttemptsOf(o) : attempts'[o][b] = attempts[o][b]
      /\ attempts'[o][a] = e
  <2> HIDE DEF e
  <2> QED
    BY <1>1, <1>3, <1>4, <1>6, AttemptAdded
<1> HIDE DEF n
<1>8. /\ \A p, b : ~InHand(p, b)
      /\ \A p, b : InHand(p, b)' <=> p = o /\ b = a
  BY <1>1, <1>4, <1>5, <1>6, OnlyWorker DEF HasInHand, Hands
<1>9. /\ \A p \in Orders \ {o} : Offers(p)' = Offers(p)
      /\ Offers(o)' = Offers(o) \cup {a} /\ a \notin Offers(o)
      /\ \A p \in Orders : \A b \in Offers(p) : attempts'[p][b] = attempts[p][b]
      /\ attempts'[o][a].rider = r
  <2>1. \A p \in Orders \ {o} : Offers(p)' = Offers(p)
    BY <1>7 DEF Offers, AttemptsOf
  <2>2. Offers(o)' = Offers(o) \cup {a}
    BY <1>4, <1>7 DEF Offers
  <2>3. \A p \in Orders : \A b \in Offers(p) : attempts'[p][b] = attempts[p][b]
    BY <1>7 DEF Offers
  <2> QED
    BY <1>4, <1>7, <2>1, <2>2, <2>3 DEF Offers
<1> HIDE DEF e
<1>10. \A b \in Offers(o) : attempts[o][b].rider # r
  BY <1>1, <1>2 DEF AskingInv, WorkersFit, WorkerFits, Asked
<1>11. NeverAskedTwice'
  <2> SUFFICES ASSUME NEW p \in Orders, NEW b \in Offers(p)', NEW c \in Offers(p)',
                      attempts'[p][b].rider = attempts'[p][c].rider
               PROVE  b = c
    BY DEF NeverAskedTwice
  <2>1. CASE b \in Offers(p) /\ c \in Offers(p)
    BY <1>9, <2>1 DEF AskingInv, NeverAskedTwice
  <2>2. CASE ~(b \in Offers(p) /\ c \in Offers(p))
    BY <1>9, <1>10, <2>2
  <2> QED
    BY <2>1, <2>2
<1>12. WorkersFit'
  <2>1. attempts'[o][a] = [rider |-> r, outcome |-> "pending"] /\ a \in AttemptsOf(o)'
    BY <1>7 DEF e
  <2>2. WorkerFits(worker[w])'
    BY <1>4, <1>5, <1>6, <2>1 DEF WorkerFits, AttemptsOf
  <2> QED
    BY <2>2, OnlyWorker
<1>13. \A p \in Orders, s \in Riders : WasAsked(p, s) => WasAsked(p, s)'
  BY <1>8, <1>9 DEF WasAsked
<1>14. OrdersFit'
  <2> SUFFICES ASSUME NEW p \in Orders PROVE OrderFits(p)'
    BY DEF OrdersFit
  <2>1. OrderFits(p)
    BY DEF AskingInv, OrdersFit
  <2>2. (delivery[p].status = "NO_ROW" => \A b \in Offers(p) : InHand(p, b))'
    BY <1>1, <1>8, <1>9, <2>1 DEF OrderFits
  <2>3. (delivery[p].rider # NoRider => WasAsked(p, delivery[p].rider))'
    <3>1. PICK s \in Riders \cup { NoRider } : s = delivery[p].rider /\ s = delivery'[p].rider
      BY <1>1 DEF AskingInv, RowsTyped
    <3>2. s # NoRider => WasAsked(p, s)'
      BY <1>13, <2>1, <3>1 DEF OrderFits
    <3> QED
      BY <3>1, <3>2
  <2> QED
    BY <1>1, <2>1, <2>2, <2>3 DEF OrderFits
<1>15. AnswersFit'
  <2> SUFFICES ASSUME NEW s \in Riders PROVE AnswerFits(s, request[s])'
    BY DEF AnswersFit
  <2>1. AnswerFits(s, request[s])
    BY DEF AskingInv, AnswersFit
  <2>2. PICK x : x = request[s] /\ x = request'[s]
    BY <1>1
  <2>3. AnswerFits(s, x)
    BY <2>1, <2>2
  <2>4. AnswerFits(s, x)'
    BY <1>1, <1>8, <1>9, <1>13, <2>3 DEF AnswerFits
  <2> QED
    BY <2>2, <2>4 DEF AnswerFits
<1>16. TimersFit'
  BY <1>1, <1>8, <1>9 DEF AskingInv, TimersFit
<1>17. UnansweredIsWatched'
  <2> SUFFICES ASSUME NEW p \in Orders, status[p] = "RIDER_ASSIGNED" PROVE Watched(p)'
    BY <1>1, WatchedIsIt
  <2>1. Watched(p)
    BY WatchedIsIt DEF AskingInv
  <2>2. \A v \in Workers : worker[v].step \notin Watching
    BY <1>1 DEF Alone, Watching
  <2>3. \A b \in AttemptsOf(p) : b \in AttemptsOf(p)' /\ attempts'[p][b] = attempts[p][b]
    BY <1>7 DEF AttemptsOf
  <2> QED
    BY <1>1, <2>1, <2>2, <2>3, WatchKept
<1> QED
  BY <1>11, <1>12, <1>14, <1>15, <1>16, <1>17 DEF AsksRightly

(* The assignment is committed: the offer leaves the worker's hands, and   *)
(* the order waits for a rider who was not asked before.                   *)
LEMMA AssignsRightly ==
  ASSUME AskingInv, Alone, NEW w \in Workers, CommitAssignment(w)
  PROVE  AsksRightly'
<1> USE TypeParts
<1>1. /\ UNCHANGED <<attempts, queue, request>>
      /\ worker[w].step = "write" /\ worker[w].step \in Hands
      /\ attempts \in [Orders -> Seq(Attempt)]
  BY DEF CommitAssignment, At, Hands, AskingInv, RowsTyped
<1>2. PICK o \in Orders, r \in Riders, a \in Nat :
        o = worker[w].order /\ r = worker[w].rider /\ a = worker[w].attempt
  BY DEF CommitAssignment, At, AskingInv, WorkersTyped, WorkerHasOrder, WorkerState
<1> DEFINE row == [rider |-> r, status |-> "ASSIGNED"]
<1>3. /\ delivery' = [delivery EXCEPT ![o] = row]
      /\ status' = [status EXCEPT ![o] = "RIDER_ASSIGNED"] /\ Goto(w, "timer")
  BY <1>2 DEF CommitAssignment
<1>4. row.rider = r /\ row.status = "ASSIGNED"
  OBVIOUS
<1> HIDE DEF row
<1>5. /\ \A p \in Orders \ {o} : status'[p] = status[p] /\ delivery'[p] = delivery[p]
      /\ status'[o] = "RIDER_ASSIGNED" /\ delivery'[o] = row
  BY <1>3 DEF AskingInv, RowsTyped
<1>6. worker'[w].step = "timer" /\ worker'[w].order = o /\ worker'[w].attempt = a
  BY <1>2, <1>3, GoesOn DEF AskingInv
<1>7. /\ a \in AttemptsOf(o) /\ a \in Offers(o)
      /\ attempts[o][a] = [rider |-> r, outcome |-> "pending"] /\ attempts[o][a].rider = r
  <2>1. a \in AttemptsOf(o) /\ attempts[o][a] = [rider |-> r, outcome |-> "pending"]
    BY <1>1, <1>2 DEF AskingInv, WorkersFit, WorkerFits
  <2> QED
    BY <2>1 DEF Offers
<1>8. /\ \A p, b : InHand(p, b) <=> p = o /\ b = a
      /\ \A p, b : ~InHand(p, b)'
  BY <1>1, <1>2, <1>6, OnlyWorker DEF HasInHand, Hands
<1>9. OffersRemain
  BY <1>1, <1>8 DEF OffersRemain, Offers, AttemptsOf
<1>10. NeverAskedTwice'
  BY <1>9, AskedStays DEF AskingInv
<1>11. WorkersFit'
  <2>1. a \in Offers(o)'
    BY <1>1, <1>7, OffersUntouched
  <2>2. WorkerFits(worker[w])'
    BY <1>6, <2>1 DEF WorkerFits, Hands
  <2> QED
    BY <2>2, OnlyWorker
<1>12. \A b \in Offers(o) : attempts[o][b].rider = r => b = a
  BY <1>7 DEF AskingInv, NeverAskedTwice
<1>13. ~WasAsked(o, r)
  BY <1>8, <1>12 DEF WasAsked
<1>14. OrdersFit'
  <2> SUFFICES ASSUME NEW p \in Orders PROVE OrderFits(p)'
    BY DEF OrdersFit
  <2>1. OrderFits(p)
    BY DEF AskingInv, OrdersFit
  <2>2. CASE p = o
    <3>1. WasAsked(o, r)'
      <4>1. a \in Offers(o)' /\ attempts'[o][a].rider = r
        BY <1>1, <1>7, OffersUntouched
      <4> QED
        BY <1>8, <4>1 DEF WasAsked
    <3> QED
      BY <1>4, <1>5, <2>2, <3>1 DEF OrderFits
  <2>3. CASE p # o
    <3>1. delivery[p].status = "NO_ROW" => Offers(p)' = {}
      BY <1>1, <1>8, <2>1, <2>3, OffersUntouched DEF OrderFits
    <3>2. PICK s \in Riders \cup { NoRider } : s = delivery[p].rider /\ s = delivery'[p].rider
      BY <1>5, <2>3 DEF AskingInv, RowsTyped
    <3>3. s # NoRider => WasAsked(p, s)'
      BY <1>9, <2>1, <3>2, AskedStays DEF OrderFits
    <3> QED
      BY <1>5, <2>1, <2>3, <3>1, <3>2, <3>3 DEF OrderFits
  <2> QED
    BY <2>2, <2>3
<1>15. AnswersFit'
  <2> SUFFICES ASSUME NEW s \in Riders PROVE AnswerFits(s, request[s])'
    BY DEF AnswersFit
  <2>1. AnswerFits(s, request[s]) /\ request'[s] = request[s]
    BY <1>1 DEF AskingInv, AnswersFit
  <2>2. ASSUME NEW p \in Orders, WasAsked(p, s), status'[p] = "RIDER_ASSIGNED", delivery'[p].rider = s
        PROVE  status[p] = "RIDER_ASSIGNED" /\ delivery[p].rider = s
    BY <1>4, <1>5, <1>13, <2>2
  <2> QED
    BY <1>9, <2>1, <2>2, AnswerStaysFit
<1>16. TimersFit'
  <2>1. NoNewTimers /\ \A p, b : HasInHand(worker'[w], p, b) => HasInHand(worker[w], p, b)
    BY <1>1, <1>6 DEF NoNewTimers, HasInHand, Hands
  <2> QED
    BY <1>1, <2>1, TimersStayFit DEF AskingInv
<1>17. UnansweredIsWatched'
  <2> SUFFICES ASSUME NEW p \in Orders, status'[p] = "RIDER_ASSIGNED" PROVE Watched(p)'
    BY WatchedIsIt
  <2>1. CASE p = o
    <3>1. a \in AttemptsOf(o)' /\ attempts'[o][a] = [rider |-> delivery'[o].rider, outcome |-> "pending"]
      BY <1>1, <1>4, <1>5, <1>7 DEF AttemptsOf
    <3>2. OnWatch(worker'[w], o, a)
      BY <1>6 DEF OnWatch
    <3> QED
      BY <2>1, <3>1, <3>2 DEF Watched, WatchedBy
  <2>2. CASE p # o
    <3>1. Watched(p) /\ delivery'[p] = delivery[p]
      BY <1>5, <2>2, WatchedIsIt DEF AskingInv
    <3>2. \A v \in Workers : worker[v].order # p
      BY <1>2, <2>2 DEF Alone
    <3> QED
      BY <1>1, <3>1, <3>2, WatchKept DEF AttemptsOf
  <2> QED
    BY <2>1, <2>2
<1> QED
  BY <1>10, <1>11, <1>14, <1>15, <1>16, <1>17 DEF AsksRightly

-----------------------------------------------------------------------------
(* Nobody was asked yet when the system starts.                            *)
LEMMA AskingInit == ASSUME Init PROVE AskingInv
<1>1. \A o \in Orders : Offers(o) = {}
  BY DEF Init, Offers, AttemptsOf
<1>2. TypeInv
  BY TypeInit
<1>3. NeverAskedTwice /\ WorkersFit
  BY <1>1 DEF Init, NeverAskedTwice, WorkersFit, WorkerFits, Hands, IdleWorker
<1>4. OrdersFit
  BY <1>1 DEF Init, OrdersFit, OrderFits
<1>5. AnswersFit
  BY DEF Init, AnswersFit, AnswerFits, Clients, IdleRequest
<1>6. TimersFit
  BY DEF Init, TimersFit, BagIn, BagToSet, EmptyBag, SetToBag
<1>7. UnansweredIsWatched
  BY DEF Init, UnansweredIsWatched
<1> QED
  BY <1>2, <1>3, <1>4, <1>5, <1>6, <1>7 DEF AskingInv

(* Every step keeps the invariant.                                         *)
LEMMA AskingStep == Alone /\ AskingInv /\ [Next]_vars => AskingInv'
<1> SUFFICES ASSUME Alone, AskingInv, [Next]_vars PROVE AskingInv'
  OBVIOUS
<1>1. TypeInv'
  BY TypeStep DEF AskingInv
<1>2. CASE UNCHANGED vars
  <2>1. /\ UNCHANGED <<status, delivery, attempts, queue, worker, request>>
    BY <1>2 DEF vars
  <2>2. RowsRecede /\ TimersKept /\ NoNewTimers /\ OffersRemain
    BY <2>1, RequestsLeaveOffers DEF RowsRecede, TimersKept, NoNewTimers
  <2>3. AnswersFit'
    <3> SUFFICES ASSUME NEW r \in Riders PROVE AnswerFits(r, request[r])'
      BY DEF AnswersFit
    <3>1. AnswerFits(r, request[r]) /\ request'[r] = request[r]
      BY <2>1 DEF AskingInv, AnswersFit
    <3> QED
      BY <2>2, <3>1, AnswerStaysFit DEF RowsRecede
  <2>4. AsksRightly'
    BY <2>1, <2>2, <2>3, RequestMoves
  <2> QED
    BY <1>1, <2>4 DEF AskingInv, AsksRightly
<1>3. CASE RequestBegins
  BY <1>1, <1>3, BeginsRightly DEF AskingInv, AsksRightly
<1>4. ASSUME NEW c \in Clients, Commit(c) \/ AfterCommit(c) \/ RequestFault(c) PROVE AsksRightly'
  <2>1. ~RequestFault(c)
    BY DEF Alone, RequestFault, EnqueueFails, RequestDies
  <2> QED
    BY <1>4, <2>1, CommitsRightly, FollowsUpRightly
<1>5. ASSUME NEW w \in Workers, TakesJob(w) \/ Runs(w) \/ WorkerFault(w) PROVE AsksRightly'
  <2>1. ~WorkerFault(w)
    BY DEF Alone, WorkerFault, AbortAssignment, WorkerDies
  <2>2. Runs(w) => AsksRightly'
    BY PicksRightly, CreatesRightly, LocksRightly, AssignsRightly, SchedulesRightly, FailsRightly,
       LeavesRightly, TimesOutRightly, ChecksRightly, TakesBackRightly, RecountsRightly, RetriesRightly
    DEF Runs
  <2> QED
    BY <1>5, <2>1, <2>2, TakesRightly
<1>6. CASE Next
  BY <1>1, <1>3, <1>4, <1>5, <1>6 DEF Next, AskingInv, AsksRightly
<1> QED
  BY <1>2, <1>6

(* So it holds throughout.                                                 *)
LEMMA AskingHolds == ASSUME Alone PROVE Spec => []AskingInv
<1>1. Init => AskingInv
  BY AskingInit
<1>2. AskingInv /\ [Next]_vars => AskingInv'
  BY AskingStep
<1> QED
  BY <1>1, <1>2, PTL DEF Spec

(* No rider is asked about the same order twice: getTriedRiderIds sees all *)
(* earlier offers, and the scan for a rider who comes online finds only    *)
(* orders that were offered to nobody.                                     *)
THEOREM NobodyAskedTwice == ASSUME Alone PROVE Spec => []NeverAskedTwice
<1>1. AskingInv => NeverAskedTwice
  BY DEF AskingInv
<1> QED
  BY <1>1, AskingHolds, PTL

(* An assignment nobody has answered always has its pending attempt and    *)
(* the timeout that will take it back, queued or in the worker's hands:    *)
(* the rows assignAndNotify commits are followed by the job it enqueues    *)
(* after, and only handleRiderDispatchTimeout uses it up.                  *)
THEOREM AssignmentsWatched == ASSUME Alone PROVE Spec => []UnansweredIsWatched
<1>1. AskingInv => UnansweredIsWatched
  BY DEF AskingInv
<1> QED
  BY <1>1, AskingHolds, PTL

(* cancelOrderNoRider: MAX_FAILED_ATTEMPTS failed attempts are as many     *)
(* different riders.                                                       *)
THEOREM GivenUpAfterAsking == ASSUME Alone PROVE Spec => GivenUpOnlyAfterAsking
<1> DEFINE A == \A w \in Workers :
                  (worker[w].step = "cancel" /\ status' # status) =>
                    Cardinality({ attempts[worker[w].order][a].rider :
                                    a \in Offers(worker[w].order) }) >= MaxFailedAttempts
<1>1. AskingInv => A
  BY DEF AskingInv, WorkersFit, WorkerFits, Asked
<1>2. AskingInv /\ [Next]_vars => [A]_vars
  BY <1>1
<1>3. Spec => []AskingInv
  BY AskingHolds
<1> QED
  BY <1>2, <1>3, PTL DEF Spec, GivenUpOnlyAfterAsking

-----------------------------------------------------------------------------
(* The rows of an order.                                                    *)

(* What the code is asked to guarantee: a handler's read and its write are *)
(* not separated by another handler's, and the admin endpoint is not used. *)
Disciplined == ~SplitRequests /\ "adminAssign" \notin DeskOps

-----------------------------------------------------------------------------
(* The inductive invariant.                                                *)

(* A worker in the transaction holds the lock of its rider, and once it    *)
(* has counted no order the rider has none.                                *)
ClaimOf(w) ==
  /\ worker[w].step \in { "count", "write" } => lock[worker[w].rider] = w
  /\ worker[w].step = "write" => ActiveOrders(worker[w].rider) = {}

LockHeld == \A w \in Workers : ClaimOf(w)

(* One request at most is between its read and its commit, and what a      *)
(* rider's handler checked still holds.                                    *)
Quiet == \A c \in Clients : request[c].step # "commit"

(* What a desk's handler found, as far as its write relies on it. *)
DeskReadHolds(q) ==
  /\ q.order \in Orders
  /\ q.op = "merchantAccept" => status[q.order] = "PLACED"
  /\ q.op = "markPreparing" => status[q.order] = "RIDER_ACCEPTED"
  /\ q.op = "markReady" => status[q.order] = "PREPARING"
  /\ q.op = "adminAssign" => q.rider \in Riders

ReadStillTrue ==
  /\ \A c, d \in Clients :
       request[c].step = "commit" /\ request[d].step = "commit" => c = d
  /\ \A r \in Riders :
       request[r].step = "commit" /\ request[r].op \in RiderOps =>
         /\ delivery[request[r].order].rider = r
         /\ RiderMay(request[r].op, status[request[r].order],
                     delivery[request[r].order].status)
  /\ \A d \in Desks : request[d].step = "commit" => DeskReadHolds(request[d])

BookingInv == TypeInv /\ LockHeld /\ ReadStillTrue /\ NoDoubleBooking

-----------------------------------------------------------------------------
(* Every step of a worker waits until no request is between read and       *)
(* commit, and leaves the requests alone.                                  *)
LEMMA WorkerStepsAreQuiet ==
  ASSUME ~SplitRequests, NEW w \in Workers, TakesJob(w) \/ Runs(w) \/ WorkerFault(w)
  PROVE  Quiet /\ UNCHANGED request
<1>1. MayInterleave /\ UNCHANGED request
  <2>1. CASE TakesJob(w)
    BY <2>1 DEF TakesJob, StartAutoDispatch, StartRiderTimeout, StartDispatchTimeout,
                StartScanForRider, Take, At
  <2>2. CASE Runs(w)
    BY <2>2 DEF Runs, PickRider, CreateAttempt, AcquireRiderLock, CountActive,
                CommitAssignment, ScheduleDispatchTimeout, MarkAttemptFailed, RetryOrder,
                CancelNoRider, MarkTimeout, CheckUnanswered, TakeBackAssignment,
                RecountAfterTimeout, ExpireOrder, At
  <2>3. CASE WorkerFault(w)
    BY <2>3 DEF WorkerFault, AbortAssignment, WorkerDies
  <2> QED
    BY <2>1, <2>2, <2>3
<1> QED
  BY <1>1 DEF MayInterleave, Quiet

(* A request begins while no other is between read and commit.             *)
LEMMA OneReads ==
  ASSUME Quiet, NEW c \in Clients, NEW op, NEW o, NEW r, ReadFor(c, op, o, r), RequestsTyped
  PROVE  /\ request'[c].op = op /\ request'[c].order = o /\ request'[c].rider = r
         /\ \A d \in Clients : request'[d].step = "commit" => d = c
<1> DEFINE q == [op |-> op, order |-> o, rider |-> r, attempt |-> 0, step |-> "commit"]
<1>1. q.op = op /\ q.order = o /\ q.rider = r
  OBVIOUS
<1>2. request' = [request EXCEPT ![c] = q]
  BY DEF ReadFor
<1> HIDE DEF q
<1>3. request'[c] = q /\ \A d \in Clients \ {c} : request'[d] = request[d]
  BY <1>2 DEF RequestsTyped
<1> QED
  BY <1>1, <1>3 DEF Quiet

(* What a handler has read is still true when it commits.                  *)
LEMMA ReadStays ==
  ASSUME ~SplitRequests, TypeInv, ReadStillTrue, Next
  PROVE  ReadStillTrue'
<1>1. ASSUME Quiet' PROVE ReadStillTrue'
  BY <1>1 DEF Quiet, ReadStillTrue, Clients
<1> USE TypeParts
<1>2. CASE RequestBegins
  <2>1. Quiet
    BY <1>2 DEF RequestBegins, BeginGoOnline, GoOffline, RepeatAccept, BeginRiderAction,
                BeginDeskAction, MayBegin, MayInterleave, Quiet
  <2>2. ASSUME NEW r \in Riders, BeginGoOnline(r) PROVE ReadStillTrue'
    <3>1. r \in Clients /\ r \notin Desks
      BY ConstantsAssumption DEF Clients
    <3>2. request'[r].op = "goOnline" /\ \A d \in Clients : request'[d].step = "commit" => d = r
      BY <2>1, <2>2, <3>1, OneReads DEF BeginGoOnline
    <3> QED
      BY <3>1, <3>2 DEF ReadStillTrue, Clients, RiderOps
  <2>3. ASSUME NEW r \in Riders, GoOffline(r) PROVE ReadStillTrue'
    BY <2>1, <2>3, <1>1 DEF GoOffline, Quiet
  <2>4. ASSUME NEW r \in Riders, NEW o \in Orders, RepeatAccept(r, o) PROVE ReadStillTrue'
    BY <2>1, <2>4, <1>1 DEF RepeatAccept, Quiet, RequestsTyped, Clients
  <2>5. ASSUME NEW r \in Riders, NEW o \in Orders, NEW op \in RiderOps,
               BeginRiderAction(r, op, o)
        PROVE  ReadStillTrue'
    <3>1. r \in Clients /\ r \notin Desks
      BY ConstantsAssumption DEF Clients
    <3>2. /\ request'[r].op = op /\ request'[r].order = o
          /\ \A d \in Clients : request'[d].step = "commit" => d = r
      BY <2>1, <2>5, <3>1, OneReads DEF BeginRiderAction
    <3> QED
      BY <2>5, <3>1, <3>2 DEF ReadStillTrue, Clients, BeginRiderAction
  <2>6. ASSUME NEW d \in Desks, NEW op \in DeskOps, NEW o \in Orders,
               BeginDeskAction(d, op, o)
        PROVE  ReadStillTrue'
    <3>1. PICK r : /\ ReadFor(d, op, o, r) /\ DeskMay(op, o, r)
                   /\ op = "adminAssign" => r \in Riders
      BY <2>6 DEF BeginDeskAction
    <3>2. UNCHANGED <<status, delivery>>
      BY <2>6 DEF BeginDeskAction
    <3>3. d \in Clients /\ d \notin Riders
      BY ConstantsAssumption DEF Clients
    <3>4. /\ request'[d].op = op /\ request'[d].order = o /\ request'[d].rider = r
          /\ \A c \in Clients : request'[c].step = "commit" => c = d
      BY <2>1, <3>1, <3>3, OneReads
    <3>5. /\ op = "merchantAccept" => status[o] = "PLACED"
          /\ op = "markPreparing" => status[o] = "RIDER_ACCEPTED"
          /\ op = "markReady" => status[o] = "PREPARING"
      BY <3>1 DEF DeskMay, PreparableFrom
    <3>6. DeskReadHolds(request[d])'
      BY <3>1, <3>2, <3>4, <3>5 DEF DeskReadHolds
    <3> QED
      BY <3>3, <3>4, <3>6 DEF ReadStillTrue, Clients
  <2> QED
    BY <1>2, <2>2, <2>3, <2>4, <2>5, <2>6 DEF RequestBegins
<1>3. ASSUME NEW c \in Clients, Commit(c) PROVE ReadStillTrue'
  <2>1. PICK next : next.step # "commit" /\ request' = [request EXCEPT ![c] = next]
    <3>1. CASE \E step : step # "commit" /\ Proceed(c, step)
      <4>1. PICK step : step # "commit" /\ Proceed(c, step)
        BY <3>1
      <4>2. request[c] \in RequestState
        BY DEF RequestsTyped
      <4> DEFINE next == [request[c] EXCEPT !.step = step]
      <4>3. next.step # "commit"
        BY <4>1, <4>2 DEF RequestState
      <4>4. request' = [request EXCEPT ![c] = next]
        BY <4>1 DEF Proceed
      <4> QED
        BY <4>3, <4>4
    <3>2. CASE Done(c)
      BY <3>2 DEF Done, IdleRequest
    <3> QED
      BY <1>3, <3>1, <3>2 DEF Commit, CommitRiderAction, CommitGoOnline, CommitDeskAction
  <2>2. request[c].step = "commit"
    BY <1>3 DEF Commit, CommitRiderAction, CommitGoOnline, CommitDeskAction
  <2>3. Quiet'
    BY <2>1, <2>2 DEF Quiet, ReadStillTrue, RequestsTyped
  <2> QED
    BY <2>3, <1>1
<1>4. ASSUME NEW c \in Clients, AfterCommit(c) PROVE ReadStillTrue'
  <2>1. Quiet
    BY <1>4 DEF AfterCommit, FindAttempt, ResolveAttempt, EnqueueFollowUp,
                EnqueueRiderTimeout, After, MayInterleave, Quiet
  <2>2. CASE \E step : step # "commit" /\ Proceed(c, step)
    BY <2>1, <2>2, <1>1 DEF Proceed, Quiet, RequestsTyped, RequestState
  <2>3. CASE Done(c)
    BY <2>1, <2>3, <1>1 DEF Done, IdleRequest, Quiet, RequestsTyped
  <2>4. CASE \E latest : request' = [request EXCEPT ![c].attempt = latest,
                                                    ![c].step = "resolve"]
    <3>1. PICK latest : request' = [request EXCEPT ![c].attempt = latest,
                                                   ![c].step = "resolve"]
      BY <2>4
    <3> DEFINE next == [request[c] EXCEPT !.attempt = latest, !.step = "resolve"]
    <3>2. request[c] \in RequestState
      BY DEF RequestsTyped
    <3>3. next.step = "resolve"
      BY <3>2 DEF RequestState
    <3>4. request' = [request EXCEPT ![c] = next]
      BY <3>1
    <3> HIDE DEF next
    <3> QED
      BY <2>1, <3>3, <3>4, <1>1 DEF Quiet, RequestsTyped
  <2> QED
    BY <1>4, <2>2, <2>3, <2>4 DEF AfterCommit, FindAttempt, ResolveAttempt, AfterResolve,
                                  EnqueueFollowUp, EnqueueRiderTimeout
<1>5. ASSUME NEW c \in Clients, RequestFault(c) PROVE ReadStillTrue'
  <2>1. UNCHANGED <<status, delivery>>
    BY <1>5 DEF RequestFault, EnqueueFails, RequestDies
  <2>2. \A d \in Clients : request'[d].step = "commit" => request'[d] = request[d]
    BY <1>5 DEF RequestFault, EnqueueFails, RequestDies, Proceed, Done, IdleRequest,
                RequestsTyped, RequestState
  <2> QED
    BY <2>1, <2>2 DEF ReadStillTrue, DeskReadHolds, Clients
<1>6. ASSUME NEW w \in Workers, TakesJob(w) \/ Runs(w) \/ WorkerFault(w)
      PROVE  ReadStillTrue'
  BY <1>6, <1>1, WorkerStepsAreQuiet DEF Quiet
<1> QED
  BY <1>2, <1>3, <1>4, <1>5, <1>6 DEF Next

-----------------------------------------------------------------------------
(* Who writes a delivery: apart from assignments, a step leaves every      *)
(* order with the rider who held it, or takes one order from its rider.    *)

OnlyReleases ==
  \/ UNCHANGED delivery
  \/ \E o \in Orders : /\ \A p \in Orders \ {o} : delivery'[p] = delivery[p]
                       /\ Holder(o)' \in { NoRider, Holder(o) }

(* The orders a rider is counted on are the orders he holds. *)
LEMMA ActiveIsHeld ==
  /\ \A r \in Riders, o \in Orders : o \in ActiveOrders(r) <=> Holder(o) = r
  /\ \A r \in Riders, o \in Orders : (o \in ActiveOrders(r))' <=> Holder(o)' = r
BY ConstantsAssumption DEF ActiveOrders, Holder

(* Releasing never adds to what a rider is on. *)
LEMMA ReleasesShrink ==
  ASSUME OnlyReleases, NEW r \in Riders
  PROVE  ActiveOrders(r)' \subseteq ActiveOrders(r)
<1>1. SUFFICES ASSUME NEW p \in Orders, Holder(p)' = r PROVE Holder(p) = r
  BY <1>1, ActiveIsHeld DEF ActiveOrders
<1>2. CASE UNCHANGED delivery
  BY <1>1, <1>2 DEF Holder
<1>3. ASSUME NEW o \in Orders, \A q \in Orders \ {o} : delivery'[q] = delivery[q],
             Holder(o)' \in { NoRider, Holder(o) }
      PROVE  Holder(p) = r
  <2>1. CASE p = o
    BY <1>1, <1>3, <2>1, ConstantsAssumption
  <2>2. CASE p # o
    BY <1>1, <1>3, <2>2 DEF Holder
  <2> QED
    BY <2>1, <2>2
<1> QED
  BY <1>2, <1>3 DEF OnlyReleases

(* A worker's steps other than the assignment release at most. *)
LEMMA WorkersRelease ==
  ASSUME TypeInv, NEW w \in Workers, TakesJob(w) \/ Runs(w) \/ WorkerFault(w),
         ~CommitAssignment(w)
  PROVE  OnlyReleases
<1>1. CASE TakeBackAssignment(w)
  <2>1. PICK o \in Orders :
          delivery' = [delivery EXCEPT ![o] =
                         [rider |-> NoRider, status |-> "PENDING_ASSIGNMENT"]]
    BY <1>1 DEF TakeBackAssignment, At, TypeInv, WorkerHasOrder
  <2>2. Holder(o)' = NoRider
    BY <2>1 DEF Holder, ActiveDelivery, TypeInv, TypeOK
  <2>3. \A p \in Orders \ {o} : delivery'[p] = delivery[p]
    BY <2>1 DEF TypeInv, TypeOK
  <2> QED
    BY <2>2, <2>3 DEF OnlyReleases
<1>2. CASE ~TakeBackAssignment(w)
  <2>1. UNCHANGED delivery
    <3>1. CASE TakesJob(w)
      BY <3>1 DEF TakesJob, StartAutoDispatch, StartRiderTimeout, StartDispatchTimeout,
                  StartScanForRider
    <3>2. CASE Runs(w)
      BY <1>2, <3>2 DEF Runs, PickRider, CreateAttempt, AcquireRiderLock, CountActive,
                  ScheduleDispatchTimeout, MarkAttemptFailed, RetryOrder, CancelNoRider,
                  MarkTimeout, CheckUnanswered, RecountAfterTimeout, ExpireOrder
    <3>3. CASE WorkerFault(w)
      BY <3>3 DEF WorkerFault, AbortAssignment, WorkerDies
    <3> QED
      BY <3>1, <3>2, <3>3
  <2> QED
    BY <2>1 DEF OnlyReleases
<1> QED
  BY <1>1, <1>2

(* A request's steps release at most: what a rider's handler writes keeps  *)
(* an active delivery with the rider who had it, because the handler's     *)
(* check still holds, and the desk writes deliveries only in adminAssign.  *)
LEMMA RequestsRelease ==
  ASSUME Disciplined, TypeInv, ReadStillTrue,
         \/ RequestBegins
         \/ \E c \in Clients : Commit(c) \/ AfterCommit(c) \/ RequestFault(c)
  PROVE  OnlyReleases
<1>1. CASE RequestBegins
  BY <1>1 DEF RequestBegins, BeginGoOnline, GoOffline, RepeatAccept, BeginRiderAction,
              BeginDeskAction, OnlyReleases
<1>2. ASSUME NEW c \in Clients, AfterCommit(c) \/ RequestFault(c) PROVE OnlyReleases
  BY <1>2 DEF AfterCommit, FindAttempt, ResolveAttempt, EnqueueFollowUp,
              EnqueueRiderTimeout, RequestFault, EnqueueFails, RequestDies, OnlyReleases
<1>3. ASSUME NEW r \in Riders, CommitRiderAction(r) PROVE OnlyReleases
  <2>1. request[r].order \in Orders
    BY <1>3 DEF CommitRiderAction, TypeInv, RequestHasOrder, Clients
  <2>2. PICK o \in Orders : o = request[r].order
    BY <2>1
  <2>3. delivery[o].status \in ActiveDelivery
    BY <1>3, <2>2 DEF CommitRiderAction, ReadStillTrue, RiderMay, ActiveDelivery
  <2> DEFINE target == RiderTarget[request[r].op].delivery
             rider == IF target = "PENDING_ASSIGNMENT" THEN NoRider ELSE delivery[o].rider
             row == [rider |-> rider, status |-> target]
  <2>4. delivery' = [delivery EXCEPT ![o] = row]
    BY <1>3, <2>2 DEF CommitRiderAction
  <2>5. row.rider \in { NoRider, delivery[o].rider }
    OBVIOUS
  <2> HIDE DEF row
  <2>6. Holder(o)' \in { NoRider, Holder(o) }
    BY <2>3, <2>4, <2>5 DEF Holder, TypeInv, TypeOK
  <2>7. \A p \in Orders \ {o} : delivery'[p] = delivery[p]
    BY <2>4 DEF TypeInv, TypeOK
  <2> QED
    BY <2>6, <2>7 DEF OnlyReleases
<1>4. ASSUME NEW d \in Desks, CommitDeskAction(d) PROVE OnlyReleases
  <2>1. request[d].op # "adminAssign"
    BY <1>4 DEF CommitDeskAction, TypeInv, RequestHasOrder, Clients, Disciplined
  <2> QED
    BY <1>4, <2>1 DEF CommitDeskAction, OnlyReleases
<1>5. ASSUME NEW r \in Riders, CommitGoOnline(r) PROVE OnlyReleases
  BY <1>5 DEF CommitGoOnline, OnlyReleases
<1> QED
  BY <1>1, <1>2, <1>3, <1>4, <1>5 DEF Commit

-----------------------------------------------------------------------------
(* The lock.                                                               *)

(* A step that moves no other worker, takes no lock from another worker    *)
(* and only releases orders leaves every other worker's claim intact.      *)
LEMMA OthersKeepTheirs ==
  ASSUME TypeInv, LockHeld, OnlyReleases, NEW v \in Workers,
         worker'[v] = worker[v],
         \A r \in Riders : lock[r] = v => lock'[r] = v
  PROVE  ClaimOf(v)'
<1>1. SUFFICES ASSUME worker[v].step \in { "count", "write" } PROVE ClaimOf(v)'
  BY <1>1 DEF ClaimOf
<1>2. PICK r \in Riders : r = worker[v].rider
  BY <1>1 DEF TypeInv, WorkerHasOrder
<1>3. lock'[r] = v
  BY <1>1, <1>2 DEF LockHeld, ClaimOf
<1>4. worker[v].step = "write" => ActiveOrders(r)' = {}
  BY <1>1, <1>2, ReleasesShrink DEF LockHeld, ClaimOf
<1> QED
  BY <1>2, <1>3, <1>4 DEF ClaimOf, ActiveOrders

(* A lock or an assignment is never another worker's to change. *)
LEMMA LockStays ==
  ASSUME Disciplined, TypeInv, LockHeld, ReadStillTrue, Next
  PROVE  LockHeld'
<1> USE TypeParts
<1>1. CASE \/ RequestBegins
           \/ \E c \in Clients : Commit(c) \/ AfterCommit(c) \/ RequestFault(c)
  <2>1. OnlyReleases
    BY <1>1, RequestsRelease
  <2>2. UNCHANGED <<lock, worker>>
    BY <1>1 DEF RequestBegins, BeginGoOnline, GoOffline, RepeatAccept, BeginRiderAction,
                BeginDeskAction, Commit, CommitRiderAction, CommitGoOnline,
                CommitDeskAction, AfterCommit, FindAttempt, ResolveAttempt,
                EnqueueFollowUp, EnqueueRiderTimeout, RequestFault, EnqueueFails,
                RequestDies
  <2> QED
    BY <2>1, <2>2, OthersKeepTheirs DEF LockHeld
<1>2. ASSUME NEW w \in Workers, TakesJob(w) \/ Runs(w) \/ WorkerFault(w),
             ~CommitAssignment(w)
      PROVE  LockHeld'
  <2>1. OnlyReleases
    BY <1>2, WorkersRelease
  <2>2. \A v \in Workers \ {w} : worker'[v] = worker[v]
    <3>1. CASE TakesJob(w)
      BY <3>1 DEF TakesJob, StartAutoDispatch, StartRiderTimeout, StartDispatchTimeout,
                  StartScanForRider, Take, WorkersTyped
    <3>2. CASE Runs(w)
      BY <1>2, <3>2 DEF Runs, PickRider, CreateAttempt, AcquireRiderLock, CountActive,
                  ScheduleDispatchTimeout, MarkAttemptFailed, RetryOrder, CancelNoRider,
                  MarkTimeout, CheckUnanswered, TakeBackAssignment, RecountAfterTimeout,
                  ExpireOrder, Goto, Finish, WorkersTyped
    <3>3. CASE WorkerFault(w)
      BY <3>3 DEF WorkerFault, AbortAssignment, WorkerDies, Goto, Finish, WorkersTyped
    <3> QED
      BY <1>2, <3>1, <3>2, <3>3
  <2>3. \A v \in Workers \ {w} : \A r \in Riders : lock[r] = v => lock'[r] = v
    <3>1. CASE AcquireRiderLock(w)
      BY <3>1, ConstantsAssumption DEF AcquireRiderLock, RowsTyped
    <3>2. CASE CountActive(w)
      BY <3>2 DEF CountActive, At, LockHeld, ClaimOf, RowsTyped
    <3>3. CASE WorkerFault(w)
      BY <3>3 DEF WorkerFault, AbortAssignment, WorkerDies, RowsTyped
    <3>4. CASE TakesJob(w)
      BY <3>4 DEF TakesJob, StartAutoDispatch, StartRiderTimeout, StartDispatchTimeout,
                  StartScanForRider
    <3>5. CASE Runs(w) /\ ~AcquireRiderLock(w) /\ ~CountActive(w)
      BY <1>2, <3>5 DEF Runs, PickRider, CreateAttempt, ScheduleDispatchTimeout,
                  MarkAttemptFailed, RetryOrder, CancelNoRider, MarkTimeout,
                  CheckUnanswered, TakeBackAssignment, RecountAfterTimeout, ExpireOrder
    <3> QED
      BY <1>2, <3>1, <3>2, <3>3, <3>4, <3>5
  <2>4. ClaimOf(w)'
    <3>1. CASE AcquireRiderLock(w)
      <4>1. worker'[w].step = "count" /\ worker'[w].rider = worker[w].rider
        BY <3>1 DEF AcquireRiderLock, Goto, WorkersTyped, WorkerState
      <4>2. worker[w].rider \in Riders
        BY <3>1 DEF AcquireRiderLock, At, WorkersTyped, WorkerHasOrder
      <4>3. lock'[worker[w].rider] = w
        BY <3>1, <4>2 DEF AcquireRiderLock, RowsTyped
      <4> QED
        BY <4>1, <4>3 DEF ClaimOf
    <3>2. CASE CountActive(w)
      <4>1. PICK r \in Riders : r = worker[w].rider
        BY <3>2 DEF CountActive, At, WorkersTyped, WorkerHasOrder
      <4>2. CASE ActiveOrders(r) = {}
        <5>1. worker'[w].rider = r /\ lock'[r] = w
          BY <3>2, <4>1, <4>2 DEF CountActive, At, Goto, LockHeld, ClaimOf, WorkersTyped, WorkerState
        <5>2. ActiveOrders(r)' = {}
          BY <2>1, <4>2, ReleasesShrink
        <5> QED
          BY <5>1, <5>2 DEF ClaimOf, ActiveOrders
      <4>3. CASE ActiveOrders(r) # {}
        BY <3>2, <4>1, <4>3 DEF CountActive, Goto, WorkersTyped, WorkerState, ClaimOf
      <4> QED
        BY <4>2, <4>3
    <3>3. CASE ~AcquireRiderLock(w) /\ ~CountActive(w)
      <4>1. worker'[w].step \notin { "count", "write" }
        <5>1. CASE TakesJob(w)
          BY <5>1 DEF TakesJob, StartAutoDispatch, StartRiderTimeout,
                      StartDispatchTimeout, StartScanForRider, Take, At, WorkersTyped
        <5>2. CASE PickRider(w)
          <6>1. CASE Finish(w)
            BY <6>1 DEF Finish, IdleWorker, WorkersTyped
          <6>2. ASSUME NEW r, worker' = [worker EXCEPT ![w].rider = r, ![w].step = "create"]
                PROVE  worker'[w].step = "create"
            <7> DEFINE next == [worker[w] EXCEPT !.rider = r, !.step = "create"]
            <7>1. worker[w] \in WorkerState
              BY DEF WorkersTyped
            <7>2. next.step = "create"
              BY <7>1 DEF WorkerState
            <7>3. worker' = [worker EXCEPT ![w] = next]
              BY <6>2
            <7> HIDE DEF next
            <7> QED
              BY <7>2, <7>3 DEF WorkersTyped
          <6> QED
            BY <5>2, <6>1, <6>2 DEF PickRider
        <5>3. CASE CreateAttempt(w)
          <6> DEFINE next == [worker[w] EXCEPT !.attempt = Len(attempts[worker[w].order]) + 1,
                                               !.step = "lock"]
          <6>1. worker[w] \in WorkerState
            BY DEF WorkersTyped
          <6>2. next.step = "lock"
            BY <6>1 DEF WorkerState
          <6>3. worker' = [worker EXCEPT ![w] = next]
            BY <5>3 DEF CreateAttempt
          <6> HIDE DEF next
          <6> QED
            BY <6>2, <6>3 DEF WorkersTyped
        <5>4. CASE /\ Runs(w) \/ WorkerFault(w)
                   /\ ~PickRider(w) /\ ~CreateAttempt(w)
          <6>1. CASE Finish(w)
            BY <6>1 DEF Finish, IdleWorker, WorkersTyped
          <6>2. CASE \E step : step \notin { "count", "write" } /\ Goto(w, step)
            BY <6>2 DEF Goto, WorkersTyped, WorkerState
          <6> QED
            BY <1>2, <3>3, <5>4, <6>1, <6>2
            DEF Runs, ScheduleDispatchTimeout, MarkAttemptFailed, RetryOrder,
                CancelNoRider, MarkTimeout, CheckUnanswered, TakeBackAssignment,
                RecountAfterTimeout, ExpireOrder, WorkerFault, AbortAssignment, WorkerDies
        <5> QED
          BY <1>2, <5>1, <5>2, <5>3, <5>4
      <4> QED
        BY <4>1 DEF ClaimOf
    <3> QED
      BY <3>1, <3>2, <3>3
  <2> QED
    BY <2>1, <2>2, <2>3, <2>4, OthersKeepTheirs DEF LockHeld
<1>3. ASSUME NEW w \in Workers, CommitAssignment(w) PROVE LockHeld'
  <2>1. PICK r \in Riders, o \in Orders : r = worker[w].rider /\ o = worker[w].order
    BY <1>3 DEF CommitAssignment, At, WorkersTyped, WorkerHasOrder
  <2>2. lock[r] = w
    BY <1>3, <2>1 DEF CommitAssignment, At, LockHeld, ClaimOf
  <2>3. worker'[w].step = "timer"
    BY <1>3 DEF CommitAssignment, Goto, WorkersTyped, WorkerState
  <2>4. ASSUME NEW v \in Workers, v # w, worker[v].step \in { "count", "write" }
        PROVE  ClaimOf(v)'
    <3>1. PICK q \in Riders : q = worker[v].rider /\ lock[q] = v
      BY <2>4 DEF LockHeld, ClaimOf, WorkersTyped, WorkerHasOrder
    <3>2. q # r /\ lock'[q] = v /\ lock' = [lock EXCEPT ![r] = NoWorker]
      BY <1>3, <2>1, <2>2, <2>4, <3>1 DEF CommitAssignment, RowsTyped
    <3>3. worker'[v] = worker[v]
      BY <1>3, <2>4 DEF CommitAssignment, Goto, WorkersTyped
    <3>4. ActiveOrders(q)' \subseteq ActiveOrders(q)
      BY <1>3, <2>1, <3>2 DEF CommitAssignment, ActiveOrders, RowsTyped
    <3>5. worker[v].step = "write" => ActiveOrders(q)' = {}
      BY <3>1, <3>4 DEF LockHeld, ClaimOf
    <3> QED
      BY <3>1, <3>2, <3>3, <3>5 DEF ClaimOf, ActiveOrders
  <2>5. \A v \in Workers \ {w} : worker'[v] = worker[v]
    BY <1>3 DEF CommitAssignment, Goto, WorkersTyped
  <2> QED
    BY <2>3, <2>4, <2>5 DEF LockHeld, ClaimOf
<1> QED
  BY <1>1, <1>2, <1>3 DEF Next

-----------------------------------------------------------------------------
(* The theorems.                                                           *)

(* An assignment goes to a rider who is on no order. *)
LEMMA AssignsFreeRider ==
  ASSUME TypeInv, LockHeld, NEW w \in Workers, CommitAssignment(w)
  PROVE  \E o \in Orders, r \in Riders :
           /\ ActiveOrders(r) = {}
           /\ delivery' = [delivery EXCEPT ![o] = [rider |-> r, status |-> "ASSIGNED"]]
<1>1. /\ worker[w].order \in Orders /\ worker[w].rider \in Riders
      /\ ActiveOrders(worker[w].rider) = {}
  BY DEF CommitAssignment, At, TypeInv, WorkerHasOrder, LockHeld, ClaimOf
<1> QED
  BY <1>1 DEF CommitAssignment

(* No step books a rider twice. *)
LEMMA BookingStays ==
  ASSUME Disciplined, BookingInv, Next
  PROVE  NoDoubleBooking'
<1>1. CASE OnlyReleases
  BY <1>1, ReleasesShrink DEF BookingInv, NoDoubleBooking
<1>2. ASSUME NEW w \in Workers, CommitAssignment(w) PROVE NoDoubleBooking'
  <2>1. PICK o \in Orders, r \in Riders :
          /\ ActiveOrders(r) = {}
          /\ delivery' = [delivery EXCEPT ![o] = [rider |-> r, status |-> "ASSIGNED"]]
    BY <1>2, AssignsFreeRider DEF BookingInv
  <2>2. ActiveOrders(r)' \subseteq {o}
    BY <2>1 DEF ActiveOrders, BookingInv, TypeInv, TypeOK
  <2>3. \A q \in Riders \ {r} : ActiveOrders(q)' \subseteq ActiveOrders(q)
    BY <2>1 DEF ActiveOrders, BookingInv, TypeInv, TypeOK
  <2> QED
    BY <2>2, <2>3 DEF BookingInv, NoDoubleBooking
<1> QED
  BY <1>1, <1>2, WorkersRelease, RequestsRelease DEF Next, BookingInv

(* The invariant holds at the start. *)
LEMMA BookingInit == Init => BookingInv
<1> SUFFICES ASSUME Init PROVE BookingInv
  OBVIOUS
<1>1. TypeInv
  BY TypeInit
<1>2. LockHeld
  BY DEF Init, LockHeld, ClaimOf, IdleWorker
<1>3. ReadStillTrue
  BY DEF Init, ReadStillTrue, IdleRequest, Clients
<1>4. NoDoubleBooking
  BY DEF Init, NoDoubleBooking, ActiveOrders, ActiveDelivery
<1> QED
  BY <1>1, <1>2, <1>3, <1>4 DEF BookingInv

(* And every step preserves it. *)
LEMMA BookingStep ==
  ASSUME Disciplined
  PROVE  BookingInv /\ [Next]_vars => BookingInv'
<1> SUFFICES ASSUME BookingInv, [Next]_vars PROVE BookingInv'
  OBVIOUS
<1>1. TypeInv'
  BY TypeStep DEF BookingInv
<1>2. CASE Next
  BY <1>1, <1>2, LockStays, ReadStays, BookingStays DEF BookingInv, Disciplined
<1>3. CASE UNCHANGED vars
  BY <1>1, <1>3 DEF vars, BookingInv, LockHeld, ClaimOf, ReadStillTrue, DeskReadHolds,
                    NoDoubleBooking, ActiveOrders
<1> QED
  BY <1>2, <1>3

(* No rider is ever on two active deliveries: what the advisory lock and   *)
(* the count in assignAndNotify are there for.                             *)
THEOREM BookedOnce ==
  ASSUME Disciplined
  PROVE  Spec => []NoDoubleBooking
<1>1. BookingInv => NoDoubleBooking
  BY DEF BookingInv
<1>2. BookingInv /\ [Next]_vars => BookingInv'
  BY BookingStep
<1> QED
  BY <1>1, <1>2, BookingInit, PTL DEF Spec

(* Dispatch implements RiderBooking: assignAndNotify's commit is a Book    *)
(* step, every other write of a delivery releases an order or leaves it    *)
(* with the rider who holds it.                                            *)
THEOREM DispatchImplementsBooking ==
  ASSUME Disciplined
  PROVE  Spec => BookingSpec
<1> DEFINE held == [o \in Orders |-> Holder(o)]
<1>1. Init => Booking!Init
  BY DEF Init, Booking!Init, Holder, ActiveDelivery
<1>2. BookingInv /\ [Next]_vars => [Booking!Next]_held
  <2> SUFFICES ASSUME BookingInv, [Next]_vars PROVE [Booking!Next]_held
    OBVIOUS
  <2>1. CASE OnlyReleases
    <3>1. CASE UNCHANGED delivery
      BY <3>1 DEF Holder
    <3>2. ASSUME NEW o \in Orders, \A p \in Orders \ {o} : delivery'[p] = delivery[p],
                 Holder(o)' \in { NoRider, Holder(o) }
          PROVE  [Booking!Next]_held
      <4>1. \A p \in Orders \ {o} : Holder(p)' = Holder(p)
        BY <3>2 DEF Holder
      <4>2. CASE Holder(o)' = Holder(o)
        BY <4>1, <4>2
      <4>3. CASE Holder(o)' = NoRider /\ Holder(o) # NoRider
        <5>1. \A p \in Orders : Holder(p)' = IF p = o THEN NoRider ELSE held[p]
          BY <4>1, <4>3
        <5>2. held' = [held EXCEPT ![o] = NoRider]
          BY <5>1
        <5> QED
          BY <4>3, <5>2 DEF Booking!Next, Booking!Release
      <4> QED
        BY <3>2, <4>2, <4>3
    <3> QED
      BY <2>1, <3>1, <3>2 DEF OnlyReleases
  <2>2. ASSUME NEW w \in Workers, CommitAssignment(w) PROVE [Booking!Next]_held
    <3>1. PICK o \in Orders, r \in Riders :
            /\ ActiveOrders(r) = {}
            /\ delivery' = [delivery EXCEPT ![o] = [rider |-> r, status |-> "ASSIGNED"]]
      BY <2>2, AssignsFreeRider DEF BookingInv
    <3>2. \A p \in Orders : Holder(p) # r
      BY <3>1, ActiveIsHeld
    <3>3. Holder(o)' = r /\ \A p \in Orders \ {o} : Holder(p)' = Holder(p)
      BY <3>1 DEF Holder, ActiveDelivery, BookingInv, TypeInv, TypeOK
    <3>4. held' = [held EXCEPT ![o] = r]
      BY <3>3
    <3> QED
      BY <3>2, <3>4 DEF Booking!Next, Booking!Book
  <2>3. CASE UNCHANGED vars
    BY <2>3 DEF vars, Holder
  <2> QED
    BY <2>1, <2>2, <2>3, WorkersRelease, RequestsRelease DEF Next, BookingInv
<1>3. BookingInv /\ [Next]_vars => BookingInv'
  BY BookingStep
<1> QED
  BY <1>1, <1>2, <1>3, BookingInit, PTL DEF Spec, BookingSpec, Booking!Spec

-----------------------------------------------------------------------------
(* The order and its delivery.                                             *)

(* An order that waits for the merchant has no Delivery row.               *)
PlacedHasNoRow == \A o \in Orders : status[o] = "PLACED" => delivery[o].status = "NO_ROW"

MatchInv == TypeInv /\ ReadStillTrue /\ OrderMatchesDelivery /\ PlacedHasNoRow

(* The two rows of one order, as OrderMatchesDelivery has them.            *)
RowsMatch(order, row) ==
  /\ order = "PLACED" => row.status = "NO_ROW"
  /\ order = "RIDER_ASSIGNED" => row.status = "ASSIGNED"
  /\ order \in { "RIDER_ACCEPTED", "PREPARING", "READY" } => row.status = "ACCEPTED"
  /\ order \in { "PICKED_UP", "ON_THE_WAY", "DELIVERED" } => row.status = order
  /\ order = "MERCHANT_ACCEPTED" => row.status \in { "NO_ROW", "PENDING_ASSIGNMENT" }
  /\ row.rider = NoRider <=> row.status \in { "NO_ROW", "PENDING_ASSIGNMENT" }

LEMMA MatchIsRowsMatch ==
  /\ (OrderMatchesDelivery /\ PlacedHasNoRow) <=> \A o \in Orders : RowsMatch(status[o], delivery[o])
  /\ (OrderMatchesDelivery /\ PlacedHasNoRow)' <=> \A o \in Orders : RowsMatch(status'[o], delivery'[o])
BY DEF OrderMatchesDelivery, PlacedHasNoRow, RowsMatch

(* A step that writes the rows of one order writes a matching pair. *)
LEMMA OneOrderMatches ==
  ASSUME MatchInv, NEW o \in Orders,
         \A p \in Orders \ {o} : status'[p] = status[p] /\ delivery'[p] = delivery[p],
         RowsMatch(status'[o], delivery'[o])
  PROVE  (OrderMatchesDelivery /\ PlacedHasNoRow)'
BY MatchIsRowsMatch DEF MatchInv

LEMMA MatchInit == Init => MatchInv
<1> SUFFICES ASSUME Init PROVE MatchInv
  OBVIOUS
<1>1. TypeInv /\ ReadStillTrue
  BY BookingInit DEF BookingInv
<1>2. OrderMatchesDelivery /\ PlacedHasNoRow
  BY DEF Init, OrderMatchesDelivery, PlacedHasNoRow
<1> QED
  BY <1>1, <1>2 DEF MatchInv

(* A worker writes matching pairs, or cancels the order and leaves its     *)
(* delivery as it is.                                                      *)
LEMMA WorkersMatch ==
  ASSUME MatchInv, NEW w \in Workers, TakesJob(w) \/ Runs(w) \/ WorkerFault(w)
  PROVE  (OrderMatchesDelivery /\ PlacedHasNoRow)'
<1> USE TypeParts DEF MatchInv
<1>1. CASE UNCHANGED <<status, delivery>>
  BY <1>1, MatchIsRowsMatch
<1>2. ASSUME CommitAssignment(w) \/ TakeBackAssignment(w)
      PROVE  (OrderMatchesDelivery /\ PlacedHasNoRow)'
  <2>1. PICK o \in Orders, r \in Riders \cup {NoRider} :
          \/ /\ r \in Riders
             /\ delivery' = [delivery EXCEPT ![o] = [rider |-> r, status |-> "ASSIGNED"]]
             /\ status' = [status EXCEPT ![o] = "RIDER_ASSIGNED"]
          \/ /\ r = NoRider
             /\ delivery' = [delivery EXCEPT ![o] = [rider |-> r, status |-> "PENDING_ASSIGNMENT"]]
             /\ status' = [status EXCEPT ![o] = "MERCHANT_ACCEPTED"]
    BY <1>2 DEF CommitAssignment, TakeBackAssignment, At, WorkersTyped, WorkerHasOrder
  <2>2. RowsMatch(status'[o], delivery'[o])
    BY <2>1, ConstantsAssumption DEF RowsMatch, RowsTyped
  <2>3. \A p \in Orders \ {o} : status'[p] = status[p] /\ delivery'[p] = delivery[p]
    BY <2>1 DEF RowsTyped
  <2> QED
    BY <2>2, <2>3, OneOrderMatches
<1>3. ASSUME CancelNoRider(w) \/ ExpireOrder(w) PROVE (OrderMatchesDelivery /\ PlacedHasNoRow)'
  <2>1. PICK o \in Orders : delivery' = delivery /\ status' = [status EXCEPT ![o] = "CANCELLED"]
    BY <1>3 DEF CancelNoRider, ExpireOrder, At, WorkersTyped, WorkerHasOrder
  <2>2. RowsMatch(status[o], delivery[o])
    BY MatchIsRowsMatch
  <2>3. RowsMatch(status'[o], delivery'[o])
    BY <2>1, <2>2 DEF RowsMatch, RowsTyped
  <2>4. \A p \in Orders \ {o} : status'[p] = status[p] /\ delivery'[p] = delivery[p]
    BY <2>1 DEF RowsTyped
  <2> QED
    BY <2>3, <2>4, OneOrderMatches
<1>4. CASE TakesJob(w)
  BY <1>1, <1>4 DEF TakesJob, StartAutoDispatch, StartRiderTimeout, StartDispatchTimeout,
                    StartScanForRider
<1>5. CASE WorkerFault(w)
  BY <1>1, <1>5 DEF WorkerFault, AbortAssignment, WorkerDies
<1>6. CASE Runs(w)
  BY <1>1, <1>2, <1>3, <1>6
  DEF Runs, PickRider, CreateAttempt, AcquireRiderLock, CountActive, ScheduleDispatchTimeout,
      MarkAttemptFailed, RetryOrder, MarkTimeout, CheckUnanswered, RecountAfterTimeout
<1> QED
  BY <1>4, <1>5, <1>6

(* A rider's handler writes a matching pair, and the rider it leaves on    *)
(* the delivery is the one who called it.                                  *)
LEMMA RidersMatch ==
  ASSUME MatchInv, NEW r \in Riders, CommitRiderAction(r)
  PROVE  (OrderMatchesDelivery /\ PlacedHasNoRow)'
<1> USE TypeParts DEF MatchInv
<1>1. PICK o \in Orders, op \in RiderOps : o = request[r].order /\ op = request[r].op
  BY DEF CommitRiderAction, RequestsTyped, RequestHasOrder, Clients
<1>2. delivery[o].rider = r /\ r # NoRider
  BY <1>1, ConstantsAssumption DEF CommitRiderAction, ReadStillTrue
<1> DEFINE rider == IF RiderTarget[op].delivery = "PENDING_ASSIGNMENT" THEN NoRider ELSE r
<1>3. /\ status' = [status EXCEPT ![o] = RiderTarget[op].order]
      /\ delivery' = [delivery EXCEPT ![o] = [rider |-> rider, status |-> RiderTarget[op].delivery]]
  BY <1>1, <1>2 DEF CommitRiderAction
<1>4. RowsMatch(RiderTarget[op].order, [rider |-> rider, status |-> RiderTarget[op].delivery])
  BY <1>2 DEF RowsMatch, RiderTarget, RiderOps
<1> HIDE DEF rider
<1>5. RowsMatch(status'[o], delivery'[o])
  BY <1>3, <1>4 DEF RowsTyped
<1>6. \A p \in Orders \ {o} : status'[p] = status[p] /\ delivery'[p] = delivery[p]
  BY <1>3 DEF RowsTyped
<1> QED
  BY <1>5, <1>6, OneOrderMatches

(* A desk's handler moves the order from where it read it.                 *)
LEMMA DesksMatch ==
  ASSUME MatchInv, NEW d \in Desks, CommitDeskAction(d)
  PROVE  (OrderMatchesDelivery /\ PlacedHasNoRow)'
<1> USE TypeParts DEF MatchInv
<1> DEFINE op == request[d].op
<1>1. DeskReadHolds(request[d])
  BY DEF ReadStillTrue, CommitDeskAction
<1>2. PICK o \in Orders : o = request[d].order
  BY <1>1 DEF DeskReadHolds
<1>3. op \in DeskOps
  BY DEF CommitDeskAction, RequestsTyped, RequestHasOrder, Clients
<1>4. RowsMatch(status[o], delivery[o])
  BY MatchIsRowsMatch
<1>5. status' = [status EXCEPT ![o] = DeskTarget[op]]
  BY <1>2 DEF CommitDeskAction
<1>6. CASE op = "adminAssign"
  <2>1. PICK r \in Riders : r = request[d].rider
    BY <1>1, <1>6 DEF DeskReadHolds
  <2>2. /\ delivery' = [delivery EXCEPT ![o] = [rider |-> r, status |-> "ASSIGNED"]]
        /\ status' = [status EXCEPT ![o] = "RIDER_ASSIGNED"]
    BY <1>2, <1>5, <1>6, <2>1 DEF CommitDeskAction, DeskTarget
  <2>3. RowsMatch(status'[o], delivery'[o])
    BY <2>2, ConstantsAssumption DEF RowsMatch, RowsTyped
  <2>4. \A p \in Orders \ {o} : status'[p] = status[p] /\ delivery'[p] = delivery[p]
    BY <2>2 DEF RowsTyped
  <2> QED
    BY <2>3, <2>4, OneOrderMatches
<1>7. CASE op # "adminAssign"
  <2>1. delivery' = delivery
    BY <1>7 DEF CommitDeskAction
  <2>2. RowsMatch(DeskTarget[op], delivery[o])
    <3>1. op \in { "merchantAccept", "merchantReject", "markPreparing", "markReady",
                    "customerCancel", "adminCancel" }
      BY <1>3, <1>7, OpsAssumption
    <3>2. CASE op = "merchantAccept"
      <4>1. DeskTarget[op] = "MERCHANT_ACCEPTED" /\ status[o] = "PLACED"
        BY <1>1, <1>2, <3>2 DEF DeskTarget, DeskReadHolds
      <4> QED
        BY <1>4, <4>1 DEF RowsMatch
    <3>3. CASE op \in { "markPreparing", "markReady" }
      <4>1. /\ DeskTarget[op] \in { "PREPARING", "READY" }
            /\ status[o] \in { "RIDER_ACCEPTED", "PREPARING" }
        BY <1>1, <1>2, <3>3 DEF DeskTarget, DeskReadHolds
      <4> QED
        BY <1>4, <4>1 DEF RowsMatch
    <3>4. CASE op \in { "merchantReject", "customerCancel", "adminCancel" }
      <4>1. DeskTarget[op] \in { "MERCHANT_REJECTED", "CANCELLED" }
        BY <3>4 DEF DeskTarget
      <4> QED
        BY <1>4, <4>1 DEF RowsMatch
    <3> QED
      BY <3>1, <3>2, <3>3, <3>4
  <2>3. RowsMatch(status'[o], delivery'[o])
    BY <1>5, <2>1, <2>2 DEF RowsTyped
  <2>4. \A p \in Orders \ {o} : status'[p] = status[p] /\ delivery'[p] = delivery[p]
    BY <1>5, <2>1 DEF RowsTyped
  <2> QED
    BY <2>3, <2>4, OneOrderMatches
<1> QED
  BY <1>6, <1>7

LEMMA MatchStep ==
  ASSUME ~SplitRequests
  PROVE  MatchInv /\ [Next]_vars => MatchInv'
<1> SUFFICES ASSUME MatchInv, [Next]_vars PROVE MatchInv'
  OBVIOUS
<1>1. TypeInv'
  BY TypeStep DEF MatchInv
<1>2. CASE Next
  <2>1. ReadStillTrue'
    BY <1>2, ReadStays DEF MatchInv
  <2>2. CASE UNCHANGED <<status, delivery>>
    BY <1>1, <2>1, <2>2, MatchIsRowsMatch DEF MatchInv
  <2>3. CASE RequestBegins
    BY <2>2, <2>3 DEF RequestBegins, BeginGoOnline, GoOffline, RepeatAccept, BeginRiderAction,
                      BeginDeskAction
  <2>4. ASSUME NEW c \in Clients, AfterCommit(c) \/ RequestFault(c) PROVE MatchInv'
    BY <2>2, <2>4 DEF AfterCommit, FindAttempt, ResolveAttempt, EnqueueFollowUp,
                      EnqueueRiderTimeout, RequestFault, EnqueueFails, RequestDies
  <2>5. ASSUME NEW c \in Clients, Commit(c) PROVE MatchInv'
    <3>1. CASE c \in Riders /\ CommitGoOnline(c)
      BY <2>2, <3>1 DEF CommitGoOnline
    <3> QED
      BY <1>1, <2>1, <2>5, <3>1, RidersMatch, DesksMatch DEF Commit, MatchInv
  <2>6. ASSUME NEW w \in Workers, TakesJob(w) \/ Runs(w) \/ WorkerFault(w) PROVE MatchInv'
    BY <1>1, <2>1, <2>6, WorkersMatch DEF MatchInv
  <2> QED
    BY <1>2, <2>3, <2>4, <2>5, <2>6 DEF Next
<1>3. CASE UNCHANGED vars
  BY <1>1, <1>3, MatchIsRowsMatch DEF vars, MatchInv, ReadStillTrue, DeskReadHolds
<1> QED
  BY <1>2, <1>3

(* The order and its Delivery row tell the same story whatever workers,    *)
(* riders, merchant, customer and admin do, and whatever dies, as long as  *)
(* no request is overtaken between its read and its commit: the policy     *)
(* checks of the handlers are what keeps the two rows together             *)
(* (rider-delivery-actions.service.ts, merchant-order-handling.service.ts, *)
(* dispatch-assignment.service.ts).                                        *)
THEOREM RowsAgree ==
  ASSUME ~SplitRequests
  PROVE  Spec => []OrderMatchesDelivery
<1>1. MatchInv => OrderMatchesDelivery
  BY DEF MatchInv
<1>2. MatchInv /\ [Next]_vars => MatchInv'
  BY MatchStep
<1> QED
  BY <1>1, <1>2, MatchInit, PTL DEF Spec

=============================================================================
