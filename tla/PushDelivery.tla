---------------------------- MODULE PushDelivery ----------------------------
(***************************************************************************)
(* The push half of a notification: the QUEUED delivery row a publisher    *)
(* writes, the job that sends it (push-notification.job), its own retries, *)
(* the queue's retries on top of them, and the pruning that deletes the    *)
(* notification, with its rows, under a job that is still to run.          *)
(***************************************************************************)
EXTENDS Rows, Sequences

CONSTANTS
  Pushed,        \* notifications of one user
  Tokens,        \* devices of that user
  Workers,
  MaxAttempts,   \* PushNotificationJob.maxAttempts
  MaxRuns,       \* attempts of one job in the queue
  MaxFaults      \* bound: failed statements and dead processes

PushJobs == [push : Pushed, attempt : 1..MaxAttempts, run : 1..MaxRuns]
PusherRow ==
  [job : PushJobs, step : { "send", "sent", "rejected", "fail", "retry", "row", "enqueue" },
   invalid : SUBSET Tokens, targets : SUBSET Tokens]
Statuses == { "QUEUED", "SENT", "FAILED" }

ASSUME PushAssumption ==
  /\ MaxAttempts \in Nat \ {0} /\ MaxRuns \in Nat \ {0}
  /\ None \notin PusherRow /\ None \notin Seq(Statuses) /\ None \notin { "row", "done" }

VARIABLES
  publisher,     \* how far the publication of each notification is
  delivery,      \* the statuses of its PUSH rows; None once it is pruned
  token,         \* registered devices
  queue,         \* how many jobs wait, by job
  pusher,        \* what each worker is doing
  sends,         \* times each notification went to the provider
  accepted,      \* the notifications some device was sent
  again,         \* times a job of the notification was run over again
  faulted,       \* notifications a statement or a process failed on
  stranded       \* notifications whose job was never enqueued, or is dead

pushVars == <<publisher, delivery, token, queue, pusher, sends, accepted, again, faulted, stranded>>

Kept == { n \in Pushed : delivery[n] # None }
HasQueuedRow(n) == n \in Kept /\ \E i \in DOMAIN delivery[n] : delivery[n][i] = "QUEUED"
Faults == Cardinality(faulted) + MapThenSumSet(LAMBDA n : again[n], Pushed)

PushInit ==
  /\ publisher = [n \in Pushed |-> None] /\ delivery = [n \in Pushed |-> <<>>]
  /\ token = Tokens /\ queue = [j \in PushJobs |-> 0] /\ pusher = [w \in Workers |-> None]
  /\ sends = [n \in Pushed |-> 0] /\ accepted = {} /\ again = [n \in Pushed |-> 0]
  /\ faulted = {} /\ stranded = {}

AddJob(n, attempt, run) ==
  queue' = [queue EXCEPT ![[push |-> n, attempt |-> attempt, run |-> run]] = @ + 1]

QueueRow(n) == delivery' = [delivery EXCEPT ![n] = Append(@, "QUEUED")]

\* updateMany over the rows that are still queued; none, once pruned.
Mark(n, status) ==
  delivery' = [delivery EXCEPT ![n] =
    IF @ = None THEN None ELSE [i \in DOMAIN @ |-> IF @[i] = "QUEUED" THEN status ELSE @[i]]]

-----------------------------------------------------------------------------
(* recordDefaultDeliveries, recordMerchantInventoryAlertDeliveries and      *)
(* recordMerchantReminderDeliveries.                                        *)

\* The preference, or its quiet hours, mute the push: no row and no job.
PublishMuted(n) ==
  /\ publisher[n] = None /\ publisher' = [publisher EXCEPT ![n] = "done"]
  /\ UNCHANGED <<delivery, token, queue, pusher, sends, accepted, again, faulted, stranded>>

PublishRow(n) ==
  /\ publisher[n] = None /\ n \in Kept
  /\ QueueRow(n) /\ publisher' = [publisher EXCEPT ![n] = "row"]
  /\ UNCHANGED <<token, queue, pusher, sends, accepted, again, faulted, stranded>>

PublishJob(n) ==
  /\ publisher[n] = "row" /\ AddJob(n, 1, 1) /\ publisher' = [publisher EXCEPT ![n] = "done"]
  /\ UNCHANGED <<delivery, token, pusher, sends, accepted, again, faulted, stranded>>

\* Redis is away, or the process dies: the row is there, the job is not.
PublisherDies(n) ==
  /\ publisher[n] = "row" /\ Faults < MaxFaults
  /\ publisher' = [publisher EXCEPT ![n] = "done"]
  /\ stranded' = stranded \cup { n } /\ faulted' = faulted \cup { n }
  /\ UNCHANGED <<delivery, token, queue, pusher, sends, accepted, again>>

\* pruneOldNotifications: the delivery rows go with the notification.
PrunePushed(n) ==
  /\ n \in Kept /\ publisher[n] # None /\ delivery' = [delivery EXCEPT ![n] = None]
  /\ UNCHANGED <<publisher, token, queue, pusher, sends, accepted, again, faulted, stranded>>

RegisterToken(t) ==
  /\ t \notin token /\ token' = token \cup { t }
  /\ UNCHANGED <<publisher, delivery, queue, pusher, sends, accepted, again, faulted, stranded>>

UnregisterToken(t) ==
  /\ t \in token /\ token' = token \ { t }
  /\ UNCHANGED <<publisher, delivery, queue, pusher, sends, accepted, again, faulted, stranded>>

-----------------------------------------------------------------------------
(* PushNotificationJob.handle.                                              *)

On(w, steps) == pusher[w] # None /\ pusher[w].step \in steps
Step(w, step) == pusher' = [pusher EXCEPT ![w].step = step]
Done(w) == pusher' = [pusher EXCEPT ![w] = None]

\* Broken variant: with no device the job just returns.
FirstStepForgets(n) == IF token = {} THEN "return" ELSE "send"

\* What a job does first, given the notification and its devices.
FirstStep(n) == IF token = {} THEN "fail" ELSE "send"

TakePush(w, j) ==
  /\ pusher[w] = None /\ queue[j] > 0 /\ queue' = [queue EXCEPT ![j] = @ - 1]
  /\ pusher' = [pusher EXCEPT ![w] =
       IF j.push \notin Kept \/ FirstStep(j.push) = "return" THEN None
       ELSE [job |-> j, step |-> FirstStep(j.push), invalid |-> {}, targets |-> token]]
  /\ UNCHANGED <<publisher, delivery, token, sends, accepted, again, faulted, stranded>>

\* Broken variant: one attempt too many.
AfterErrorOnceMore(w) == IF pusher[w].job.attempt <= MaxAttempts THEN "retry" ELSE "fail"

\* The catch block: another attempt, or the end of them.
AfterError(w) == IF pusher[w].job.attempt < MaxAttempts THEN "retry" ELSE "fail"

\* The provider answers for each device, or not at all.
Answer(w) ==
  /\ On(w, { "send" })
  /\ LET n == pusher[w].job.push IN
     /\ sends' = [sends EXCEPT ![n] = @ + 1]
     /\ \/ /\ Step(w, AfterError(w)) /\ UNCHANGED accepted
        \/ \E delivered \in SUBSET pusher[w].targets :
           \E invalid \in SUBSET (pusher[w].targets \ delivered) :
             /\ accepted' = IF delivered = {} THEN accepted ELSE accepted \cup { n }
             /\ pusher' = [pusher EXCEPT ![w].invalid = invalid,
                                         ![w].step = IF delivered = {} THEN "rejected" ELSE "sent"]
  /\ UNCHANGED <<publisher, delivery, token, queue, again, faulted, stranded>>

DeleteInvalidTokens(w) ==
  /\ On(w, { "sent", "rejected" }) /\ pusher[w].invalid # {}
  /\ token' = token \ pusher[w].invalid /\ pusher' = [pusher EXCEPT ![w].invalid = {}]
  /\ UNCHANGED <<publisher, delivery, queue, sends, accepted, again, faulted, stranded>>

\* Broken variant: the push failed if some device is gone.
OutcomeOfAll(w) == IF pusher[w].step = "sent" /\ pusher[w].targets \subseteq token THEN "SENT" ELSE "FAILED"

\* What the rows become at the end of a job.
Outcome(w) == IF pusher[w].step = "sent" THEN "SENT" ELSE "FAILED"

Settle(w) ==
  /\ On(w, { "sent", "rejected", "fail" }) /\ pusher[w].invalid = {}
  /\ Mark(pusher[w].job.push, Outcome(w)) /\ Done(w)
  /\ UNCHANGED <<publisher, token, queue, sends, accepted, again, faulted, stranded>>

RetryFails(w) ==
  /\ On(w, { "retry" }) /\ Mark(pusher[w].job.push, "FAILED") /\ Step(w, "row")
  /\ UNCHANGED <<publisher, token, queue, sends, accepted, again, faulted, stranded>>

RetryRow(w) ==
  /\ On(w, { "row" }) /\ pusher[w].job.push \in Kept
  /\ QueueRow(pusher[w].job.push) /\ Step(w, "enqueue")
  /\ UNCHANGED <<publisher, token, queue, sends, accepted, again, faulted, stranded>>

\* Broken variant: the retry forgets which attempt it is.
SameAttempt(job) == job.attempt

NextAttempt(job) == job.attempt + 1

RetryJob(w) ==
  /\ On(w, { "enqueue" })
  /\ AddJob(pusher[w].job.push, NextAttempt(pusher[w].job), 1) /\ Done(w)
  /\ UNCHANGED <<publisher, delivery, token, sends, accepted, again, faulted, stranded>>

-----------------------------------------------------------------------------
(* What fails.                                                              *)

\* A statement of the try block fails: that too is taken for a failed send.
StatementFails(w) ==
  /\ On(w, { "sent", "rejected" }) /\ Faults < MaxFaults
  /\ faulted' = faulted \cup { pusher[w].job.push }
  /\ pusher' = [pusher EXCEPT ![w].step = AfterError(w), ![w].invalid = {}]
  /\ UNCHANGED <<publisher, delivery, token, queue, sends, accepted, again, stranded>>

\* The handler throws, or its process dies: the queue runs the job again, or
\* buries it after the last run.  A row for a pruned notification cannot be
\* written at all.
RunAgain(w) ==
  /\ pusher[w] # None
  /\ Faults < MaxFaults \/ (On(w, { "row" }) /\ pusher[w].job.push \notin Kept)
  /\ LET j == pusher[w].job IN
     /\ IF j.run < MaxRuns THEN AddJob(j.push, j.attempt, j.run + 1) /\ UNCHANGED stranded
        ELSE stranded' = stranded \cup { j.push } /\ UNCHANGED queue
     /\ again' = [again EXCEPT ![j.push] = @ + 1] /\ faulted' = faulted \cup { j.push }
  /\ Done(w)
  /\ UNCHANGED <<publisher, delivery, token, sends, accepted>>

PushWork ==
  \/ \E n \in Pushed : PublishJob(n)
  \/ \E w \in Workers : \/ \E j \in PushJobs : TakePush(w, j)
                        \/ Answer(w) \/ DeleteInvalidTokens(w) \/ Settle(w)
                        \/ RetryFails(w) \/ RetryRow(w) \/ RetryJob(w)
                        \/ RunAgain(w)

PushNext ==
  \/ PushWork
  \/ \E n \in Pushed : PublishMuted(n) \/ PublishRow(n) \/ PublisherDies(n) \/ PrunePushed(n)
  \/ \E t \in Tokens : RegisterToken(t) \/ UnregisterToken(t)
  \/ \E w \in Workers : StatementFails(w)

\* Somebody is about to run a publication that has begun, and a worker runs
\* what waits in the queue (BullMQ).
PushFairness ==
  /\ \A n \in Pushed : WF_pushVars(PublishJob(n) \/ PublisherDies(n))
  /\ \A w \in Workers :
       WF_pushVars(\/ \E j \in PushJobs : TakePush(w, j)
                   \/ Answer(w) \/ DeleteInvalidTokens(w) \/ Settle(w)
                   \/ RetryFails(w) \/ RetryRow(w) \/ RetryJob(w) \/ RunAgain(w))

PushSpec == PushInit /\ [][PushNext]_pushVars /\ PushFairness
-----------------------------------------------------------------------------
(* Properties.                                                              *)

\* One row for each attempt at most, and one more for each job that is run
\* again.
PushTypeOK ==
  /\ publisher \in [Pushed -> { None, "row", "done" }]
  /\ delivery \in [Pushed -> { None } \cup Seq(Statuses)]
  /\ \A n \in Kept : Len(delivery[n]) <= MaxAttempts + again[n]
  /\ token \subseteq Tokens /\ queue \in [PushJobs -> Nat]
  /\ pusher \in [Workers -> PusherRow \cup { None }]

Underway(n) ==
  \/ publisher[n] = "row"
  \/ \E j \in PushJobs : j.push = n /\ queue[j] > 0
  \/ \E w \in Workers : pusher[w] # None /\ pusher[w].job.push = n

\* A row that says QUEUED has somebody who will turn it into SENT or FAILED,
\* except where the process died between the row and its job or the queue
\* gave up: nothing else ever looks for such rows.
QueuedIsWatched == \A n \in Pushed : HasQueuedRow(n) => Underway(n) \/ n \in stranded

\* The user's devices are called at most once for each attempt of the job and
\* run of the attempt: the job's own retries and the queue's multiply.
SendsAreBounded ==
  \A n \in Pushed : sends[n] <= MaxAttempts + again[n] /\ sends[n] <= MaxAttempts * MaxRuns

\* A row says SENT only if some device was sent the notification; and once
\* nobody works on it, all rows say FAILED only if no device was, or a
\* statement or a process failed after the provider had accepted it.
RecordAgrees ==
  \A n \in Kept : LET says == { delivery[n][i] : i \in DOMAIN delivery[n] } IN
    /\ "SENT" \in says => n \in accepted
    /\ ~Underway(n) /\ n \in accepted /\ "SENT" \notin says => n \in faulted

\* Every queued row is settled, pruned, or stranded in the end.
PushSettles == \A n \in Pushed : HasQueuedRow(n) ~> (~HasQueuedRow(n) \/ n \in stranded)

\* The record of a push is true to what was sent: no row is left waiting that
\* nobody works on, no device is called too often, and SENT means sent.
PushAgrees == PushTypeOK /\ QueuedIsWatched /\ SendsAreBounded /\ RecordAgrees
=============================================================================
