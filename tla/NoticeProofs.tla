---------------------------- MODULE NoticeProofs ----------------------------
(***************************************************************************)
(* Proofs about what users are told, on their devices and in their inbox,  *)
(* and about the stock of a branch, whose falls are what its merchant is   *)
(* told most.  The record of a push is true to what was sent, for any      *)
(* number of devices, attempts and workers, and whatever dies.  In the     *)
(* inbox of a merchant there are no two alerts of one level within the     *)
(* cooldown, the badge counts the unread notices, paging to the end misses *)
(* none, and what is closed stays closed, for any number of notices and    *)
(* requests and any cooldowns.  No unit of stock comes from nowhere, lots  *)
(* and numbers agree but for named gaps, and every fall is announced, for  *)
(* any shelf, any orders and any number of handlers.                       *)
(*                                                                         *)
(* The argument for the inbox: a request that has read something either    *)
(* still knows what is so, or has been told that it is out of date; and a  *)
(* step can only shrink what matches a list, because ids grow, notices     *)
(* stay read, and an alert with a verdict is never untouched again.  The   *)
(* argument for the stock: each step moves two sums by the same amount,    *)
(* what is taken from the lots in any order adds up to what was asked for, *)
(* and what a handler saw to be low is low still, or was announced.        *)
(***************************************************************************)
EXTENDS PushDelivery, Stockroom, AlertDesk, Sums, FiniteSetTheorems, SequenceTheorems, TLAPS

-----------------------------------------------------------------------------
(***************************************************************************)
(* The record of a push: where a notification is between its publication   *)
(* and the settlement of its rows, and how many rows and sends are behind  *)
(* the attempt and the run that is on.                                     *)
(***************************************************************************)

Values(s) == { s[i] : i \in DOMAIN s }
Says(n) == Values(delivery[n])

\* The sends before an attempt.
Before(a) == (a - 1) * MaxRuns

\* Nobody, one job in the queue, or one worker has the notification.
NoJob(n) == \A j \in PushJobs : j.push = n => queue[j] = 0
NoWorker(n) == \A w \in Workers : pusher[w] = None \/ pusher[w].job.push # n
OnlyJob(n, j) ==
  j.push = n /\ queue[j] = 1 /\ NoWorker(n) /\ \A i \in PushJobs : i.push = n /\ i # j => queue[i] = 0
OnlyWorker(n, w) ==
  /\ pusher[w] # None /\ pusher[w].job.push = n /\ NoJob(n)
  /\ \A v \in Workers : v # w => pusher[v] = None \/ pusher[v].job.push # n

\* Rows and sends are those of this attempt and run; the answers and rows of
\* the step that is on are counted apart.
Counted(n, a, r, sent, rowed) ==
  /\ n \in Kept => Len(delivery[n]) <= a + rowed + again[n]
  /\ sends[n] <= Before(a) + (r - 1) + sent
  /\ sends[n] <= (a - 1) + again[n] + sent

\* As long as nothing fails there is a row to be settled, and what was
\* accepted has been settled.
Waits(n) == n \in Kept /\ n \notin faulted => "QUEUED" \in Says(n)
Told(n) == n \in Kept /\ n \notin faulted /\ n \in accepted => "SENT" \in Says(n)

HandFits(n, h) ==
  /\ Counted(n, h.job.attempt, h.job.run, IF h.step = "send" THEN 0 ELSE 1, IF h.step = "enqueue" THEN 1 ELSE 0)
  /\ h.step # "row" => Waits(n)
  /\ IF h.step = "sent" THEN n \in accepted ELSE Told(n)
  /\ h.step \in { "retry", "row", "enqueue" } => h.job.attempt < MaxAttempts

\* Where a notification may be between its publication and its settlement.
Unpublished(n) ==
  /\ publisher[n] = None /\ NoJob(n) /\ NoWorker(n)
  /\ delivery[n] = <<>> /\ sends[n] = 0 /\ again[n] = 0 /\ n \notin accepted
Rowed(n) == publisher[n] = "row" /\ NoJob(n) /\ NoWorker(n) /\ Counted(n, 1, 1, 0, 0) /\ Waits(n) /\ Told(n)
Enqueued(n) ==
  publisher[n] = "done" /\ \E j \in PushJobs : OnlyJob(n, j) /\ Counted(n, j.attempt, j.run, 0, 0) /\ Waits(n) /\ Told(n)
Handled(n) == publisher[n] = "done" /\ \E w \in Workers : OnlyWorker(n, w) /\ HandFits(n, pusher[w])
Over(n) ==
  publisher[n] = "done" /\ NoJob(n) /\ NoWorker(n) /\ Told(n) /\ (HasQueuedRow(n) => n \in stranded)

Bounded(n) ==
  /\ n \in Kept => Len(delivery[n]) <= MaxAttempts + again[n] /\ ("SENT" \in Says(n) => n \in accepted)
  /\ sends[n] <= MaxAttempts + again[n] /\ sends[n] <= MaxAttempts * MaxRuns

NoteFits(n) == Bounded(n) /\ (Unpublished(n) \/ Rowed(n) \/ Enqueued(n) \/ Handled(n) \/ Over(n))

PushTypes ==
  /\ publisher \in [Pushed -> { None, "row", "done" }] /\ delivery \in [Pushed -> { None } \cup Seq(Statuses)]
  /\ token \subseteq Tokens /\ queue \in [PushJobs -> Nat] /\ pusher \in [Workers -> PusherRow \cup { None }]
  /\ sends \in [Pushed -> Nat] /\ again \in [Pushed -> Nat]

PushInv == PushTypes /\ \A n \in Pushed : NoteFits(n)

-----------------------------------------------------------------------------
LEMMA RowAppended ==
  ASSUME NEW s \in Seq(Statuses), NEW x \in Statuses
  PROVE  /\ Append(s, x) \in Seq(Statuses) /\ Len(Append(s, x)) = Len(s) + 1 /\ Len(s) \in Nat
         /\ Values(Append(s, x)) = Values(s) \cup { x }
<1>1. /\ Append(s, x) \in Seq(Statuses) /\ Len(Append(s, x)) = Len(s) + 1
      /\ \A i \in 1..Len(s) : Append(s, x)[i] = s[i]
      /\ Append(s, x)[Len(s) + 1] = x
  BY AppendProperties
<1>2. Len(s) \in Nat /\ DOMAIN s = 1..Len(s)
  BY LenProperties
<1>3. DOMAIN Append(s, x) = 1..(Len(s) + 1)
  BY <1>1, LenProperties
<1>4. 1..(Len(s) + 1) = 1..Len(s) \cup { Len(s) + 1 }
  BY <1>2
<1>5. QED
  BY <1>1, <1>2, <1>3, <1>4 DEF Values

Marked(s, x) == [i \in DOMAIN s |-> IF s[i] = "QUEUED" THEN x ELSE s[i]]

LEMMA RowsMarked ==
  ASSUME NEW s \in Seq(Statuses), NEW x \in { "SENT", "FAILED" }
  PROVE  /\ Marked(s, x) \in Seq(Statuses) /\ Len(Marked(s, x)) = Len(s)
         /\ "QUEUED" \notin Values(Marked(s, x)) /\ ("QUEUED" \in Values(s) => x \in Values(Marked(s, x)))
         /\ "SENT" \in Values(s) => "SENT" \in Values(Marked(s, x))
         /\ "SENT" \in Values(Marked(s, x)) => "SENT" \in Values(s) \/ x = "SENT"
<1>1. Len(s) \in Nat /\ DOMAIN s = 1..Len(s) /\ \A i \in DOMAIN s : s[i] \in Statuses
  BY LenProperties, ElementOfSeq
<1>2. Marked(s, x) \in [1..Len(s) -> Statuses]
  BY <1>1 DEF Marked, Statuses
<1>3. Marked(s, x) \in Seq(Statuses)
  BY <1>1, <1>2, SeqDef
<1>4. Len(Marked(s, x)) = Len(s)
  BY <1>1, <1>2, <1>3, LenProperties
<1>5. QED
  BY <1>1, <1>3, <1>4 DEF Marked, Values

LEMMA CallsCount ==
  ASSUME NEW a \in 1..MaxAttempts
  PROVE  /\ Before(1) = 0 /\ Before(a) \in Nat /\ Before(a + 1) = Before(a) + MaxRuns
         /\ Before(a) + MaxRuns <= MaxAttempts * MaxRuns /\ MaxAttempts * MaxRuns \in Nat
<1>1. MaxAttempts \in Nat /\ MaxRuns \in Nat /\ a - 1 \in Nat
  BY PushAssumption
<1>2. \A x, y, z \in Nat : x <= y => x * z <= y * z
  OBVIOUS
<1>3. \A x, z \in Nat : (x + 1) * z = x * z + z /\ x * z \in Nat
  OBVIOUS
<1>4. Before(1) = 0
  BY <1>1 DEF Before
<1>5. a * MaxRuns = (a - 1) * MaxRuns + MaxRuns /\ (a - 1) * MaxRuns \in Nat
  <2>1. (a - 1) + 1 = a
    OBVIOUS
  <2>2. QED
    BY <1>1, <1>3, <2>1
<1>6. Before(a) = (a - 1) * MaxRuns /\ Before(a + 1) = a * MaxRuns
  <2>1. (a + 1) - 1 = a
    OBVIOUS
  <2>2. QED
    BY <2>1 DEF Before
<1>7. a * MaxRuns <= MaxAttempts * MaxRuns /\ MaxAttempts * MaxRuns \in Nat
  BY <1>1, <1>2
<1>8. QED
  BY <1>4, <1>5, <1>6, <1>7

LEMMA PushBegins == PushInit => PushInv
<1> SUFFICES ASSUME PushInit PROVE PushInv
  OBVIOUS
<1>1. MaxAttempts \in Nat /\ MaxRuns \in Nat /\ MaxAttempts * MaxRuns \in Nat
  BY PushAssumption
<1>2. <<>> \in Seq(Statuses) /\ Len(<<>>) = 0 /\ <<>> # None
  BY EmptySeq, PushAssumption
<1>3. PushTypes
  BY <1>2 DEF PushInit, PushTypes
<1>4. ASSUME NEW n \in Pushed PROVE NoteFits(n)
  <2>1. Unpublished(n)
    BY DEF PushInit, Unpublished, NoJob, NoWorker, PushJobs
  <2>2. Says(n) = {}
    BY DEF PushInit, Says, Values
  <2>3. QED
    BY <1>1, <1>2, <2>1, <2>2 DEF PushInit, Bounded, NoteFits
<1>5. QED
  BY <1>3, <1>4 DEF PushInv

\* A step that has nothing to do with a notification.
Untouched(m) ==
  /\ publisher'[m] = publisher[m] /\ delivery'[m] = delivery[m] /\ sends'[m] = sends[m] /\ again'[m] = again[m]
  /\ (m \in accepted' <=> m \in accepted) /\ (m \in faulted' <=> m \in faulted) /\ (m \in stranded' <=> m \in stranded)
  /\ \A j \in PushJobs : j.push = m => queue'[j] = queue[j]
  /\ \A w \in Workers :
       \/ pusher'[w] = pusher[w]
       \/ (pusher[w] = None \/ pusher[w].job.push # m) /\ (pusher'[w] = None \/ pusher'[w].job.push # m)

LEMMA StaysFit == ASSUME NEW m \in Pushed, Untouched(m), NoteFits(m) PROVE NoteFits(m)'
<1>1. Says(m)' = Says(m) /\ (m \in Kept' <=> m \in Kept)
  BY DEF Says, Values, Kept, Untouched
<1>2. (NoJob(m)' <=> NoJob(m)) /\ (NoWorker(m)' <=> NoWorker(m))
  BY DEF NoJob, NoWorker, Untouched
<1>3. \A a, r, s, k : Counted(m, a, r, s, k)' <=> Counted(m, a, r, s, k)
  BY <1>1 DEF Counted, Before, Untouched
<1>4. (Waits(m)' <=> Waits(m)) /\ (Told(m)' <=> Told(m)) /\ (HasQueuedRow(m)' <=> HasQueuedRow(m)) /\ (Bounded(m)' <=> Bounded(m))
  BY <1>1 DEF Waits, Told, Untouched, HasQueuedRow, Bounded
<1>5. Unpublished(m) => Unpublished(m)'
  BY <1>2 DEF Unpublished, Untouched
<1>6. Rowed(m) => Rowed(m)'
  BY <1>2, <1>3, <1>4 DEF Rowed, Untouched
<1>7. Over(m) => Over(m)'
  BY <1>2, <1>4 DEF Over, Untouched
<1>8. Enqueued(m) => Enqueued(m)'
  <2> SUFFICES ASSUME Enqueued(m) PROVE Enqueued(m)'
    OBVIOUS
  <2>1. PICK j \in PushJobs : OnlyJob(m, j) /\ Counted(m, j.attempt, j.run, 0, 0)
    BY DEF Enqueued
  <2>2. OnlyJob(m, j)'
    BY <1>2, <2>1 DEF OnlyJob, Untouched
  <2>3. Counted(m, j.attempt, j.run, 0, 0)'
    BY <1>3, <2>1
  <2>4. QED
    BY <1>4, <2>2, <2>3 DEF Enqueued, Untouched
<1>9. Handled(m) => Handled(m)'
  <2> SUFFICES ASSUME Handled(m) PROVE Handled(m)'
    OBVIOUS
  <2>1. PICK w \in Workers : OnlyWorker(m, w) /\ HandFits(m, pusher[w])
    BY DEF Handled
  <2>2. pusher'[w] = pusher[w]
    BY <2>1 DEF OnlyWorker, Untouched
  <2>3. OnlyWorker(m, w)'
    BY <1>2, <2>1, <2>2 DEF OnlyWorker, Untouched
  <2>4. HandFits(m, pusher[w])'
    BY <1>1, <1>3, <1>4, <2>1, <2>2 DEF HandFits, Untouched
  <2>5. QED
    BY <2>3, <2>4 DEF Handled, Untouched
<1>10. QED
  BY <1>4, <1>5, <1>6, <1>7, <1>8, <1>9 DEF NoteFits

LEMMA NotesApart ==
  ASSUME PushInv, NEW n \in Pushed, PushTypes', NoteFits(n)', \A m \in Pushed : m # n => Untouched(m)
  PROVE  PushInv'
BY StaysFit DEF PushInv

LEMMA QueuedIs ==
  ASSUME PushInv, NEW j \in PushJobs, queue[j] > 0
  PROVE  /\ j.push \in Pushed /\ publisher[j.push] = "done" /\ OnlyJob(j.push, j) /\ Bounded(j.push)
         /\ Counted(j.push, j.attempt, j.run, 0, 0) /\ Waits(j.push) /\ Told(j.push)
<1>1. j.push \in Pushed
  BY DEF PushJobs
<1>2. ~NoJob(j.push)
  BY DEF NoJob
<1>3. NoteFits(j.push) /\ queue \in [PushJobs -> Nat]
  BY <1>1 DEF PushInv, PushTypes
<1>4. ~Unpublished(j.push) /\ ~Rowed(j.push) /\ ~Over(j.push)
  BY <1>2 DEF Unpublished, Rowed, Over
<1>5. ~Handled(j.push)
  BY <1>2 DEF Handled, OnlyWorker
<1>6. Enqueued(j.push) /\ Bounded(j.push)
  BY <1>3, <1>4, <1>5 DEF NoteFits
<1>7. PICK i \in PushJobs : OnlyJob(j.push, i) /\ Counted(j.push, i.attempt, i.run, 0, 0)
  BY <1>6 DEF Enqueued
<1>8. i = j
  BY <1>3, <1>7 DEF OnlyJob
<1>9. QED
  BY <1>1, <1>6, <1>7, <1>8 DEF Enqueued

LEMMA HeldIs ==
  ASSUME PushInv, NEW w \in Workers, pusher[w] # None
  PROVE  /\ pusher[w] \in PusherRow /\ pusher[w].job \in PushJobs /\ pusher[w].job.push \in Pushed
         /\ publisher[pusher[w].job.push] = "done" /\ OnlyWorker(pusher[w].job.push, w) /\ Bounded(pusher[w].job.push)
         /\ HandFits(pusher[w].job.push, pusher[w])
<1>1. pusher[w] \in PusherRow
  BY DEF PushInv, PushTypes
<1>2. pusher[w].job \in PushJobs
  BY <1>1 DEF PusherRow
<1>3. PICK n \in Pushed : n = pusher[w].job.push
  BY <1>2 DEF PushJobs
<1>4. ~NoWorker(n)
  BY <1>3 DEF NoWorker
<1>5. NoteFits(n)
  BY DEF PushInv
<1>6. ~Unpublished(n) /\ ~Rowed(n) /\ ~Over(n)
  BY <1>4 DEF Unpublished, Rowed, Over
<1>7. ~Enqueued(n)
  BY <1>4 DEF Enqueued, OnlyJob
<1>8. Handled(n) /\ Bounded(n)
  BY <1>5, <1>6, <1>7 DEF NoteFits
<1>9. PICK v \in Workers : OnlyWorker(n, v) /\ HandFits(n, pusher[v])
  BY <1>8 DEF Handled
<1>10. v = w
  BY <1>3, <1>9 DEF OnlyWorker
<1>11. QED
  BY <1>1, <1>2, <1>3, <1>8, <1>9, <1>10 DEF Handled

-----------------------------------------------------------------------------
(* The publisher, the user's devices and the pruning.                       *)

LEMMA MutedStep == ASSUME PushInv, NEW n \in Pushed, PublishMuted(n) PROVE PushInv'
<1>1. /\ publisher[n] = None /\ publisher' = [publisher EXCEPT ![n] = "done"]
      /\ UNCHANGED <<delivery, token, queue, pusher, sends, accepted, again, faulted, stranded>>
  BY DEF PublishMuted
<1>2. publisher' \in [Pushed -> { None, "row", "done" }] /\ publisher'[n] = "done"
      /\ \A m \in Pushed : m # n => publisher'[m] = publisher[m]
  BY <1>1 DEF PushInv, PushTypes
<1>3. PushTypes'
  BY <1>1, <1>2 DEF PushInv, PushTypes
<1>4. Unpublished(n) /\ Bounded(n)
  <2>1. NoteFits(n) /\ None # "row" /\ None # "done"
    BY PushAssumption DEF PushInv
  <2>2. QED
    BY <1>1, <2>1 DEF NoteFits, Rowed, Enqueued, Handled, Over
<1>5. Bounded(n)'
  BY <1>1, <1>4 DEF Bounded, Kept, Says, Values
<1>6. Over(n)'
  BY <1>1, <1>2, <1>4 DEF Unpublished, Over, NoJob, NoWorker, Told, HasQueuedRow, Kept, Says, Values
<1>7. \A m \in Pushed : m # n => Untouched(m)
  BY <1>1, <1>2 DEF Untouched
<1>8. QED
  BY <1>3, <1>5, <1>6, <1>7, NotesApart DEF NoteFits

LEMMA RowStep == ASSUME PushInv, NEW n \in Pushed, PublishRow(n) PROVE PushInv'
<1>1. /\ publisher[n] = None /\ publisher' = [publisher EXCEPT ![n] = "row"] /\ n \in Kept
      /\ delivery' = [delivery EXCEPT ![n] = Append(delivery[n], "QUEUED")]
      /\ UNCHANGED <<token, queue, pusher, sends, accepted, again, faulted, stranded>>
  BY DEF PublishRow, QueueRow
<1>2. publisher' \in [Pushed -> { None, "row", "done" }] /\ publisher'[n] = "row"
      /\ \A m \in Pushed : m # n => publisher'[m] = publisher[m]
  BY <1>1 DEF PushInv, PushTypes
<1>3. Unpublished(n) /\ Bounded(n)
  <2>1. NoteFits(n) /\ None # "row" /\ None # "done"
    BY PushAssumption DEF PushInv
  <2>2. QED
    BY <1>1, <2>1 DEF NoteFits, Rowed, Enqueued, Handled, Over
<1>4. delivery[n] = <<>> /\ <<>> \in Seq(Statuses) /\ Len(<<>>) = 0 /\ "QUEUED" \in Statuses
  BY <1>3, EmptySeq DEF Unpublished, Statuses
<1> DEFINE d == Append(delivery[n], "QUEUED")
<1>5. d \in Seq(Statuses) /\ Len(d) = 1 /\ Values(d) = { "QUEUED" }
  <2>1. d \in Seq(Statuses) /\ Len(d) = Len(delivery[n]) + 1 /\ Values(d) = Values(delivery[n]) \cup { "QUEUED" }
    BY <1>4, RowAppended
  <2>2. Values(<<>>) = {}
    BY DEF Values
  <2>3. QED
    BY <1>4, <2>1, <2>2
<1> HIDE DEF d
<1>6. delivery' \in [Pushed -> { None } \cup Seq(Statuses)] /\ delivery'[n] = d
      /\ \A m \in Pushed : m # n => delivery'[m] = delivery[m]
  BY <1>1, <1>5 DEF PushInv, PushTypes, d
<1>7. PushTypes'
  BY <1>1, <1>2, <1>6 DEF PushInv, PushTypes
<1>8. 1 \in 1..MaxAttempts /\ MaxAttempts \in Nat /\ MaxRuns \in Nat
  BY PushAssumption
<1>9. sends'[n] = 0 /\ again'[n] = 0 /\ n \notin accepted'
  BY <1>1, <1>3 DEF Unpublished
<1>10. Says(n)' = { "QUEUED" } /\ Len(delivery'[n]) = 1
  <2>1. delivery'[n] = d /\ Len(d) = 1 /\ Values(d) = { "QUEUED" }
    BY <1>5, <1>6
  <2>2. QED
    BY <2>1 DEF Says
<1>11. Bounded(n)'
  <2>1. MaxAttempts * MaxRuns \in Nat
    BY <1>8, CallsCount
  <2>2. Len(delivery'[n]) <= MaxAttempts + again'[n] /\ sends'[n] <= MaxAttempts + again'[n]
    BY <1>8, <1>9, <1>10
  <2>3. QED
    BY <1>9, <1>10, <2>1, <2>2 DEF Bounded
<1>12. Rowed(n)'
  <2>1. Counted(n, 1, 1, 0, 0)'
    <3>1. Before(1) = 0
      BY <1>8, CallsCount
    <3>2. Len(delivery'[n]) <= 1 + 0 + again'[n] /\ sends'[n] = 0 /\ again'[n] = 0
      BY <1>9, <1>10
    <3>3. QED
      BY <3>1, <3>2 DEF Counted
  <2>2. Waits(n)' /\ Told(n)'
    BY <1>9, <1>10 DEF Waits, Told
  <2>3. NoJob(n)' /\ NoWorker(n)'
    BY <1>1, <1>3 DEF Unpublished, NoJob, NoWorker
  <2>4. QED
    BY <1>2, <2>1, <2>2, <2>3 DEF Rowed
<1>13. \A m \in Pushed : m # n => Untouched(m)
  BY <1>1, <1>2, <1>6 DEF Untouched
<1>14. QED
  BY <1>7, <1>11, <1>12, <1>13, NotesApart DEF NoteFits

\* A notification whose row is there and whose job is not.
LEMMA RowedIs == ASSUME PushInv, NEW n \in Pushed, publisher[n] = "row" PROVE Rowed(n) /\ Bounded(n)
<1>1. NoteFits(n) /\ None # "row"
  BY PushAssumption DEF PushInv, PusherRow
<1>2. QED
  BY <1>1 DEF NoteFits, Unpublished, Enqueued, Handled, Over

\* A job joins the queue.
LEMMA JobAdded ==
  ASSUME PushInv, NEW n \in Pushed, NEW a \in 1..MaxAttempts, NEW r \in 1..MaxRuns, AddJob(n, a, r), NoJob(n)
  PROVE  \E k \in PushJobs :
           /\ k = [push |-> n, attempt |-> a, run |-> r] /\ queue' \in [PushJobs -> Nat] /\ queue'[k] = 1
           /\ \A i \in PushJobs : i # k => queue'[i] = queue[i]
<1> DEFINE k == [push |-> n, attempt |-> a, run |-> r]
<1>1. k \in PushJobs /\ k.push = n
  BY DEF PushJobs
<1>2. queue \in [PushJobs -> Nat]
  BY DEF PushInv, PushTypes
<1>3. queue' = [queue EXCEPT ![k] = queue[k] + 1]
  BY DEF AddJob
<1>4. queue[k] = 0
  BY <1>1 DEF NoJob
<1> HIDE DEF k
<1>5. queue' \in [PushJobs -> Nat] /\ queue'[k] = 1 /\ \A i \in PushJobs : i # k => queue'[i] = queue[i]
  BY <1>1, <1>2, <1>3, <1>4
<1>6. QED
  BY <1>1, <1>5 DEF k

LEMMA JobStep == ASSUME PushInv, NEW n \in Pushed, PublishJob(n) PROVE PushInv'
<1>1. /\ publisher[n] = "row" /\ publisher' = [publisher EXCEPT ![n] = "done"] /\ AddJob(n, 1, 1)
      /\ UNCHANGED <<delivery, token, pusher, sends, accepted, again, faulted, stranded>>
  BY DEF PublishJob
<1>2. publisher' \in [Pushed -> { None, "row", "done" }] /\ publisher'[n] = "done"
      /\ \A m \in Pushed : m # n => publisher'[m] = publisher[m]
  BY <1>1 DEF PushInv, PushTypes
<1>3. Rowed(n) /\ Bounded(n)
  BY <1>1, RowedIs
<1>4. 1 \in 1..MaxAttempts /\ 1 \in 1..MaxRuns
  BY PushAssumption
<1>5. PICK k \in PushJobs :
           /\ k = [push |-> n, attempt |-> 1, run |-> 1] /\ queue' \in [PushJobs -> Nat] /\ queue'[k] = 1
           /\ \A i \in PushJobs : i # k => queue'[i] = queue[i]
  BY <1>1, <1>3, <1>4, JobAdded DEF Rowed
<1>6. k.push = n /\ k.attempt = 1 /\ k.run = 1
  BY <1>5
<1>7. PushTypes'
  BY <1>1, <1>2, <1>5 DEF PushInv, PushTypes
<1>8. Bounded(n)' /\ Waits(n)' /\ Told(n)'
  BY <1>1, <1>3 DEF Rowed, Bounded, Waits, Told, Kept, Says, Values
<1>9. Counted(n, 1, 1, 0, 0)'
  BY <1>1, <1>3 DEF Rowed, Counted, Kept, Before
<1>10. OnlyJob(n, k)'
  BY <1>1, <1>3, <1>5, <1>6 DEF Rowed, OnlyJob, NoJob, NoWorker
<1>11. Enqueued(n)'
  BY <1>2, <1>6, <1>8, <1>9, <1>10 DEF Enqueued
<1>12. \A m \in Pushed : m # n => Untouched(m)
  BY <1>1, <1>2, <1>5, <1>6 DEF Untouched
<1>13. QED
  BY <1>7, <1>8, <1>11, <1>12, NotesApart DEF NoteFits

LEMMA PublisherStep == ASSUME PushInv, NEW n \in Pushed, PublisherDies(n) PROVE PushInv'
<1>1. /\ publisher[n] = "row" /\ publisher' = [publisher EXCEPT ![n] = "done"]
      /\ stranded' = stranded \cup { n } /\ faulted' = faulted \cup { n }
      /\ UNCHANGED <<delivery, token, queue, pusher, sends, accepted, again>>
  BY DEF PublisherDies
<1>2. publisher' \in [Pushed -> { None, "row", "done" }] /\ publisher'[n] = "done"
      /\ \A m \in Pushed : m # n => publisher'[m] = publisher[m]
  BY <1>1 DEF PushInv, PushTypes
<1>3. Rowed(n) /\ Bounded(n)
  BY <1>1, RowedIs
<1>4. PushTypes'
  BY <1>1, <1>2 DEF PushInv, PushTypes
<1>5. Bounded(n)'
  BY <1>1, <1>3 DEF Bounded, Kept, Says, Values
<1>6. Over(n)'
  BY <1>1, <1>2, <1>3 DEF Rowed, Over, NoJob, NoWorker, Told
<1>7. \A m \in Pushed : m # n => Untouched(m)
  BY <1>1, <1>2 DEF Untouched
<1>8. QED
  BY <1>4, <1>5, <1>6, <1>7, NotesApart DEF NoteFits

LEMMA PruneStep == ASSUME PushInv, NEW n \in Pushed, PrunePushed(n) PROVE PushInv'
<1>1. /\ publisher[n] # None /\ delivery' = [delivery EXCEPT ![n] = None]
      /\ UNCHANGED <<publisher, token, queue, pusher, sends, accepted, again, faulted, stranded>>
  BY DEF PrunePushed
<1>2. delivery' \in [Pushed -> { None } \cup Seq(Statuses)] /\ delivery'[n] = None
      /\ \A m \in Pushed : m # n => delivery'[m] = delivery[m]
  BY <1>1 DEF PushInv, PushTypes
<1>3. PushTypes'
  BY <1>1, <1>2 DEF PushInv, PushTypes
<1>4. n \notin Kept'
  BY <1>2 DEF Kept
<1>5. Waits(n)' /\ Told(n)' /\ ~HasQueuedRow(n)'
  BY <1>4 DEF Waits, Told, HasQueuedRow
<1>6. NoteFits(n)
  BY DEF PushInv
<1>7. Bounded(n)'
  BY <1>1, <1>4, <1>6 DEF NoteFits, Bounded
<1>8. \A a, r, s, k : Counted(n, a, r, s, k) => Counted(n, a, r, s, k)'
  BY <1>1, <1>4 DEF Counted, Before
<1>9. (NoJob(n) => NoJob(n)') /\ (NoWorker(n) => NoWorker(n)')
  BY <1>1 DEF NoJob, NoWorker
<1>10. ~Unpublished(n)
  BY <1>1 DEF Unpublished
<1>11. Rowed(n) => Rowed(n)'
  BY <1>1, <1>5, <1>8, <1>9 DEF Rowed
<1>12. Over(n) => Over(n)'
  BY <1>1, <1>5, <1>9 DEF Over
<1>13. Enqueued(n) => Enqueued(n)'
  BY <1>1, <1>5, <1>8, <1>9 DEF Enqueued, OnlyJob
<1>14. Handled(n) => Handled(n)'
  <2> SUFFICES ASSUME Handled(n) PROVE Handled(n)'
    OBVIOUS
  <2>1. PICK w \in Workers : OnlyWorker(n, w) /\ HandFits(n, pusher[w])
    BY DEF Handled
  <2>2. OnlyWorker(n, w)'
    BY <1>1, <1>9, <2>1 DEF OnlyWorker
  <2>3. HandFits(n, pusher[w])'
    BY <1>1, <1>5, <1>8, <2>1 DEF HandFits
  <2>4. QED
    BY <1>1, <2>1, <2>2, <2>3 DEF Handled
<1>15. \A m \in Pushed : m # n => Untouched(m)
  BY <1>1, <1>2 DEF Untouched
<1>16. QED
  BY <1>3, <1>6, <1>7, <1>10, <1>11, <1>12, <1>13, <1>14, <1>15, NotesApart DEF NoteFits

LEMMA TokenStep ==
  ASSUME PushInv, token' \subseteq Tokens,
         UNCHANGED <<publisher, delivery, queue, pusher, sends, accepted, again, faulted, stranded>>
  PROVE  PushInv'
<1>1. PushTypes'
  BY DEF PushInv, PushTypes
<1>2. \A m \in Pushed : Untouched(m)
  BY DEF Untouched
<1>3. QED
  BY <1>1, <1>2, StaysFit DEF PushInv

-----------------------------------------------------------------------------
(* The workers.                                                             *)

\* What a worker's step on its notification leaves alone.
Apart(n) ==
  /\ publisher' = publisher
  /\ \A m \in Pushed : m # n =>
       /\ delivery'[m] = delivery[m] /\ sends'[m] = sends[m] /\ again'[m] = again[m]
       /\ (m \in accepted' <=> m \in accepted) /\ (m \in faulted' <=> m \in faulted)
       /\ (m \in stranded' <=> m \in stranded)
       /\ \A j \in PushJobs : j.push = m => queue'[j] = queue[j]

\* A worker goes on with its job.
LEMMA HandGoesOn ==
  ASSUME PushInv, NEW w \in Workers, pusher[w] # None, NEW n \in Pushed, n = pusher[w].job.push, Apart(n), PushTypes',
         queue' = queue, pusher'[w] \in PusherRow, pusher'[w].job = pusher[w].job,
         \A v \in Workers : v # w => pusher'[v] = pusher[v], Bounded(n)', HandFits(n, pusher[w])'
  PROVE  PushInv'
<1>1. publisher[n] = "done" /\ OnlyWorker(n, w)
  BY HeldIs
<1>2. pusher'[w] # None
  BY PushAssumption
<1>3. OnlyWorker(n, w)'
  BY <1>1, <1>2 DEF OnlyWorker, NoJob
<1>4. Handled(n)'
  BY <1>1, <1>3 DEF Handled, Apart
<1>5. \A m \in Pushed : m # n => Untouched(m)
  BY DEF Apart, Untouched
<1>6. QED
  BY <1>4, <1>5, NotesApart DEF NoteFits

\* A worker has done with its job, and the notification is in the queue again
\* or it is over.
LEMMA HandEnds ==
  ASSUME PushInv, NEW w \in Workers, pusher[w] # None, NEW n \in Pushed, n = pusher[w].job.push, Apart(n), PushTypes',
         pusher' = [pusher EXCEPT ![w] = None], Bounded(n)', Told(n)',
         \/ NoJob(n)' /\ (HasQueuedRow(n) => n \in stranded)'
         \/ \E j \in PushJobs :
              /\ j.push = n /\ queue'[j] = 1 /\ \A i \in PushJobs : i.push = n /\ i # j => queue'[i] = 0
              /\ Counted(n, j.attempt, j.run, 0, 0)' /\ Waits(n)'
  PROVE  PushInv'
<1>1. publisher[n] = "done" /\ OnlyWorker(n, w)
  BY HeldIs
<1>2. \A v \in Workers : pusher'[v] = IF v = w THEN None ELSE pusher[v]
  BY DEF PushInv, PushTypes
<1>3. NoWorker(n)'
  BY <1>1, <1>2 DEF OnlyWorker, NoWorker
<1>4. Over(n)' \/ Enqueued(n)'
  <2>1. CASE NoJob(n)' /\ (HasQueuedRow(n) => n \in stranded)'
    BY <1>1, <1>3, <2>1 DEF Over, Apart
  <2>2. CASE \E j \in PushJobs :
              /\ j.push = n /\ queue'[j] = 1 /\ \A i \in PushJobs : i.push = n /\ i # j => queue'[i] = 0
              /\ Counted(n, j.attempt, j.run, 0, 0)' /\ Waits(n)'
    <3>1. PICK j \in PushJobs :
              /\ j.push = n /\ queue'[j] = 1 /\ \A i \in PushJobs : i.push = n /\ i # j => queue'[i] = 0
              /\ Counted(n, j.attempt, j.run, 0, 0)' /\ Waits(n)'
      BY <2>2
    <3>2. OnlyJob(n, j)'
      BY <1>3, <3>1 DEF OnlyJob
    <3>3. QED
      BY <1>1, <3>1, <3>2 DEF Enqueued, Apart
  <2>3. QED
    BY <2>1, <2>2
<1>5. \A m \in Pushed : m # n => Untouched(m)
  BY <1>1, <1>2 DEF Apart, Untouched
<1>6. QED
  BY <1>4, <1>5, NotesApart DEF NoteFits

LEMMA TakeStep == ASSUME PushInv, NEW w \in Workers, NEW j \in PushJobs, TakePush(w, j) PROVE PushInv'
<1> DEFINE h == [job |-> j, step |-> FirstStep(j.push), invalid |-> {}, targets |-> token]
<1>1. /\ pusher[w] = None /\ queue[j] > 0 /\ queue' = [queue EXCEPT ![j] = queue[j] - 1]
      /\ IF j.push \notin Kept THEN pusher' = [pusher EXCEPT ![w] = None] ELSE pusher' = [pusher EXCEPT ![w] = h]
      /\ UNCHANGED <<publisher, delivery, token, sends, accepted, again, faulted, stranded>>
  BY DEF TakePush, FirstStep
<1>2. PICK n \in Pushed : n = j.push
  BY DEF PushJobs
<1>3. publisher[n] = "done" /\ OnlyJob(n, j) /\ Bounded(n) /\ Counted(n, j.attempt, j.run, 0, 0) /\ Waits(n) /\ Told(n)
  BY <1>1, <1>2, QueuedIs
<1>4. queue' \in [PushJobs -> Nat] /\ queue'[j] = 0 /\ \A i \in PushJobs : i # j => queue'[i] = queue[i]
  <2>1. queue \in [PushJobs -> Nat] /\ queue[j] = 1
    BY <1>3 DEF PushInv, PushTypes, OnlyJob
  <2>2. queue' = [queue EXCEPT ![j] = 0]
    BY <1>1, <2>1
  <2>3. QED
    BY <2>1, <2>2
<1>5. NoJob(n)'
  BY <1>3, <1>4 DEF OnlyJob, NoJob
<1>6. Bounded(n)' /\ Waits(n)' /\ Told(n)'
  BY <1>1, <1>3 DEF Bounded, Waits, Told, Kept, Says, Values
<1>7. \A a, r, s, k : Counted(n, a, r, s, k)' <=> Counted(n, a, r, s, k)
  BY <1>1 DEF Counted, Before, Kept
<1>8. CASE n \notin Kept
  <2>1. pusher' = [pusher EXCEPT ![w] = None]
    BY <1>1, <1>2, <1>8
  <2>2. pusher' \in [Workers -> PusherRow \cup { None }] /\ \A v \in Workers : pusher'[v] = pusher[v]
    BY <1>1, <2>1 DEF PushInv, PushTypes
  <2>3. PushTypes'
    BY <1>1, <1>4, <2>2 DEF PushInv, PushTypes
  <2>4. NoWorker(n)'
    BY <1>3, <2>2 DEF OnlyJob, NoWorker
  <2>5. Over(n)'
    BY <1>1, <1>3, <1>5, <1>6, <1>8, <2>4 DEF Over, HasQueuedRow, Kept
  <2>6. \A m \in Pushed : m # n => Untouched(m)
    BY <1>1, <1>2, <1>4, <2>2 DEF Untouched
  <2>7. QED
    BY <1>6, <2>3, <2>5, <2>6, NotesApart DEF NoteFits
<1>9. CASE n \in Kept
  <2>1. pusher' = [pusher EXCEPT ![w] = h]
    BY <1>1, <1>2, <1>9
  <2>0. h \in PusherRow
    BY DEF PusherRow, FirstStep, PushInv, PushTypes
  <2>2. PICK x \in PusherRow : x = h /\ x.job = j /\ x.step \in { "fail", "send" }
    BY <2>0 DEF FirstStep
  <2> HIDE DEF h
  <2>3. x # None
    BY <2>2, PushAssumption
  <2>4. pusher' \in [Workers -> PusherRow \cup { None }] /\ pusher'[w] = x /\ \A v \in Workers : v # w => pusher'[v] = pusher[v]
    BY <2>1, <2>2 DEF PushInv, PushTypes
  <2>5. PushTypes'
    BY <1>1, <1>4, <2>4 DEF PushInv, PushTypes
  <2>6. OnlyWorker(n, w)'
    BY <1>2, <1>3, <1>5, <2>2, <2>3, <2>4 DEF OnlyWorker, OnlyJob, NoWorker
  <2>7. Counted(n, j.attempt, j.run, IF x.step = "send" THEN 0 ELSE 1, IF x.step = "enqueue" THEN 1 ELSE 0)'
    <3>1. Counted(n, j.attempt, j.run, 0, 0)' /\ sends'[n] \in Nat /\ again'[n] \in Nat
      BY <1>3, <1>7, <2>5 DEF PushTypes
    <3>2. Before(j.attempt) \in Nat /\ j.attempt \in Nat /\ j.run \in Nat
      BY CallsCount DEF PushJobs
    <3>3. QED
      BY <2>2, <3>1, <3>2 DEF Counted, Before
  <2>8. HandFits(n, pusher[w])'
    BY <1>6, <2>2, <2>4, <2>7 DEF HandFits
  <2>9. Handled(n)'
    BY <1>1, <1>3, <2>6, <2>8 DEF Handled
  <2>10. \A m \in Pushed : m # n => Untouched(m)
    BY <1>1, <1>2, <1>4, <2>2, <2>4 DEF Untouched
  <2>11. QED
    BY <1>6, <2>5, <2>9, <2>10, NotesApart DEF NoteFits
<1>10. QED
  BY <1>8, <1>9

PushSteps == { "send", "sent", "rejected", "fail", "retry", "row", "enqueue" }

LEMMA StepTaken ==
  ASSUME PushInv, NEW w \in Workers, pusher[w] # None, NEW s \in PushSteps, NEW i \in SUBSET Tokens,
         \/ pusher' = [pusher EXCEPT ![w].step = s]
         \/ pusher' = [pusher EXCEPT ![w].invalid = i]  /\ s = pusher[w].step
         \/ pusher' = [pusher EXCEPT ![w].invalid = i, ![w].step = s]
         \/ pusher' = [pusher EXCEPT ![w].step = s, ![w].invalid = i]
  PROVE  /\ pusher' \in [Workers -> PusherRow \cup { None }] /\ pusher'[w] \in PusherRow
         /\ pusher'[w].job = pusher[w].job /\ pusher'[w].step = s
         /\ \A v \in Workers : v # w => pusher'[v] = pusher[v]
<1>1. pusher \in [Workers -> PusherRow \cup { None }] /\ pusher[w] \in PusherRow
  BY DEF PushInv, PushTypes
<1> DEFINE a == [pusher[w] EXCEPT !.step = s]
           b == [pusher[w] EXCEPT !.invalid = i]
           c == [b EXCEPT !.step = s]
           d == [a EXCEPT !.invalid = i]
<1>2. /\ a \in PusherRow /\ a.job = pusher[w].job /\ a.step = s
      /\ b \in PusherRow /\ b.job = pusher[w].job /\ b.step = pusher[w].step
  BY <1>1 DEF PusherRow, PushSteps
<1>3. c \in PusherRow /\ c.job = pusher[w].job /\ c.step = s
  BY <1>1, <1>2 DEF PusherRow, PushSteps
<1>4. d \in PusherRow /\ d.job = pusher[w].job /\ d.step = s
  BY <1>1, <1>2 DEF PusherRow, PushSteps
<1>5. \/ pusher' = [pusher EXCEPT ![w] = a]
      \/ pusher' = [pusher EXCEPT ![w] = b] /\ s = pusher[w].step
      \/ pusher' = [pusher EXCEPT ![w] = c]
      \/ pusher' = [pusher EXCEPT ![w] = d]
  <2>1. CASE pusher' = [pusher EXCEPT ![w].step = s]
    BY <1>1, <2>1
  <2>2. CASE pusher' = [pusher EXCEPT ![w].invalid = i] /\ s = pusher[w].step
    BY <1>1, <2>2
  <2>3. CASE pusher' = [pusher EXCEPT ![w].invalid = i, ![w].step = s]
    BY <1>1, <2>3
  <2>4. CASE pusher' = [pusher EXCEPT ![w].step = s, ![w].invalid = i]
    BY <1>1, <2>4
  <2>5. QED
    BY <2>1, <2>2, <2>3, <2>4
<1> HIDE DEF a, b, c, d
<1>6. QED
  BY <1>1, <1>2, <1>3, <1>4, <1>5

\* The counts of what a worker holds.
LEMMA HeldCounts ==
  ASSUME PushInv, NEW w \in Workers, pusher[w] # None, NEW n \in Pushed, n = pusher[w].job.push
  PROVE  /\ pusher[w].job.attempt \in 1..MaxAttempts /\ pusher[w].job.run \in 1..MaxRuns
         /\ Before(pusher[w].job.attempt) \in Nat
         /\ Before(pusher[w].job.attempt) + MaxRuns <= MaxAttempts * MaxRuns
         /\ Before(pusher[w].job.attempt + 1) = Before(pusher[w].job.attempt) + MaxRuns
         /\ MaxAttempts \in Nat /\ MaxRuns \in Nat /\ MaxAttempts * MaxRuns \in Nat
         /\ sends[n] \in Nat /\ again[n] \in Nat
         /\ n \in Kept => delivery[n] \in Seq(Statuses) /\ Len(delivery[n]) \in Nat
<1>1. pusher[w].job \in PushJobs
  BY HeldIs
<1>2. pusher[w].job.attempt \in 1..MaxAttempts /\ pusher[w].job.run \in 1..MaxRuns
  BY <1>1 DEF PushJobs
<1>3. n \in Kept => delivery[n] \in Seq(Statuses)
  BY DEF PushInv, PushTypes, Kept
<1>4. QED
  BY <1>2, <1>3, CallsCount, PushAssumption, LenProperties DEF PushInv, PushTypes

\* One more send, from a worker that has not sent yet.
LEMMA SendCounts ==
  ASSUME NEW x \in Nat, NEW b \in Nat, NEW a \in 1..MaxAttempts, NEW r \in 1..MaxRuns, NEW g \in Nat, NEW p \in Nat,
         b + MaxRuns <= p, x <= b + (r - 1) + 0, x <= (a - 1) + g + 0, MaxAttempts \in Nat, MaxRuns \in Nat
  PROVE  x + 1 <= MaxAttempts + g /\ x + 1 <= p /\ x + 1 <= b + (r - 1) + 1 /\ x + 1 <= (a - 1) + g + 1
OBVIOUS

LEMMA AnswerStep == ASSUME PushInv, NEW w \in Workers, Answer(w) PROVE PushInv'
<1>1. pusher[w] # None /\ pusher[w].step = "send"
  BY DEF Answer, On
<1>2. PICK n \in Pushed : n = pusher[w].job.push
  BY <1>1, HeldIs
<1>3. /\ publisher[n] = "done" /\ OnlyWorker(n, w) /\ Bounded(n) /\ HandFits(n, pusher[w])
      /\ pusher[w].targets \subseteq Tokens
  BY <1>1, <1>2, HeldIs DEF PusherRow
<1>4. sends' = [sends EXCEPT ![n] = sends[n] + 1] /\ UNCHANGED <<publisher, delivery, token, queue, again, faulted, stranded>>
  BY <1>2 DEF Answer
<1>5. PICK s \in PushSteps, i \in SUBSET Tokens :
        /\ \/ pusher' = [pusher EXCEPT ![w].step = s]
           \/ pusher' = [pusher EXCEPT ![w].invalid = i, ![w].step = s]
        /\ \/ s = "retry" /\ pusher[w].job.attempt < MaxAttempts /\ accepted' = accepted
           \/ s \in { "fail", "rejected" } /\ accepted' = accepted
           \/ s = "sent" /\ accepted' = accepted \cup { n }
  <2>1. \/ pusher' = [pusher EXCEPT ![w].step = AfterError(w)] /\ accepted' = accepted
        \/ \E delivered \in SUBSET pusher[w].targets : \E invalid \in SUBSET (pusher[w].targets \ delivered) :
             /\ accepted' = IF delivered = {} THEN accepted ELSE accepted \cup { n }
             /\ pusher' = [pusher EXCEPT ![w].invalid = invalid,
                                         ![w].step = IF delivered = {} THEN "rejected" ELSE "sent"]
    BY <1>2 DEF Answer, Step
  <2>2. CASE pusher' = [pusher EXCEPT ![w].step = AfterError(w)] /\ accepted' = accepted
    <3>1. PICK s \in { "retry", "fail" } : s = AfterError(w)
      BY DEF AfterError
    <3>2. s = "retry" => pusher[w].job.attempt < MaxAttempts
      BY <3>1 DEF AfterError
    <3>3. s \in PushSteps /\ {} \in SUBSET Tokens
      BY DEF PushSteps
    <3>4. QED
      BY <2>2, <3>1, <3>2, <3>3
  <2>3. CASE \E delivered \in SUBSET pusher[w].targets : \E invalid \in SUBSET (pusher[w].targets \ delivered) :
             /\ accepted' = IF delivered = {} THEN accepted ELSE accepted \cup { n }
             /\ pusher' = [pusher EXCEPT ![w].invalid = invalid,
                                         ![w].step = IF delivered = {} THEN "rejected" ELSE "sent"]
    <3>0. PICK delivered \in SUBSET pusher[w].targets : \E invalid \in SUBSET (pusher[w].targets \ delivered) :
             /\ accepted' = IF delivered = {} THEN accepted ELSE accepted \cup { n }
             /\ pusher' = [pusher EXCEPT ![w].invalid = invalid,
                                         ![w].step = IF delivered = {} THEN "rejected" ELSE "sent"]
      BY <2>3
    <3>1. PICK invalid \in SUBSET (pusher[w].targets \ delivered) :
             /\ accepted' = IF delivered = {} THEN accepted ELSE accepted \cup { n }
             /\ pusher' = [pusher EXCEPT ![w].invalid = invalid,
                                         ![w].step = IF delivered = {} THEN "rejected" ELSE "sent"]
      BY <3>0
    <3>2. invalid \in SUBSET Tokens /\ "rejected" \in PushSteps /\ "sent" \in PushSteps
      BY <1>3 DEF PushSteps
    <3>3. QED
      BY <3>1, <3>2
  <2>4. QED
    BY <2>1, <2>2, <2>3
<1>6. /\ pusher' \in [Workers -> PusherRow \cup { None }] /\ pusher'[w] \in PusherRow
      /\ pusher'[w].job = pusher[w].job /\ pusher'[w].step = s
      /\ \A v \in Workers : v # w => pusher'[v] = pusher[v]
  BY <1>1, <1>5, StepTaken
<1>7. sends' \in [Pushed -> Nat] /\ sends'[n] = sends[n] + 1 /\ \A m \in Pushed : m # n => sends'[m] = sends[m]
  BY <1>4 DEF PushInv, PushTypes
<1>8. PushTypes'
  BY <1>4, <1>6, <1>7 DEF PushInv, PushTypes
<1>9. Apart(n)
  BY <1>4, <1>5, <1>7 DEF Apart
<1>10. Says(n)' = Says(n) /\ (n \in Kept' <=> n \in Kept)
  BY <1>4 DEF Says, Values, Kept
<1>11. /\ n \in Kept => Len(delivery[n]) <= pusher[w].job.attempt + 0 + again[n]
       /\ sends[n] <= Before(pusher[w].job.attempt) + (pusher[w].job.run - 1) + 0
       /\ sends[n] <= (pusher[w].job.attempt - 1) + again[n] + 0
  BY <1>1, <1>3 DEF HandFits, Counted
<1>15. /\ sends'[n] <= MaxAttempts + again[n] /\ sends'[n] <= MaxAttempts * MaxRuns
       /\ sends'[n] <= Before(pusher[w].job.attempt) + (pusher[w].job.run - 1) + 1
       /\ sends'[n] <= (pusher[w].job.attempt - 1) + again[n] + 1
  <2>1. /\ pusher[w].job.attempt \in 1..MaxAttempts /\ pusher[w].job.run \in 1..MaxRuns
        /\ Before(pusher[w].job.attempt) \in Nat /\ MaxAttempts \in Nat /\ MaxRuns \in Nat /\ MaxAttempts * MaxRuns \in Nat
        /\ Before(pusher[w].job.attempt) + MaxRuns <= MaxAttempts * MaxRuns
        /\ sends[n] \in Nat /\ again[n] \in Nat
    BY <1>1, <1>2, HeldCounts
  <2>2. PICK x \in Nat, g \in Nat, b \in Nat, p \in Nat, a \in 1..MaxAttempts, r \in 1..MaxRuns :
          /\ x = sends[n] /\ g = again[n] /\ b = Before(pusher[w].job.attempt) /\ p = MaxAttempts * MaxRuns
          /\ a = pusher[w].job.attempt /\ r = pusher[w].job.run
    BY <2>1
  <2>3. b + MaxRuns <= p /\ x <= b + (r - 1) + 0 /\ x <= (a - 1) + g + 0 /\ MaxAttempts \in Nat /\ MaxRuns \in Nat
    BY <1>11, <2>1, <2>2
  <2>4. x + 1 <= MaxAttempts + g /\ x + 1 <= p /\ x + 1 <= b + (r - 1) + 1 /\ x + 1 <= (a - 1) + g + 1
    BY <2>3, SendCounts
  <2>5. QED
    BY <1>7, <2>2, <2>4
<1>12. Bounded(n)'
  <2>1. again'[n] = again[n]
    BY <1>4
  <2>2. QED
    BY <1>3, <1>4, <1>5, <1>10, <1>15, <2>1 DEF Bounded
<1>13. HandFits(n, pusher[w])'
  <2>1. Counted(n, pusher[w].job.attempt, pusher[w].job.run, 1, 0)'
    <3>1. again'[n] = again[n] /\ delivery'[n] = delivery[n] /\ pusher'[w].job = pusher[w].job
      BY <1>4, <1>6
    <3>2. QED
      BY <1>10, <1>11, <1>15, <3>1 DEF Counted, Before
  <2>2. Waits(n)'
    BY <1>1, <1>3, <1>4, <1>10 DEF HandFits, Waits
  <2>3. IF s = "sent" THEN n \in accepted' ELSE Told(n)'
    BY <1>1, <1>3, <1>4, <1>5, <1>10 DEF HandFits, Told
  <2>4. QED
    BY <1>5, <1>6, <2>1, <2>2, <2>3 DEF HandFits
<1>14. QED
  BY <1>1, <1>2, <1>4, <1>6, <1>8, <1>9, <1>12, <1>13, HandGoesOn

\* A worker goes on, with the books as they are.
LEMMA HandStays ==
  ASSUME PushInv, NEW w \in Workers, pusher[w] # None, NEW s \in PushSteps, token' \subseteq Tokens,
         pusher[w].step # "send", s # "send", pusher[w].step # "enqueue", s # "enqueue", pusher[w].step # "row", s # "row",
         \/ pusher' = [pusher EXCEPT ![w].invalid = {}]  /\ s = pusher[w].step /\ faulted' = faulted
         \/ /\ pusher' = [pusher EXCEPT ![w].step = s, ![w].invalid = {}]
            /\ s = "retry" => pusher[w].job.attempt < MaxAttempts
            /\ s # "sent" /\ faulted' = faulted \cup { pusher[w].job.push },
         UNCHANGED <<publisher, delivery, queue, sends, accepted, again, stranded>>
  PROVE  PushInv'
<1>1. PICK n \in Pushed : n = pusher[w].job.push
  BY HeldIs
<1>2. OnlyWorker(n, w) /\ Bounded(n) /\ HandFits(n, pusher[w])
  BY <1>1, HeldIs
<1>3. /\ pusher' \in [Workers -> PusherRow \cup { None }] /\ pusher'[w] \in PusherRow
      /\ pusher'[w].job = pusher[w].job /\ pusher'[w].step = s
      /\ \A v \in Workers : v # w => pusher'[v] = pusher[v]
  <2>1. {} \in SUBSET Tokens
    OBVIOUS
  <2>2. QED
    BY <2>1, StepTaken
<1>4. PushTypes'
  BY <1>3 DEF PushInv, PushTypes
<1>5. Apart(n)
  BY <1>1 DEF Apart
<1>6. Says(n)' = Says(n) /\ (n \in Kept' <=> n \in Kept)
  BY DEF Says, Values, Kept
<1>7. Bounded(n)'
  BY <1>2, <1>6 DEF Bounded
<1>8. Counted(n, pusher[w].job.attempt, pusher[w].job.run, 1, 0)'
  <2>1. Counted(n, pusher[w].job.attempt, pusher[w].job.run, 1, 0)
    BY <1>2 DEF HandFits
  <2>2. QED
    BY <1>3, <1>6, <2>1 DEF Counted, Before
<1>9. Waits(n)' /\ (IF s = "sent" THEN n \in accepted' ELSE Told(n)')
  BY <1>1, <1>2, <1>6 DEF HandFits, Waits, Told
<1>10. s \in { "retry", "row", "enqueue" } => pusher[w].job.attempt < MaxAttempts
  BY <1>2 DEF HandFits
<1>11. HandFits(n, pusher[w])'
  BY <1>3, <1>8, <1>9, <1>10 DEF HandFits
<1>12. QED
  BY <1>1, <1>3, <1>4, <1>5, <1>7, <1>11, HandGoesOn

LEMMA DeleteStep == ASSUME PushInv, NEW w \in Workers, DeleteInvalidTokens(w) PROVE PushInv'
<1>1. /\ pusher[w] # None /\ pusher[w].step \in { "sent", "rejected" } /\ token' = token \ pusher[w].invalid
      /\ pusher' = [pusher EXCEPT ![w].invalid = {}]
      /\ UNCHANGED <<publisher, delivery, queue, sends, accepted, again, faulted, stranded>>
  BY DEF DeleteInvalidTokens, On
<1>2. PICK s \in PushSteps : s = pusher[w].step /\ s \in { "sent", "rejected" }
  BY <1>1 DEF PushSteps
<1>3. token' \subseteq Tokens
  BY <1>1 DEF PushInv, PushTypes
<1>4. QED
  BY <1>1, <1>2, <1>3, HandStays

LEMMA StatementStep == ASSUME PushInv, NEW w \in Workers, StatementFails(w) PROVE PushInv'
<1>1. /\ pusher[w] # None /\ pusher[w].step \in { "sent", "rejected" }
      /\ pusher' = [pusher EXCEPT ![w].step = AfterError(w), ![w].invalid = {}]
      /\ faulted' = faulted \cup { pusher[w].job.push }
      /\ UNCHANGED <<publisher, delivery, token, queue, sends, accepted, again, stranded>>
  BY DEF StatementFails, On
<1>2. PICK s \in PushSteps : s = AfterError(w) /\ s \in { "retry", "fail" }
  BY DEF PushSteps, AfterError
<1>3. s = "retry" => pusher[w].job.attempt < MaxAttempts
  BY <1>2 DEF AfterError
<1>4. token' \subseteq Tokens
  BY <1>1 DEF PushInv, PushTypes
<1>5. QED
  BY <1>1, <1>2, <1>3, <1>4, HandStays

\* The rows at the end of a job.
LEMMA MarkStep ==
  ASSUME PushInv, NEW n \in Pushed, NEW x \in { "SENT", "FAILED" }, Mark(n, x)
  PROVE  /\ delivery' \in [Pushed -> { None } \cup Seq(Statuses)] /\ \A m \in Pushed : m # n => delivery'[m] = delivery[m]
         /\ (n \in Kept' <=> n \in Kept) /\ ~HasQueuedRow(n)'
         /\ n \in Kept => /\ Len(delivery'[n]) = Len(delivery[n]) /\ ("QUEUED" \in Says(n) => x \in Says(n)')
                          /\ "SENT" \in Says(n) => "SENT" \in Says(n)'
                          /\ "SENT" \in Says(n)' => "SENT" \in Says(n) \/ x = "SENT"
<1>1. delivery \in [Pushed -> { None } \cup Seq(Statuses)]
  BY DEF PushInv, PushTypes
<1>2. delivery' = [delivery EXCEPT ![n] = IF delivery[n] = None THEN None ELSE Marked(delivery[n], x)]
  BY DEF Mark, Marked
<1>3. CASE delivery[n] = None
  <2>1. delivery' = [delivery EXCEPT ![n] = None]
    BY <1>2, <1>3
  <2>2. delivery' \in [Pushed -> { None } \cup Seq(Statuses)] /\ delivery'[n] = None
        /\ \A m \in Pushed : m # n => delivery'[m] = delivery[m]
    BY <1>1, <2>1
  <2>3. QED
    BY <1>3, <2>2 DEF Kept, HasQueuedRow
<1>4. CASE delivery[n] # None
  <2>1. delivery[n] \in Seq(Statuses)
    BY <1>1, <1>4
  <2> DEFINE d == Marked(delivery[n], x)
  <2>2. /\ d \in Seq(Statuses) /\ Len(d) = Len(delivery[n])
        /\ "QUEUED" \notin Values(d) /\ ("QUEUED" \in Values(delivery[n]) => x \in Values(d))
        /\ "SENT" \in Values(delivery[n]) => "SENT" \in Values(d)
        /\ "SENT" \in Values(d) => "SENT" \in Values(delivery[n]) \/ x = "SENT"
    BY <2>1, RowsMarked
  <2>3. delivery' = [delivery EXCEPT ![n] = d]
    BY <1>2, <1>4
  <2> HIDE DEF d
  <2>4. delivery' \in [Pushed -> { None } \cup Seq(Statuses)] /\ delivery'[n] = d
        /\ \A m \in Pushed : m # n => delivery'[m] = delivery[m]
    BY <1>1, <2>2, <2>3
  <2>5. d # None
    BY <2>2, PushAssumption
  <2>6. Says(n)' = Values(d) /\ Says(n) = Values(delivery[n])
    BY <2>4 DEF Says
  <2>7. (n \in Kept' <=> n \in Kept) /\ Len(delivery'[n]) = Len(delivery[n])
    BY <1>4, <2>2, <2>4, <2>5 DEF Kept
  <2>8. ~HasQueuedRow(n)'
    BY <2>2, <2>4 DEF HasQueuedRow, Values
  <2>9. QED
    BY <2>2, <2>4, <2>6, <2>7, <2>8
<1>5. QED
  BY <1>3, <1>4

LEMMA SettleStep == ASSUME PushInv, NEW w \in Workers, Settle(w) PROVE PushInv'
<1>1. /\ pusher[w] # None /\ pusher[w].step \in { "sent", "rejected", "fail" }
      /\ Mark(pusher[w].job.push, Outcome(w)) /\ pusher' = [pusher EXCEPT ![w] = None]
      /\ UNCHANGED <<publisher, token, queue, sends, accepted, again, faulted, stranded>>
  BY DEF Settle, On, Done
<1>2. PICK n \in Pushed : n = pusher[w].job.push
  BY <1>1, HeldIs
<1>3. OnlyWorker(n, w) /\ Bounded(n) /\ HandFits(n, pusher[w])
  BY <1>1, <1>2, HeldIs
<1>4. PICK x \in { "SENT", "FAILED" } : x = Outcome(w)
  BY DEF Outcome
<1>5. x = "SENT" <=> pusher[w].step = "sent"
  BY <1>4 DEF Outcome
<1>6. /\ delivery' \in [Pushed -> { None } \cup Seq(Statuses)] /\ \A m \in Pushed : m # n => delivery'[m] = delivery[m]
      /\ (n \in Kept' <=> n \in Kept) /\ ~HasQueuedRow(n)'
      /\ n \in Kept => /\ Len(delivery'[n]) = Len(delivery[n]) /\ ("QUEUED" \in Says(n) => x \in Says(n)')
                       /\ "SENT" \in Says(n) => "SENT" \in Says(n)'
                       /\ "SENT" \in Says(n)' => "SENT" \in Says(n) \/ x = "SENT"
  BY <1>1, <1>2, <1>4, MarkStep
<1>7. pusher' \in [Workers -> PusherRow \cup { None }]
  BY <1>1 DEF PushInv, PushTypes
<1>8. PushTypes'
  BY <1>1, <1>6, <1>7 DEF PushInv, PushTypes
<1>9. Apart(n)
  BY <1>1, <1>6 DEF Apart
<1>10. pusher[w].step = "sent" => n \in accepted
  BY <1>3 DEF HandFits
<1>11. Bounded(n)'
  BY <1>1, <1>3, <1>5, <1>6, <1>10 DEF Bounded
<1>12. Told(n)'
  BY <1>1, <1>3, <1>5, <1>6 DEF HandFits, Told, Waits
<1>13. NoJob(n)'
  BY <1>1, <1>3 DEF OnlyWorker, NoJob
<1>14. QED
  BY <1>1, <1>2, <1>6, <1>8, <1>9, <1>11, <1>12, <1>13, HandEnds

LEMMA RetryFailsStep == ASSUME PushInv, NEW w \in Workers, RetryFails(w) PROVE PushInv'
<1>1. /\ pusher[w] # None /\ pusher[w].step = "retry" /\ Mark(pusher[w].job.push, "FAILED")
      /\ pusher' = [pusher EXCEPT ![w].step = "row"]
      /\ UNCHANGED <<publisher, token, queue, sends, accepted, again, faulted, stranded>>
  BY DEF RetryFails, On, Step
<1>2. PICK n \in Pushed : n = pusher[w].job.push
  BY <1>1, HeldIs
<1>3. Bounded(n) /\ HandFits(n, pusher[w])
  BY <1>1, <1>2, HeldIs
<1>4. /\ delivery' \in [Pushed -> { None } \cup Seq(Statuses)] /\ \A m \in Pushed : m # n => delivery'[m] = delivery[m]
      /\ (n \in Kept' <=> n \in Kept)
      /\ n \in Kept => /\ Len(delivery'[n]) = Len(delivery[n])
                       /\ "SENT" \in Says(n) => "SENT" \in Says(n)'
                       /\ "SENT" \in Says(n)' => "SENT" \in Says(n)
  <2>1. PICK x \in { "SENT", "FAILED" } : x = "FAILED"
    OBVIOUS
  <2>2. Mark(n, x)
    BY <1>1, <1>2, <2>1
  <2>3. QED
    BY <2>1, <2>2, MarkStep
<1>5. /\ pusher' \in [Workers -> PusherRow \cup { None }] /\ pusher'[w] \in PusherRow
      /\ pusher'[w].job = pusher[w].job /\ pusher'[w].step = "row"
      /\ \A v \in Workers : v # w => pusher'[v] = pusher[v]
  <2>1. PICK s \in PushSteps : s = "row"
    BY DEF PushSteps
  <2>2. PICK i \in SUBSET Tokens : i = {}
    OBVIOUS
  <2>3. pusher' = [pusher EXCEPT ![w].step = s]
    BY <1>1, <2>1
  <2>4. QED
    BY <1>1, <2>1, <2>3, StepTaken
<1>6. PushTypes'
  BY <1>1, <1>4, <1>5 DEF PushInv, PushTypes
<1>7. Apart(n)
  BY <1>1, <1>4 DEF Apart
<1>8. Bounded(n)'
  BY <1>1, <1>3, <1>4 DEF Bounded
<1>9. Counted(n, pusher[w].job.attempt, pusher[w].job.run, 1, 0)'
  <2>1. Counted(n, pusher[w].job.attempt, pusher[w].job.run, 1, 0)
    BY <1>1, <1>3 DEF HandFits
  <2>2. QED
    BY <1>1, <1>4, <1>5, <2>1 DEF Counted, Before
<1>10. Told(n)' /\ pusher[w].job.attempt < MaxAttempts
  BY <1>1, <1>3, <1>4 DEF HandFits, Told
<1>11. HandFits(n, pusher[w])'
  BY <1>5, <1>9, <1>10 DEF HandFits
<1>12. QED
  BY <1>1, <1>2, <1>5, <1>6, <1>7, <1>8, <1>11, HandGoesOn

LEMMA RetryRowStep == ASSUME PushInv, NEW w \in Workers, RetryRow(w) PROVE PushInv'
<1>1. /\ pusher[w] # None /\ pusher[w].step = "row" /\ pusher[w].job.push \in Kept
      /\ delivery' = [delivery EXCEPT ![pusher[w].job.push] = Append(delivery[pusher[w].job.push], "QUEUED")]
      /\ pusher' = [pusher EXCEPT ![w].step = "enqueue"]
      /\ UNCHANGED <<publisher, token, queue, sends, accepted, again, faulted, stranded>>
  BY DEF RetryRow, On, Step, QueueRow
<1>2. PICK n \in Pushed : n = pusher[w].job.push
  BY <1>1, HeldIs
<1>3. Bounded(n) /\ HandFits(n, pusher[w])
  BY <1>1, <1>2, HeldIs
<1>4. delivery[n] \in Seq(Statuses) /\ "QUEUED" \in Statuses /\ n \in Kept
  BY <1>1, <1>2 DEF PushInv, PushTypes, Kept, Statuses
<1> DEFINE d == Append(delivery[n], "QUEUED")
<1>5. d \in Seq(Statuses) /\ Len(d) = Len(delivery[n]) + 1 /\ Len(delivery[n]) \in Nat
      /\ Values(d) = Values(delivery[n]) \cup { "QUEUED" }
  BY <1>4, RowAppended
<1>6. delivery' = [delivery EXCEPT ![n] = d]
  BY <1>1, <1>2
<1> HIDE DEF d
<1>7. delivery' \in [Pushed -> { None } \cup Seq(Statuses)] /\ delivery'[n] = d
      /\ \A m \in Pushed : m # n => delivery'[m] = delivery[m]
  BY <1>5, <1>6 DEF PushInv, PushTypes
<1>8. Says(n)' = Says(n) \cup { "QUEUED" }
  BY <1>5, <1>7 DEF Says
<1>9. n \in Kept' /\ Len(delivery'[n]) = Len(delivery[n]) + 1 /\ Len(delivery[n]) \in Nat
  <2>1. d # None
    BY <1>5, PushAssumption
  <2>2. QED
    BY <1>5, <1>7, <2>1 DEF Kept
<1>10. /\ pusher' \in [Workers -> PusherRow \cup { None }] /\ pusher'[w] \in PusherRow
       /\ pusher'[w].job = pusher[w].job /\ pusher'[w].step = "enqueue"
       /\ \A v \in Workers : v # w => pusher'[v] = pusher[v]
  <2>1. PICK s \in PushSteps : s = "enqueue"
    BY DEF PushSteps
  <2>2. PICK i \in SUBSET Tokens : i = {}
    OBVIOUS
  <2>3. pusher' = [pusher EXCEPT ![w].step = s]
    BY <1>1, <2>1
  <2>4. QED
    BY <1>1, <2>1, <2>3, StepTaken
<1>11. PushTypes'
  BY <1>1, <1>7, <1>10 DEF PushInv, PushTypes
<1>12. Apart(n)
  BY <1>1, <1>7 DEF Apart
<1>13. /\ Len(delivery[n]) <= pusher[w].job.attempt + 0 + again[n] /\ pusher[w].job.attempt < MaxAttempts
       /\ sends[n] <= Before(pusher[w].job.attempt) + (pusher[w].job.run - 1) + 1
       /\ sends[n] <= (pusher[w].job.attempt - 1) + again[n] + 1
  BY <1>1, <1>3, <1>4 DEF HandFits, Counted
<1>14. Len(delivery'[n]) <= MaxAttempts + again[n] /\ Len(delivery'[n]) <= pusher[w].job.attempt + 1 + again[n]
  <2>1. PICK k \in Nat, a \in 1..MaxAttempts, g \in Nat : k = Len(delivery[n]) /\ a = pusher[w].job.attempt /\ g = again[n]
    BY <1>1, <1>2, <1>9, HeldCounts
  <2>2. MaxAttempts \in Nat /\ k <= a + 0 + g /\ a < MaxAttempts /\ Len(delivery'[n]) = k + 1
    BY <1>9, <1>13, <2>1, PushAssumption
  <2>3. k + 1 <= MaxAttempts + g /\ k + 1 <= a + 1 + g
    BY <2>2
  <2>4. QED
    BY <2>1, <2>2, <2>3
<1>15. Bounded(n)'
  <2>1. again'[n] = again[n] /\ sends'[n] = sends[n] /\ accepted' = accepted
    BY <1>1
  <2>2. "SENT" \in Says(n)' => "SENT" \in Says(n)
    BY <1>8
  <2>3. QED
    BY <1>3, <1>4, <1>14, <2>1, <2>2 DEF Bounded
<1>16. Counted(n, pusher[w].job.attempt, pusher[w].job.run, 1, 1)'
  <2>1. again'[n] = again[n] /\ sends'[n] = sends[n] /\ pusher'[w].job = pusher[w].job
    BY <1>1, <1>10
  <2>2. QED
    BY <1>13, <1>14, <2>1 DEF Counted, Before
<1>17. Waits(n)' /\ Told(n)'
  BY <1>1, <1>3, <1>4, <1>8 DEF HandFits, Waits, Told
<1>18. HandFits(n, pusher[w])'
  BY <1>10, <1>13, <1>16, <1>17 DEF HandFits
<1>19. QED
  BY <1>1, <1>2, <1>10, <1>11, <1>12, <1>15, <1>18, HandGoesOn

\* The job of another attempt, or of another run, joins the queue.
LEMMA JobAgain ==
  ASSUME PushInv, NEW w \in Workers, pusher[w] # None, NEW n \in Pushed, n = pusher[w].job.push,
         NEW a \in 1..MaxAttempts, NEW r \in 1..MaxRuns, AddJob(n, a, r), pusher' = [pusher EXCEPT ![w] = None],
         UNCHANGED <<publisher, delivery, token, sends, accepted, stranded>>, again' \in [Pushed -> Nat],
         \A m \in Pushed : m # n => again'[m] = again[m] /\ (m \in faulted' <=> m \in faulted),
         Bounded(n)', Told(n)', Waits(n)', Counted(n, a, r, 0, 0)'
  PROVE  PushInv'
<1>1. NoJob(n)
  BY HeldIs DEF OnlyWorker
<1>2. PICK k \in PushJobs :
           /\ k = [push |-> n, attempt |-> a, run |-> r] /\ queue' \in [PushJobs -> Nat] /\ queue'[k] = 1
           /\ \A i \in PushJobs : i # k => queue'[i] = queue[i]
  BY <1>1, JobAdded
<1>3. k.push = n /\ k.attempt = a /\ k.run = r
  BY <1>2
<1>4. pusher' \in [Workers -> PusherRow \cup { None }]
  BY DEF PushInv, PushTypes
<1>5. PushTypes'
  BY <1>2, <1>4 DEF PushInv, PushTypes
<1>6. Apart(n)
  BY <1>2, <1>3 DEF Apart
<1>7. \A i \in PushJobs : i.push = n /\ i # k => queue'[i] = 0
  BY <1>1, <1>2 DEF NoJob
<1>8. QED
  BY <1>2, <1>3, <1>5, <1>6, <1>7, HandEnds

LEMMA RetryJobStep == ASSUME PushInv, NEW w \in Workers, RetryJob(w) PROVE PushInv'
<1>1. /\ pusher[w] # None /\ pusher[w].step = "enqueue"
      /\ AddJob(pusher[w].job.push, pusher[w].job.attempt + 1, 1) /\ pusher' = [pusher EXCEPT ![w] = None]
      /\ UNCHANGED <<publisher, delivery, token, sends, accepted, again, faulted, stranded>>
  BY DEF RetryJob, On, Done, NextAttempt
<1>2. PICK n \in Pushed : n = pusher[w].job.push
  BY <1>1, HeldIs
<1>3. Bounded(n) /\ HandFits(n, pusher[w])
  BY <1>1, <1>2, HeldIs
<1>4. /\ pusher[w].job.attempt \in 1..MaxAttempts /\ pusher[w].job.run \in 1..MaxRuns
      /\ Before(pusher[w].job.attempt) \in Nat
      /\ Before(pusher[w].job.attempt + 1) = Before(pusher[w].job.attempt) + MaxRuns
      /\ MaxAttempts \in Nat /\ MaxRuns \in Nat /\ sends[n] \in Nat /\ again[n] \in Nat
      /\ n \in Kept => Len(delivery[n]) \in Nat
  BY <1>1, <1>2, HeldCounts
<1>5. /\ n \in Kept => Len(delivery[n]) <= pusher[w].job.attempt + 1 + again[n]
      /\ pusher[w].job.attempt < MaxAttempts
      /\ sends[n] <= Before(pusher[w].job.attempt) + (pusher[w].job.run - 1) + 1
      /\ sends[n] <= (pusher[w].job.attempt - 1) + again[n] + 1
  BY <1>1, <1>3 DEF HandFits, Counted
<1>6. PICK a \in 1..MaxAttempts : a = pusher[w].job.attempt + 1
  BY <1>4, <1>5
<1>7. PICK r \in 1..MaxRuns : r = 1
  BY PushAssumption
<1>8. /\ n \in Kept => Len(delivery[n]) <= a + 0 + again[n]
      /\ sends[n] <= Before(a) + (r - 1) + 0 /\ sends[n] <= (a - 1) + again[n] + 0
  <2>1. PICK b \in 1..MaxAttempts, q \in 1..MaxRuns, c \in Nat, x \in Nat, g \in Nat :
          /\ b = pusher[w].job.attempt /\ q = pusher[w].job.run /\ c = Before(pusher[w].job.attempt)
          /\ x = sends[n] /\ g = again[n]
    BY <1>4
  <2>2. /\ a = b + 1 /\ Before(a) = c + MaxRuns /\ x <= c + (q - 1) + 1 /\ x <= (b - 1) + g + 1
        /\ MaxRuns \in Nat /\ MaxAttempts \in Nat
    BY <1>4, <1>5, <1>6, <2>1
  <2>3. x <= (c + MaxRuns) + (1 - 1) + 0 /\ x <= ((b + 1) - 1) + g + 0
    BY <2>2
  <2>4. n \in Kept => Len(delivery[n]) <= a + 0 + g
    <3>1. a + 0 = b + 1
      BY <2>2
    <3>2. QED
      BY <1>5, <2>1, <3>1
  <2>5. QED
    BY <1>7, <2>1, <2>2, <2>3, <2>4
<1>9. Counted(n, a, r, 0, 0)'
  <2>1. delivery' = delivery /\ sends' = sends /\ again' = again /\ (n \in Kept' <=> n \in Kept)
    BY <1>1 DEF Kept
  <2>2. QED
    BY <1>8, <2>1 DEF Counted, Before
<1>10. Bounded(n)' /\ Waits(n)' /\ Told(n)'
  BY <1>1, <1>3 DEF HandFits, Bounded, Waits, Told, Kept, Says, Values
<1>11. AddJob(n, a, r)
  BY <1>1, <1>2, <1>6, <1>7
<1>12. again' \in [Pushed -> Nat]
  BY <1>1 DEF PushInv, PushTypes
<1>13. QED
  BY <1>1, <1>2, <1>9, <1>10, <1>11, <1>12, JobAgain

LEMMA RunAgainStep == ASSUME PushInv, NEW w \in Workers, RunAgain(w) PROVE PushInv'
<1>1. pusher[w] # None
  BY DEF RunAgain
<1>2. PICK n \in Pushed : n = pusher[w].job.push
  BY <1>1, HeldIs
<1>3. /\ IF pusher[w].job.run < MaxRuns
         THEN AddJob(n, pusher[w].job.attempt, pusher[w].job.run + 1) /\ stranded' = stranded
         ELSE stranded' = stranded \cup { n } /\ queue' = queue
      /\ again' = [again EXCEPT ![n] = again[n] + 1] /\ faulted' = faulted \cup { n }
      /\ pusher' = [pusher EXCEPT ![w] = None]
      /\ UNCHANGED <<publisher, delivery, token, sends, accepted>>
  BY <1>2 DEF RunAgain, Done
<1>4. OnlyWorker(n, w) /\ Bounded(n) /\ HandFits(n, pusher[w])
  BY <1>1, <1>2, HeldIs
<1>5. /\ pusher[w].job.attempt \in 1..MaxAttempts /\ pusher[w].job.run \in 1..MaxRuns
      /\ Before(pusher[w].job.attempt) \in Nat
      /\ MaxAttempts \in Nat /\ MaxRuns \in Nat /\ sends[n] \in Nat /\ again[n] \in Nat
      /\ n \in Kept => Len(delivery[n]) \in Nat
  BY <1>1, <1>2, HeldCounts
<1>6. again' \in [Pushed -> Nat] /\ again'[n] = again[n] + 1 /\ \A m \in Pushed : m # n => again'[m] = again[m]
  BY <1>3 DEF PushInv, PushTypes
<1>7. PICK b \in 1..MaxAttempts, q \in 1..MaxRuns, c \in Nat, x \in Nat, g \in Nat, sent \in { 0, 1 }, rowed \in { 0, 1 } :
        /\ b = pusher[w].job.attempt /\ q = pusher[w].job.run /\ c = Before(pusher[w].job.attempt)
        /\ x = sends[n] /\ g = again[n] /\ Counted(n, pusher[w].job.attempt, pusher[w].job.run, sent, rowed)
  <2>1. PICK sent \in { 0, 1 } : sent = IF pusher[w].step = "send" THEN 0 ELSE 1
    OBVIOUS
  <2>2. PICK rowed \in { 0, 1 } : rowed = IF pusher[w].step = "enqueue" THEN 1 ELSE 0
    OBVIOUS
  <2>3. Counted(n, pusher[w].job.attempt, pusher[w].job.run, sent, rowed)
    BY <1>4, <2>1, <2>2 DEF HandFits
  <2>4. QED
    BY <1>5, <2>3
<1>8. /\ n \in Kept => Len(delivery[n]) <= b + rowed + g
      /\ x <= c + (q - 1) + sent /\ x <= (b - 1) + g + sent
  BY <1>7 DEF Counted
<1>9. /\ n \in Kept => Len(delivery[n]) <= b + 0 + (g + 1)
      /\ x <= c + ((q + 1) - 1) + 0 /\ x <= (b - 1) + (g + 1) + 0
  <2>1. n \in Kept => Len(delivery[n]) <= b + 0 + (g + 1)
    <3>1. \A k \in Nat : k <= b + rowed + g => k <= b + 0 + (g + 1)
      OBVIOUS
    <3>2. QED
      BY <1>5, <1>8, <3>1
  <2>2. x <= c + ((q + 1) - 1) + 0 /\ x <= (b - 1) + (g + 1) + 0
    BY <1>8
  <2>3. QED
    BY <2>1, <2>2
<1>10. (n \in Kept' <=> n \in Kept) /\ Says(n)' = Says(n) /\ delivery' = delivery /\ sends'[n] = x /\ again'[n] = g + 1
  BY <1>3, <1>6, <1>7 DEF Kept, Says, Values
<1>11. Bounded(n)'
  <2>1. /\ n \in Kept => Len(delivery[n]) <= MaxAttempts + g /\ ("SENT" \in Says(n) => n \in accepted)
        /\ x <= MaxAttempts + g /\ x <= MaxAttempts * MaxRuns
    BY <1>4, <1>7 DEF Bounded
  <2>2. \A k \in Nat : k <= MaxAttempts + g => k <= MaxAttempts + (g + 1)
    BY <1>5
  <2>3. n \in Kept => Len(delivery[n]) <= MaxAttempts + (g + 1)
    BY <1>5, <2>1, <2>2
  <2>4. x <= MaxAttempts + (g + 1)
    BY <2>1, <2>2
  <2>5. accepted' = accepted
    BY <1>3
  <2>6. QED
    BY <1>10, <2>1, <2>3, <2>4, <2>5 DEF Bounded
<1>12. Told(n)' /\ Waits(n)'
  BY <1>3 DEF Told, Waits
<1>13. CASE pusher[w].job.run < MaxRuns
  <2>1. PICK r \in 1..MaxRuns : r = q + 1
    BY <1>5, <1>7, <1>13
  <2>2. AddJob(n, b, r) /\ stranded' = stranded
    BY <1>3, <1>7, <1>13, <2>1
  <2>3. Counted(n, b, r, 0, 0)'
    BY <1>7, <1>9, <1>10, <2>1 DEF Counted, Before
  <2>4. \A m \in Pushed : m # n => again'[m] = again[m] /\ (m \in faulted' <=> m \in faulted)
    BY <1>3, <1>6
  <2>5. QED
    BY <1>1, <1>2, <1>3, <1>6, <1>11, <1>12, <2>2, <2>3, <2>4, JobAgain
<1>14. CASE ~(pusher[w].job.run < MaxRuns)
  <2>1. stranded' = stranded \cup { n } /\ queue' = queue
    BY <1>3, <1>14
  <2>2. pusher' \in [Workers -> PusherRow \cup { None }]
    BY <1>3 DEF PushInv, PushTypes
  <2>3. PushTypes'
    BY <1>3, <1>6, <2>1, <2>2 DEF PushInv, PushTypes
  <2>4. Apart(n)
    BY <1>3, <1>6, <2>1 DEF Apart
  <2>5. NoJob(n)' /\ n \in stranded'
    BY <1>4, <2>1 DEF OnlyWorker, NoJob
  <2>6. QED
    BY <1>1, <1>2, <1>3, <1>11, <1>12, <2>3, <2>4, <2>5, HandEnds
<1>15. QED
  BY <1>13, <1>14

LEMMA PushGoesOn == PushInv /\ [PushNext]_pushVars => PushInv'
<1> SUFFICES ASSUME PushInv, [PushNext]_pushVars PROVE PushInv'
  OBVIOUS
<1>1. ASSUME NEW n \in Pushed,
             PublishMuted(n) \/ PublishRow(n) \/ PublishJob(n) \/ PublisherDies(n) \/ PrunePushed(n)
      PROVE  PushInv'
  BY <1>1, MutedStep, RowStep, JobStep, PublisherStep, PruneStep
<1>2. ASSUME NEW t \in Tokens, RegisterToken(t) \/ UnregisterToken(t) PROVE PushInv'
  <2>1. UNCHANGED <<publisher, delivery, queue, pusher, sends, accepted, again, faulted, stranded>>
    BY <1>2 DEF RegisterToken, UnregisterToken
  <2>2. token' \subseteq Tokens
    BY <1>2 DEF RegisterToken, UnregisterToken, PushInv, PushTypes
  <2>3. QED
    BY <2>1, <2>2, TokenStep
<1>3. ASSUME NEW w \in Workers, NEW j \in PushJobs, TakePush(w, j) PROVE PushInv'
  BY <1>3, TakeStep
<1>4. ASSUME NEW w \in Workers,
             \/ Answer(w) \/ DeleteInvalidTokens(w) \/ Settle(w) \/ RetryFails(w) \/ RetryRow(w)
             \/ RetryJob(w) \/ RunAgain(w) \/ StatementFails(w)
      PROVE  PushInv'
  BY <1>4, AnswerStep, DeleteStep, SettleStep, RetryFailsStep, RetryRowStep, RetryJobStep, RunAgainStep, StatementStep
<1>5. CASE UNCHANGED pushVars
  <2>1. token' \subseteq Tokens
    BY <1>5 DEF pushVars, PushInv, PushTypes
  <2>2. QED
    BY <1>5, <2>1, TokenStep DEF pushVars
<1>6. QED
  BY <1>1, <1>2, <1>3, <1>4, <1>5 DEF PushNext, PushWork

LEMMA PushShows == PushInv => PushAgrees
<1> SUFFICES ASSUME PushInv PROVE PushAgrees
  OBVIOUS
<1>1. PushTypes /\ \A n \in Pushed : Bounded(n)
  BY DEF PushInv, NoteFits
<1>2. PushTypeOK
  BY <1>1 DEF PushTypeOK, PushTypes, Bounded, Kept
<1>3. SendsAreBounded
  BY <1>1 DEF SendsAreBounded, Bounded
<1>4. ASSUME NEW n \in Pushed, ~Underway(n)
      PROVE  (HasQueuedRow(n) => n \in stranded) /\ Told(n)
  <2>1. publisher[n] # "row" /\ NoJob(n) /\ NoWorker(n)
    BY <1>1, <1>4 DEF Underway, NoJob, NoWorker, PushTypes
  <2>2. ~Rowed(n) /\ ~Enqueued(n) /\ ~Handled(n)
    BY <2>1 DEF Rowed, Enqueued, OnlyJob, NoJob, Handled, OnlyWorker, NoWorker
  <2>3. Unpublished(n) \/ Over(n)
    BY <2>2 DEF PushInv, NoteFits
  <2>4. CASE Unpublished(n)
    BY <2>4 DEF Unpublished, HasQueuedRow, Told
  <2>5. CASE Over(n)
    BY <2>5 DEF Over
  <2>6. QED
    BY <2>3, <2>4, <2>5
<1>5. QueuedIsWatched
  BY <1>4 DEF QueuedIsWatched
<1>6. RecordAgrees
  BY <1>1, <1>4 DEF RecordAgrees, Bounded, Told, Says, Values, Kept
<1>7. QED
  BY <1>2, <1>3, <1>5, <1>6 DEF PushAgrees

\* The record of a push is true to what was sent, for any number of
\* notifications, devices, workers, attempts, runs and failures: no row is
\* left waiting that nobody works on unless its job was lost, a notification
\* goes to the provider once for each attempt and run of it at most, and a
\* row says SENT only if a device was sent it.
THEOREM PushesAgree == PushSpec => []PushAgrees
<1>1. PushInit => PushInv
  BY PushBegins
<1>2. PushInv /\ [PushNext]_pushVars => PushInv'
  BY PushGoesOn
<1>3. PushInv => PushAgrees
  BY PushShows
<1>4. QED
  BY <1>1, <1>2, <1>3, PTL DEF PushSpec
-----------------------------------------------------------------------------
(***************************************************************************)
(* The inbox of a merchant and its alerts.                                 *)
(***************************************************************************)
\* Notices are numbered as they come, and pruning takes the oldest.
NoticesFit ==
  /\ notice \in [Ids -> Notice \cup { None }]
  /\ \A i \in Existing, j \in Ids : i <= j /\ j < NextId => j \in Existing

VerdictsFit ==
  /\ log \in [Ids -> Seq(Verdicts)] /\ now \in 0..MaxTime
  /\ reminded \in [Ids -> 0..MaxTime \cup { None }] /\ escalated \in [Ids -> 0..MaxTime \cup { None }]
  /\ overlapped \subseteq Ids /\ reopened \subseteq Ids

\* The alerts that a new one of this level would repeat.
Twins(level) ==
  { i \in Attention : notice[i].level = level /\ notice[i].at >= now - Cooldown /\ ~Closed(i) /\ i \notin reopened }

LongAgo(last, cooldown) == last = None \/ now - last > cooldown

MarkingFits(t) == (\A i \in t.todo : i < NextId) /\ (t.count = 0 => t.todo \cap Unread = {})
PublicationFits(t) == ~t.late => Twins(t.level) = {}
DecisionFits(t) == \A i \in t.todo \ t.old : Due(t.op, i)
DigestFits(t) ==
  /\ \A i \in t.remind \ t.old : ~Closed(i) /\ LongAgo(reminded[i], RemindCooldown)
  /\ \A i \in t.escalate \ t.old : ~Closed(i) /\ LongAgo(escalated[i], EscalateCooldown)

\* What a request knows is so, but for what it has been told of since.
TaskFits(t) ==
  \/ t \in Marking /\ MarkingFits(t)
  \/ t \in Publication /\ PublicationFits(t)
  \/ t \in Decision /\ DecisionFits(t)
  \/ t \in Clearing
  \/ t \in Digest /\ DigestFits(t)

TasksFit ==
  /\ task = [h \in Requests |-> task[h]]
  /\ \A h \in Requests : \A t \in { task[h] } \ { None } : TaskFits(t)

BadgeFits ==
  emitting \in [Requests -> Emission \cup { None }] /\ badge \in 0..MaxNotices /\ BadgeIsRight

\* What a client has not come to yet lies beyond the cursor.
PageFits(p) ==
  /\ p \in Page /\ p.upTo < NextId
  /\ p.cursor # None => p.cursor < NextId
  /\ \A i \in Matching(p.query) : i <= p.upTo =>
       i \in p.seen \cup p.skipped \/ (p.more /\ (p.cursor # None => i < p.cursor))

PagesFit == \A p \in { page } \ { None } : PageFits(p)

AlertInv == NoticesFit /\ VerdictsFit /\ TasksFit /\ BadgeFits /\ PagesFit /\ NoTwins

-----------------------------------------------------------------------------
(* Counting notices.                                                        *)

LEMMA IdsAreCounted ==
  ASSUME NEW S \in SUBSET Ids
  PROVE  IsFiniteSet(S) /\ Cardinality(S) \in 0..MaxNotices /\ S \subseteq Nat
<1>1. IsFiniteSet(Ids) /\ Cardinality(Ids) = MaxNotices /\ Ids \subseteq Nat
  <2>1. MaxNotices \in Nat
    BY InboxAssumption
  <2>2. Cardinality(1..MaxNotices) = IF 1 > MaxNotices THEN 0 ELSE MaxNotices - 1 + 1
    BY <2>1, FS_Interval
  <2>3. IsFiniteSet(1..MaxNotices)
    BY <2>1, FS_Interval
  <2>4. QED
    BY <2>1, <2>2, <2>3 DEF Ids
<1>2. IsFiniteSet(S) /\ Cardinality(S) <= Cardinality(Ids)
  BY <1>1, FS_Subset
<1>3. Cardinality(S) \in Nat
  BY <1>2, FS_CardinalityType
<1>4. QED
  BY <1>1, <1>2, <1>3, InboxAssumption

NextOf(E) == 1 + Cardinality({ i \in Ids : \E j \in E : i <= j })

LEMMA NextIs ==
  ASSUME NEW E \in SUBSET Ids
  PROVE  NextOf(E) \in 1..(MaxNotices + 1) /\ (\A j \in E : j < NextOf(E)) /\ (NextOf(E) = 1 \/ NextOf(E) - 1 \in E)
<1> DEFINE S == { i \in Ids : \E j \in E : i <= j }
<1>1. IsFiniteSet(E) /\ E \subseteq Nat /\ Cardinality(S) \in 0..MaxNotices
  BY IdsAreCounted
<1>2. MaxNotices \in Nat
  BY InboxAssumption
<1>3. CASE E = {}
  <2>1. S = {}
    BY <1>3
  <2>2. Cardinality(S) = 0
    BY <2>1, FS_EmptySet
  <2>3. QED
    BY <1>2, <1>3, <2>2 DEF NextOf
<1>4. CASE E # {}
  <2>1. PICK m \in E : \A j \in E : m >= j
    BY <1>1, <1>4, Greatest
  <2>2. m \in Nat /\ 1 <= m /\ m <= MaxNotices
    BY <1>2 DEF Ids
  <2>3. S = 1..m
    <3>1. \A i \in S : i \in 1..m
      <4>1. \A i \in Ids, j \in E : i <= j => i \in 1..m
        BY <1>1, <1>2, <2>1, <2>2 DEF Ids
      <4>2. QED
        BY <4>1
    <3>2. \A i \in 1..m : i \in Ids /\ i <= m
      BY <1>2, <2>2 DEF Ids
    <3>3. QED
      BY <2>1, <3>1, <3>2
  <2>4. Cardinality(1..m) = IF 1 > m THEN 0 ELSE m - 1 + 1
    BY <2>2, FS_Interval
  <2>5. Cardinality(S) = m
    <3>1. ~(1 > m) /\ m - 1 + 1 = m
      BY <2>2
    <3>2. QED
      BY <2>3, <2>4, <3>1
  <2>9. NextOf(E) = m + 1
    BY <2>2, <2>5 DEF NextOf
  <2>6. \A j \in E : j < m + 1
    BY <1>1, <2>1, <2>2
  <2>7. QED
    BY <1>2, <2>1, <2>2, <2>9, <2>6
<1>5. QED
  BY <1>3, <1>4

LEMMA NextIsOnly ==
  ASSUME NEW E \in SUBSET Ids, NEW n \in Nat, n >= 1, \A j \in E : j < n, n = 1 \/ n - 1 \in E
  PROVE  NextOf(E) = n
<1>1. PICK m \in Nat : m = NextOf(E) /\ m >= 1 /\ (\A j \in E : j < m) /\ (m = 1 \/ m - 1 \in E)
  BY NextIs, InboxAssumption
<1>2. E \subseteq Nat
  BY IdsAreCounted
<1>3. n - 1 \in E => n - 1 < m
  BY <1>1
<1>4. m - 1 \in E => m - 1 < n
  BY <1>1
<1>5. m = n
  BY <1>1, <1>3, <1>4
<1>6. QED
  BY <1>1, <1>5

LEMMA NextIdIs == NextId = NextOf(Existing) /\ NextId' = NextOf(Existing') /\ Existing \subseteq Ids /\ Existing' \subseteq Ids
BY DEF NextId, NextOf, Existing

\* The newest of some notices are those above a line.
LEMMA NewestAreAbove ==
  ASSUME NEW S \in SUBSET Ids, NEW n \in Nat, NEW i \in Newest(S, n), NEW j \in S, j >= i
  PROVE  j \in Newest(S, n)
<1> DEFINE above(k) == { x \in S : x > k }
<1>1. i \in S /\ Cardinality(above(i)) < n
  BY DEF Newest
<1>2. S \subseteq Nat /\ above(i) \in SUBSET Ids /\ above(j) \in SUBSET Ids
  BY IdsAreCounted
<1>3. above(j) \subseteq above(i)
  <2>1. \A x \in S : x > j => x > i
    BY <1>1, <1>2
  <2>2. QED
    BY <2>1
<1>4. Cardinality(above(j)) <= Cardinality(above(i))
  BY <1>2, <1>3, IdsAreCounted, FS_Subset
<1>5. Cardinality(above(i)) \in Nat /\ Cardinality(above(j)) \in Nat
  BY <1>2, IdsAreCounted, InboxAssumption
<1>6. Cardinality(above(j)) < n
  BY <1>1, <1>4, <1>5
<1> HIDE DEF above
<1>7. QED
  BY <1>6 DEF Newest, above

LEMMA NewestHasGreatest ==
  ASSUME NEW S \in SUBSET Ids, NEW n \in Nat \ {0}, NEW i \in S, \A j \in S : j <= i
  PROVE  i \in Newest(S, n)
<1>1. S \subseteq Nat
  BY IdsAreCounted
<1>2. { x \in S : x > i } = {}
  <2>1. \A x \in S : ~(x > i)
    BY <1>1
  <2>2. QED
    BY <2>1
<1>3. Cardinality({ x \in S : x > i }) = 0
  BY <1>2, FS_EmptySet
<1>4. QED
  BY <1>3 DEF Newest

\* Of n notices or less, all are among the n newest.
LEMMA FewAreNewest ==
  ASSUME NEW S \in SUBSET Ids, NEW n \in Nat, NEW i \in S, i \notin Newest(S, n)
  PROVE  Cardinality(S) > n
<1> DEFINE above == { x \in S : x > i }
<1>1. Cardinality(above) >= n /\ Cardinality(above) \in Nat
  <2>1. above \in SUBSET Ids
    OBVIOUS
  <2>2. Cardinality(above) \in Nat
    BY <2>1, IdsAreCounted, InboxAssumption
  <2>3. ~(Cardinality(above) < n)
    BY DEF Newest
  <2> HIDE DEF above
  <2>4. QED
    BY <2>2, <2>3
<1>2. IsFiniteSet(S) /\ S \subseteq Nat /\ Cardinality(S) \in Nat
  BY IdsAreCounted, InboxAssumption
<1>3. above \subseteq S /\ above # S
  <2>1. ~(i > i)
    BY <1>2
  <2>2. QED
    BY <2>1
<1>4. Cardinality(above) < Cardinality(S)
  <2>1. Cardinality(above) <= Cardinality(S) /\ (Cardinality(S) = Cardinality(above) => S = above)
    BY <1>2, <1>3, FS_Subset
  <2> HIDE DEF above
  <2>2. QED
    BY <1>1, <1>2, <1>3, <2>1
<1> HIDE DEF above
<1>5. QED
  BY <1>1, <1>2, <1>4

-----------------------------------------------------------------------------
(* How the notices change.                                                  *)

Moved ==
  /\ NoticesFit' /\ NextId <= NextId'
  /\ \A i \in Existing' : i < NextId =>
       /\ i \in Existing /\ notice'[i].kind = notice[i].kind
       /\ notice'[i].level = notice[i].level /\ notice'[i].at = notice[i].at
  /\ \A i \in Unread' : i < NextId => i \in Unread

LEMMA NextIdFits ==
  /\ NextId \in 1..(MaxNotices + 1) /\ (\A j \in Existing : j < NextId) /\ (NextId = 1 \/ NextId - 1 \in Existing)
  /\ NextId' \in 1..(MaxNotices + 1) /\ (\A j \in Existing' : j < NextId')
<1>1. \A E \in SUBSET Ids :
        NextOf(E) \in 1..(MaxNotices + 1) /\ (\A j \in E : j < NextOf(E)) /\ (NextOf(E) = 1 \/ NextOf(E) - 1 \in E)
  BY NextIs
<1>2. Existing \in SUBSET Ids /\ NextId = NextOf(Existing)
  BY NextIdIs
<1>3. Existing' \in SUBSET Ids /\ NextId' = NextOf(Existing')
  BY NextIdIs
<1>4. QED
  BY <1>1, <1>2, <1>3

LEMMA NumbersFit ==
  ASSUME NoticesFit
  PROVE  /\ Ids \subseteq Nat /\ MaxNotices \in Nat /\ NextId \in Nat /\ NextId' \in Nat
         /\ Existing \subseteq Ids /\ Unread \subseteq Existing
         /\ Existing' \subseteq Ids /\ Unread' \subseteq Existing'
<1>1. Ids \subseteq Nat /\ MaxNotices \in Nat
  BY InboxAssumption DEF Ids
<1>2. NextId \in Nat /\ NextId' \in Nat
  BY NextIdFits, InboxAssumption
<1>3. QED
  BY <1>1, <1>2, NextIdIs DEF Unread

LEMMA NothingMoves ==
  ASSUME NoticesFit, notice' = notice
  PROVE  Moved /\ Existing' = Existing /\ Unread' = Unread /\ NextId' = NextId /\ Attention' = Attention
<1>1. Existing' = Existing
  BY DEF Existing
<1>2. Unread' = Unread /\ Attention' = Attention
  BY <1>1 DEF Unread, Attention
<1>3. NextId' = NextId
  BY <1>1, NextIdIs
<1>4. NoticesFit'
  BY <1>1, <1>3 DEF NoticesFit
<1>5. NextId <= NextId'
  BY <1>3, NumbersFit
<1>6. QED
  BY <1>1, <1>2, <1>3, <1>4, <1>5 DEF Moved

LEMMA ReadsMove ==
  ASSUME NoticesFit, NEW ids \in SUBSET Ids, Reads(ids)
  PROVE  Moved /\ Unread' = Unread \ ids /\ NextId' = NextId /\ Attention' = Attention
<1> DEFINE new(i) == [notice[i] EXCEPT !.read = TRUE]
<1>1. \A i \in Ids : notice'[i] = IF i \in ids \cap Existing THEN new(i) ELSE notice[i]
  BY DEF Reads
<1>2. \A i \in Existing : notice[i] \in Notice
  BY DEF NoticesFit, Existing
<1>3. \A i \in Existing : /\ new(i) \in Notice /\ new(i).read /\ new(i).kind = notice[i].kind
                          /\ new(i).level = notice[i].level /\ new(i).at = notice[i].at
  BY <1>2 DEF Notice
<1> HIDE DEF new
<1>4. Existing' = Existing
  BY <1>1, <1>3, AlertAssumption DEF Existing
<1>5. Unread' = Unread \ ids
  <2>1. \A i \in Existing : i \in ids => notice'[i] = new(i)
    BY <1>1, NextIdIs
  <2>2. \A i \in Existing : i \notin ids => notice'[i] = notice[i]
    BY <1>1, NextIdIs
  <2>3. QED
    BY <1>3, <1>4, <2>1, <2>2 DEF Unread
<1>6. NextId' = NextId
  BY <1>4, NextIdIs
<1>7. \A i \in Existing : /\ notice'[i].kind = notice[i].kind
                          /\ notice'[i].level = notice[i].level /\ notice'[i].at = notice[i].at
  BY <1>1, <1>3, NextIdIs
<1>8. NoticesFit'
  <2>1. notice' = [i \in Ids |-> notice'[i]]
    BY DEF Reads
  <2>2. \A i \in Ids : notice'[i] \in Notice \cup { None }
    BY <1>1, <1>3 DEF NoticesFit
  <2>3. notice' \in [Ids -> Notice \cup { None }]
    BY <2>1, <2>2
  <2>4. QED
    BY <2>3, <1>4, <1>6 DEF NoticesFit
<1>9. Attention' = Attention
  BY <1>4, <1>7 DEF Attention
<1>10. NextId <= NextId'
  BY <1>6, NumbersFit
<1>11. QED
  BY <1>4, <1>5, <1>6, <1>7, <1>8, <1>9, <1>10 DEF Moved

Pruned == notice' = [i \in Ids |-> IF i \in Newest(Existing, Keep) THEN notice[i] ELSE None]

LEMMA PruneMoves ==
  ASSUME NoticesFit, Pruned
  PROVE  /\ Moved /\ NextId' = NextId /\ Attention' \subseteq Attention
         /\ Unread' = { i \in Unread : i \in Newest(Existing, Keep) }
<1> DEFINE kept == Newest(Existing, Keep)
<1>1. \A i \in Ids : notice'[i] = IF i \in kept THEN notice[i] ELSE None
  BY DEF Pruned
<1>2. kept \subseteq Existing /\ Existing \subseteq Ids
  BY NextIdIs DEF Newest
<1>3. \A i \in Existing, j \in Existing : i \in kept /\ j >= i => j \in kept
  <2>1. \A S \in SUBSET Ids : \A n \in Nat : \A i \in Newest(S, n), j \in S : j >= i => j \in Newest(S, n)
    BY NewestAreAbove
  <2>2. Keep \in Nat /\ Existing \in SUBSET Ids
    BY NextIdIs, InboxAssumption
  <2>3. QED
    BY <2>1, <2>2
<1>4. \A i \in Existing : (\A j \in Existing : j <= i) => i \in kept
  <2>1. \A S \in SUBSET Ids : \A n \in Nat \ {0} : \A i \in S : (\A j \in S : j <= i) => i \in Newest(S, n)
    BY NewestHasGreatest
  <2>2. Keep \in Nat \ {0} /\ Existing \in SUBSET Ids
    BY NextIdIs, InboxAssumption
  <2>3. QED
    BY <2>1, <2>2
<1> HIDE DEF kept
<1>5. Existing' = kept
  BY <1>1, <1>2 DEF Existing
<1>6. \A i \in kept : notice'[i] = notice[i]
  BY <1>1, <1>2
<1>7. Unread' = { i \in Unread : i \in kept } /\ Attention' \subseteq Attention
  BY <1>2, <1>5, <1>6 DEF Unread, Attention
<1>8. NextId' = NextId
  <2>1. PICK n \in Nat : n = NextId
    BY NumbersFit
  <2>2. n \in 1..(MaxNotices + 1) /\ (\A j \in Existing : j < n) /\ (n = 1 \/ n - 1 \in Existing)
    BY <2>1, NextIdFits
  <2>3. n = 1 \/ n - 1 \in kept
    <3>1. CASE n - 1 \in Existing
      <4>1. \A j \in Existing : j <= n - 1
        BY <2>1, <2>2, NumbersFit
      <4>2. QED
        BY <1>4, <3>1, <4>1
    <3>2. QED
      BY <2>2, <3>1
  <2>4. NextOf(kept) = n
    <3>1. n >= 1 /\ kept \in SUBSET Ids /\ \A j \in kept : j < n
      BY <1>2, <2>1, <2>2, NextIdIs
    <3>2. QED
      BY <2>3, <3>1, NextIsOnly
  <2>5. QED
    BY <1>5, <2>1, <2>4, NextIdIs
<1>9. NoticesFit'
  <2>1. notice' = [i \in Ids |-> notice'[i]]
    BY DEF Pruned
  <2>2. \A i \in Ids : notice'[i] \in Notice \cup { None }
    BY <1>1 DEF NoticesFit
  <2>3. notice' \in [Ids -> Notice \cup { None }]
    BY <2>1, <2>2
  <2>4. \A i \in kept, j \in Ids : i <= j /\ j < NextId => j \in kept
    <3>1. \A i \in kept, j \in Ids : i <= j /\ j < NextId => j \in Existing
      BY <1>2 DEF NoticesFit
    <3>2. \A i \in kept, j \in Ids : i <= j => j >= i
      BY <1>2, NumbersFit
    <3>3. QED
      BY <1>2, <1>3, <3>1, <3>2
  <2>5. QED
    BY <1>5, <1>8, <2>3, <2>4 DEF NoticesFit
<1>10. NextId <= NextId'
  BY <1>8, NumbersFit
<1>11. \A i \in Existing' : i \in Existing /\ notice'[i] = notice[i]
  BY <1>2, <1>5, <1>6
<1>12. Unread' \subseteq Unread
  BY <1>7
<1>13. QED
  BY <1>7, <1>8, <1>9, <1>10, <1>11, <1>12 DEF Moved, kept

Posted(new) == NextId \in Ids /\ notice' = [notice EXCEPT ![NextId] = new]

LEMMA PostMoves ==
  ASSUME NoticesFit, NEW new \in Notice, Posted(new)
  PROVE  /\ Moved /\ NextId \in Existing' /\ notice'[NextId] = new
         /\ \A i \in Existing' : i # NextId => i < NextId /\ i \in Existing /\ notice'[i] = notice[i]
<1>1. PICK n \in Ids : n = NextId
  BY DEF Posted
<1>2. notice' = [notice EXCEPT ![n] = new] /\ DOMAIN notice = Ids
  BY <1>1 DEF Posted, NoticesFit
<1>3. n \in Nat /\ Existing \subseteq Ids /\ Ids \subseteq Nat
  BY <1>1, NumbersFit
<1>4. new # None
  BY AlertAssumption
<1>5. notice'[n] = new /\ \A i \in Ids : i # n => notice'[i] = notice[i]
  BY <1>2
<1>6. Existing' = Existing \cup { n }
  BY <1>4, <1>5 DEF Existing
<1>7. (\A j \in Existing : j < n) /\ (n = 1 \/ n - 1 \in Existing) /\ n >= 1
  BY <1>1, NextIdFits
<1>8. NextId' = n + 1
  <2>1. PICK k \in Nat : k = n + 1
    BY <1>3
  <2>2. k >= 1 /\ k - 1 = n /\ \A j \in Existing' : j < k
    BY <1>3, <1>6, <1>7, <2>1
  <2>3. k - 1 \in Existing'
    BY <1>6, <2>2
  <2>4. Existing' \in SUBSET Ids
    BY NextIdIs
  <2>5. NextOf(Existing') = k
    <3>1. \A E \in SUBSET Ids :
            (\A j \in E : j < k) /\ k - 1 \in E => NextOf(E) = k
      BY <2>2, NextIsOnly
    <3>2. QED
      BY <2>2, <2>3, <2>4, <3>1
  <2>6. QED
    BY <2>1, <2>5, NextIdIs
<1>9. NoticesFit'
  <2>1. notice' \in [Ids -> Notice \cup { None }]
    <3>1. notice \in [Ids -> Notice \cup { None }]
      BY DEF NoticesFit
    <3>2. QED
      BY <1>2, <3>1
  <2>2. \A i \in Existing, j \in Ids : i <= j /\ j < n => j \in Existing
    BY <1>1 DEF NoticesFit
  <2>3. \A i \in Existing', j \in Ids : i <= j /\ j < n + 1 => j \in Existing'
    <3>1. SUFFICES ASSUME NEW i \in Existing', NEW j \in Ids, i <= j, j < n + 1 PROVE j \in Existing'
      OBVIOUS
    <3>2. j = n \/ j < n
      BY <1>3, <3>1
    <3>3. CASE i = n
      BY <1>3, <1>6, <3>1, <3>2, <3>3
    <3>4. CASE i \in Existing
      BY <1>6, <2>2, <3>1, <3>2, <3>4
    <3>5. QED
      BY <1>6, <3>3, <3>4
  <2>4. QED
    BY <1>8, <2>1, <2>3 DEF NoticesFit
<1>10. n <= n + 1
  BY <1>3
<1>11. \A i \in Existing' : i # n => i < n /\ i \in Existing /\ notice'[i] = notice[i]
  BY <1>3, <1>5, <1>6, <1>7
<1>12. \A i \in Existing' : i < n => i # n
  BY <1>3
<1>13. \A i \in Unread' : i < n => i \in Unread
  BY <1>11, <1>12 DEF Unread
<1>14. \A i \in Existing' : i < n =>
         /\ i \in Existing /\ notice'[i].kind = notice[i].kind
         /\ notice'[i].level = notice[i].level /\ notice'[i].at = notice[i].at
  BY <1>11, <1>12
<1>15. Moved
  BY <1>1, <1>8, <1>9, <1>10, <1>13, <1>14 DEF Moved
<1>16. QED
  BY <1>1, <1>5, <1>6, <1>11, <1>15

-----------------------------------------------------------------------------
(* How what is known of the notices fares as they change.                   *)

NoNewAlerts == Moved /\ \A i \in Attention' : i < NextId

\* A verdict never makes an alert untouched again, and reopens none unnoticed.
Shifted ==
  /\ now <= now' /\ VerdictsFit' /\ reopened \subseteq reopened' /\ overlapped \subseteq overlapped'
  /\ \A i \in Ids : (Status(i)' = "open" => Status(i) = "open") /\ (Closed(i) => Closed(i)' \/ i \in reopened')

Calm ==
  /\ NoNewAlerts /\ now <= now' /\ now' \in 0..MaxTime
  /\ UNCHANGED <<log, reminded, escalated, overlapped, reopened>>

LEMMA CalmShifts ==
  ASSUME VerdictsFit, Calm
  PROVE  Shifted
<1>1. log' = log /\ reminded' = reminded /\ escalated' = escalated /\ overlapped' = overlapped /\ reopened' = reopened
      /\ now <= now' /\ now' \in 0..MaxTime
  BY DEF Calm
<1>2. VerdictsFit'
  BY <1>1 DEF VerdictsFit
<1>3. \A i \in Ids : Status(i)' = Status(i) /\ Closed(i)' = Closed(i)
  BY <1>1 DEF Status, Closed
<1>4. QED
  BY <1>1, <1>2, <1>3 DEF Shifted

LEMMA AlertsStay ==
  ASSUME NoNewAlerts
  PROVE  \A i \in Attention' : i \in Attention /\ notice'[i].level = notice[i].level /\ notice'[i].at = notice[i].at
<1>1. \A i \in Attention' : i < NextId /\ i \in Existing'
  BY DEF NoNewAlerts, Attention
<1>2. QED
  BY <1>1 DEF NoNewAlerts, Moved, Attention

LEMMA ClocksFit ==
  ASSUME NoticesFit, VerdictsFit
  PROVE  /\ now \in Nat /\ Cooldown \in Nat
         /\ \A i \in Existing : notice[i] \in Notice /\ notice[i].at \in Nat
<1>1. MaxTime \in Nat /\ Cooldown \in Nat
  BY AlertAssumption
<1>2. \A i \in Existing : notice[i] \in Notice
  BY DEF NoticesFit, Existing
<1>3. \A n \in Notice : n.at \in 0..MaxTime
  BY DEF Notice
<1>4. now \in 0..MaxTime
  BY DEF VerdictsFit
<1>5. QED
  BY <1>1, <1>2, <1>3, <1>4

LEMMA TwinsShrink ==
  ASSUME NoticesFit, VerdictsFit, NoNewAlerts, Shifted, NEW level
  PROVE  Twins(level)' \subseteq Twins(level)
<1>1. SUFFICES ASSUME NEW i \in Attention', notice'[i].level = level, notice'[i].at >= now' - Cooldown,
                      ~Closed(i)', i \notin reopened'
               PROVE  i \in Twins(level)
  BY DEF Twins
<1>2. i \in Attention /\ notice[i].level = level /\ notice[i].at >= now' - Cooldown
  BY <1>1, AlertsStay
<1>3. i \in Existing /\ i \in Ids
  BY <1>2, NumbersFit DEF Attention
<1>4. ~Closed(i) /\ i \notin reopened
  BY <1>1, <1>3 DEF Shifted
<1>5. notice[i].at >= now - Cooldown
  <2>1. now <= now' /\ now' \in 0..MaxTime /\ MaxTime \in Nat
    BY AlertAssumption DEF Shifted, VerdictsFit
  <2>2. QED
    BY <1>2, <1>3, <2>1, ClocksFit
<1>6. QED
  BY <1>2, <1>4, <1>5 DEF Twins

LEMMA NoTwinsStays ==
  ASSUME NoticesFit, VerdictsFit, NoTwins, NoNewAlerts, Shifted
  PROVE  NoTwins'
<1>1. SUFFICES ASSUME NEW i \in Attention', NEW j \in Attention', i < j, notice'[i].level = notice'[j].level,
                      notice'[j].at - notice'[i].at <= Cooldown, ~Closed(i)'
               PROVE  j \in overlapped' \/ i \in reopened'
  BY DEF NoTwins
<1>2. /\ i \in Attention /\ notice'[i].level = notice[i].level /\ notice'[i].at = notice[i].at
      /\ j \in Attention /\ notice'[j].level = notice[j].level /\ notice'[j].at = notice[j].at
  BY AlertsStay
<1>3. i \in Ids
  BY <1>2, NumbersFit DEF Attention
<1>4. Closed(i) => i \in reopened'
  BY <1>1, <1>3 DEF Shifted
<1>5. ~Closed(i) => j \in overlapped \/ i \in reopened
  BY <1>1, <1>2 DEF NoTwins
<1>6. QED
  BY <1>4, <1>5 DEF Shifted

LEMMA MatchingShrinks ==
  ASSUME NoticesFit, Moved, Shifted, NEW query, NEW i \in Matching(query)', i < NextId
  PROVE  i \in Matching(query)
<1>1. i \in Fetched(query)' /\ (query = "INVENTORY_OPEN" => notice'[i].kind = "ATTENTION" /\ Status(i)' = "open")
  BY DEF Matching
<1>2. i \in Existing'
  BY <1>1, NumbersFit DEF Fetched, AlertIds
<1>3. i \in Existing /\ notice'[i].kind = notice[i].kind /\ (i \in Unread' => i \in Unread)
  BY <1>2 DEF Moved
<1>4. i \in AlertIds' => i \in AlertIds
  BY <1>3 DEF AlertIds
<1>5. i \in Fetched(query)
  BY <1>1, <1>3, <1>4 DEF Fetched
<1>6. i \in Ids
  BY <1>3, NumbersFit
<1>7. query = "INVENTORY_OPEN" => notice[i].kind = "ATTENTION" /\ Status(i) = "open"
  BY <1>1, <1>3, <1>6 DEF Shifted
<1>8. QED
  BY <1>5, <1>7 DEF Matching

LEMMA PageStays ==
  ASSUME NoticesFit, Moved, Shifted, NEW p, PageFits(p)
  PROVE  PageFits(p)'
<1>1. p \in Page /\ p.upTo < NextId /\ (p.cursor # None => p.cursor < NextId)
  BY DEF PageFits
<1>2. p.upTo \in Nat /\ (p.cursor # None => p.cursor \in Nat) /\ NextId \in Nat /\ NextId' \in Nat /\ NextId <= NextId'
  <2>1. p.upTo \in 0..MaxNotices /\ p.cursor \in Ids \cup { None }
    BY <1>1 DEF Page
  <2>2. NextId <= NextId'
    BY DEF Moved
  <2>3. QED
    BY <2>1, <2>2, NumbersFit
<1>3. p.upTo < NextId' /\ (p.cursor # None => p.cursor < NextId')
  BY <1>1, <1>2
<1>4. \A i \in Matching(p.query)' : i <= p.upTo => i \in Matching(p.query)
  <2>1. PICK q : q = p.query
    OBVIOUS
  <2>2. SUFFICES ASSUME NEW i \in Matching(q)', i <= p.upTo PROVE i \in Matching(q)
    BY <2>1
  <2>3. i \in Existing'
    BY <2>2, NumbersFit DEF Matching, Fetched, AlertIds
  <2>4. i \in Nat
    BY <2>3, NumbersFit
  <2>5. i < NextId
    BY <1>1, <1>2, <2>2, <2>4
  <2>6. QED
    BY <2>2, <2>5, MatchingShrinks
<1>5. \A i \in Matching(p.query)' : i <= p.upTo =>
         i \in p.seen \cup p.skipped \/ (p.more /\ (p.cursor # None => i < p.cursor))
  BY <1>4 DEF PageFits
<1>6. QED
  BY <1>1, <1>3, <1>5 DEF PageFits

-----------------------------------------------------------------------------
(* How what the requests know fares.                                        *)

LEMMA MarkingStays ==
  ASSUME NoticesFit, Moved, NEW t \in Marking, MarkingFits(t)
  PROVE  MarkingFits(t)'
<1>1. NextId <= NextId' /\ \A i \in Unread' : i < NextId => i \in Unread
  BY DEF Moved
<1>2. \A i \in t.todo : i < NextId
  BY DEF MarkingFits
<1>3. t.count = 0 => t.todo \cap Unread' = {}
  BY <1>1, <1>2 DEF MarkingFits
<1>4. \A i \in Nat : i < NextId => i < NextId'
  BY <1>1, NumbersFit
<1>5. t.todo \subseteq Nat
  BY NumbersFit DEF Marking
<1>6. QED
  BY <1>2, <1>3, <1>4, <1>5 DEF MarkingFits

LEMMA PublicationStays ==
  ASSUME NoticesFit, VerdictsFit, NoNewAlerts, Shifted, NEW t, PublicationFits(t)
  PROVE  PublicationFits(t)'
<1>1. PICK level : level = t.level
  OBVIOUS
<1>2. Twins(level)' \subseteq Twins(level)
  BY TwinsShrink
<1>3. ~t.late => Twins(level) = {}
  BY <1>1 DEF PublicationFits
<1>4. QED
  BY <1>1, <1>2, <1>3 DEF PublicationFits

LEMMA DecisionStays ==
  ASSUME NEW t, DecisionFits(t), NEW u, u.op = t.op, u.todo \ u.old \subseteq t.todo \ t.old,
         \A i \in u.todo \ u.old : log'[i] = log[i]
  PROVE  DecisionFits(u)'
<1>1. SUFFICES ASSUME NEW i \in u.todo \ u.old PROVE Due(u.op, i)'
  BY DEF DecisionFits
<1>2. Due(t.op, i) /\ log'[i] = log[i]
  BY <1>1 DEF DecisionFits
<1>3. QED
  BY <1>2 DEF Due, Closed, Status, Oldest

LEMMA LaterIsLonger ==
  \A n \in Nat, m \in Nat, last \in Nat, cooldown \in Nat : n <= m /\ n - last > cooldown => m - last > cooldown
OBVIOUS

LEMMA DigestStays ==
  ASSUME VerdictsFit, now <= now', now' \in 0..MaxTime, NEW t, DigestFits(t), NEW u,
         u.remind \ u.old \subseteq t.remind \ t.old, u.escalate \ u.old \subseteq t.escalate \ t.old,
         (u.remind \cup u.escalate) \ u.old \subseteq Ids,
         \A i \in (u.remind \cup u.escalate) \ u.old : log'[i] = log[i],
         \A i \in u.remind \ u.old : reminded'[i] = reminded[i],
         \A i \in u.escalate \ u.old : escalated'[i] = escalated[i]
  PROVE  DigestFits(u)'
<1>1. \A i \in (u.remind \cup u.escalate) \ u.old : Closed(i)' = Closed(i)
  BY DEF Closed, Status
<1>2. now \in Nat /\ now' \in Nat /\ RemindCooldown \in Nat /\ EscalateCooldown \in Nat
  BY AlertAssumption DEF VerdictsFit
<1>3. \A i \in Ids : /\ reminded[i] # None => reminded[i] \in Nat
                     /\ escalated[i] # None => escalated[i] \in Nat
  BY AlertAssumption DEF VerdictsFit
<1>4. \A last \in Nat, cooldown \in Nat : now - last > cooldown => now' - last > cooldown
  BY <1>2, LaterIsLonger
<1>5. \A i \in u.remind \ u.old : ~Closed(i)' /\ LongAgo(reminded[i], RemindCooldown)'
  <2>1. SUFFICES ASSUME NEW i \in u.remind \ u.old
                 PROVE  ~Closed(i)' /\ LongAgo(reminded[i], RemindCooldown)'
    OBVIOUS
  <2>2. ~Closed(i) /\ LongAgo(reminded[i], RemindCooldown) /\ i \in Ids /\ reminded'[i] = reminded[i] /\ Closed(i)' = Closed(i)
    BY <1>1, <2>1 DEF DigestFits
  <2>3. QED
    BY <1>2, <1>3, <1>4, <2>2 DEF LongAgo
<1>6. \A i \in u.escalate \ u.old : ~Closed(i)' /\ LongAgo(escalated[i], EscalateCooldown)'
  <2>1. SUFFICES ASSUME NEW i \in u.escalate \ u.old
                 PROVE  ~Closed(i)' /\ LongAgo(escalated[i], EscalateCooldown)'
    OBVIOUS
  <2>2. ~Closed(i) /\ LongAgo(escalated[i], EscalateCooldown) /\ i \in Ids /\ escalated'[i] = escalated[i] /\ Closed(i)' = Closed(i)
    BY <1>1, <2>1 DEF DigestFits
  <2>3. QED
    BY <1>2, <1>3, <1>4, <2>2 DEF LongAgo
<1>7. QED
  BY <1>5, <1>6 DEF DigestFits

\* In a step that changes neither logs nor follow-ups and adds no alert,
\* nothing a request knows becomes wrong.
LEMMA TaskStays ==
  ASSUME NoticesFit, VerdictsFit, Calm, NEW t, TaskFits(t)
  PROVE  TaskFits(t)'
<1>1. NoNewAlerts /\ Moved /\ now <= now' /\ now' \in 0..MaxTime
  BY DEF Calm, NoNewAlerts
<1>2. \A i \in Ids : log'[i] = log[i] /\ reminded'[i] = reminded[i] /\ escalated'[i] = escalated[i]
  BY DEF Calm
<1>3. CASE t \in Marking /\ MarkingFits(t)
  BY <1>1, <1>3, MarkingStays DEF TaskFits
<1>4. CASE t \in Publication /\ PublicationFits(t)
  BY <1>1, <1>4, PublicationStays, CalmShifts DEF TaskFits
<1>5. CASE t \in Decision /\ DecisionFits(t)
  <2>1. t.todo \subseteq Ids
    BY <1>5 DEF Decision
  <2>2. DecisionFits(t)'
    BY <1>2, <1>5, <2>1, DecisionStays
  <2>3. QED
    BY <1>5, <2>2 DEF TaskFits
<1>6. CASE t \in Clearing
  BY <1>6 DEF TaskFits
<1>7. CASE t \in Digest /\ DigestFits(t)
  <2>1. t.remind \subseteq Ids /\ t.escalate \subseteq Ids
    BY <1>7 DEF Digest
  <2>2. DigestFits(t)'
    BY <1>1, <1>2, <1>7, <2>1, DigestStays
  <2>3. QED
    BY <1>7, <2>2 DEF TaskFits
<1>8. QED
  BY <1>3, <1>4, <1>5, <1>6, <1>7 DEF TaskFits

\* A calm step that changes the task of at most one request.
LEMMA TasksStay ==
  ASSUME AlertInv, Calm, NEW h \in Requests, NEW next, task' = [task EXCEPT ![h] = next],
         next # None => TaskFits(next)'
  PROVE  TasksFit'
<1>1. NoticesFit /\ VerdictsFit /\ TasksFit
  BY DEF AlertInv
<1>2. DOMAIN task = Requests
  BY <1>1 DEF TasksFit
<1>3. task' = [g \in Requests |-> task'[g]]
  BY <1>2
<1>4. \A g \in Requests : task'[g] = IF g = h THEN next ELSE task[g]
  BY <1>2
<1>5. \A t : TaskFits(t) => TaskFits(t)'
  BY <1>1, TaskStays
<1>6. \A g \in Requests : \A t \in { task[g] } \ { None } : TaskFits(t)
  BY <1>1 DEF TasksFit
<1>7. ASSUME NEW g \in Requests, NEW t \in { task'[g] } \ { None }
      PROVE  TaskFits(t)'
  <2>1. CASE g = h
    BY <1>4, <1>7, <2>1
  <2>2. CASE g # h
    BY <1>4, <1>5, <1>6, <1>7, <2>2
  <2>3. QED
    BY <2>1, <2>2
<1>8. QED
  BY <1>3, <1>7 DEF TasksFit

LEMMA TasksUnchanged ==
  ASSUME AlertInv, Calm, task' = task
  PROVE  TasksFit'
<1>1. NoticesFit /\ VerdictsFit /\ TasksFit
  BY DEF AlertInv
<1>2. \A t : TaskFits(t) => TaskFits(t)'
  BY <1>1, TaskStays
<1>3. \A g \in Requests : \A t \in { task[g] } \ { None } : TaskFits(t)'
  BY <1>1, <1>2 DEF TasksFit
<1>4. task' = [g \in Requests |-> task'[g]]
  BY <1>1 DEF TasksFit
<1>5. QED
  BY <1>3, <1>4 DEF TasksFit

\* A calm step of all but badge, task and page.
LEMMA CalmStep ==
  ASSUME AlertInv, Calm
  PROVE  /\ NoticesFit' /\ VerdictsFit' /\ NoTwins'
         /\ page' = page => PagesFit'
<1>1. NoticesFit /\ VerdictsFit /\ PagesFit /\ NoTwins
  BY DEF AlertInv
<1>2. Shifted /\ NoNewAlerts /\ Moved
  BY <1>1, CalmShifts DEF Calm, NoNewAlerts
<1>3. NoticesFit' /\ VerdictsFit' /\ NoTwins'
  BY <1>1, <1>2, NoTwinsStays DEF Moved, Shifted
<1>4. \A p : PageFits(p) => PageFits(p)'
  BY <1>1, <1>2, PageStays
<1>5. page' = page => PagesFit'
  BY <1>1, <1>4 DEF PagesFit
<1>6. QED
  BY <1>3, <1>5

-----------------------------------------------------------------------------
(* The steps that leave verdicts and follow-ups alone.                      *)

FollowUpsStay == UNCHANGED <<log, reminded, escalated, overlapped, reopened>>

LEMMA StillIsCalm ==
  ASSUME AlertInv, notice' = notice, now' = now, FollowUpsStay
  PROVE  Calm /\ Unread' = Unread /\ Existing' = Existing /\ NextId' = NextId
<1>1. NoticesFit /\ VerdictsFit
  BY DEF AlertInv
<1>2. Moved /\ Existing' = Existing /\ Unread' = Unread /\ NextId' = NextId /\ Attention' = Attention
  BY <1>1, NothingMoves
<1>3. \A i \in Attention : i < NextId
  BY NextIdFits DEF Attention
<1>4. NoNewAlerts
  BY <1>2, <1>3 DEF NoNewAlerts
<1>5. now <= now' /\ now' \in 0..MaxTime
  BY <1>1, ClocksFit DEF VerdictsFit
<1>6. QED
  BY <1>2, <1>4, <1>5 DEF Calm, FollowUpsStay

LEMMA BadgeSame ==
  ASSUME BadgeFits, UNCHANGED <<emitting, badge, skewed>>, Unread' = Unread
  PROVE  BadgeFits'
BY DEF BadgeFits, BadgeIsRight

LEMMA BadgeOwed ==
  ASSUME BadgeFits, NEW h \in Requests, Owes(h), badge' = badge
  PROVE  BadgeFits'
<1> DEFINE e == [counted |-> None]
<1>1. e \in Emission /\ e # None
  BY InboxAssumption DEF Emission
<1>2. emitting' = [emitting EXCEPT ![h] = e] /\ emitting \in [Requests -> Emission \cup { None }]
  BY DEF Owes, BadgeFits
<1> HIDE DEF e
<1>3. emitting' \in [Requests -> Emission \cup { None }] /\ emitting'[h] # None
  BY <1>1, <1>2
<1>4. badge' \in 0..MaxNotices
  BY DEF BadgeFits
<1>5. BadgeIsRight'
  BY <1>3 DEF BadgeIsRight
<1>6. QED
  BY <1>3, <1>4, <1>5 DEF BadgeFits

LEMMA CountUnreadStep ==
  ASSUME AlertInv, FollowUpsStay, NEW h \in Requests, CountUnread(h)
  PROVE  AlertInv'
<1>1. Calm /\ Unread' = Unread
  BY StillIsCalm DEF CountUnread
<1>2. BadgeFits'
  <2>1. PICK n \in 0..MaxNotices : n = Cardinality(Unread)
    BY IdsAreCounted, NextIdIs DEF Unread
  <2>2. PICK e : e = [emitting[h] EXCEPT !.counted = n]
    OBVIOUS
  <2>3. emitting \in [Requests -> Emission \cup { None }]
    BY DEF AlertInv, BadgeFits
  <2>4. emitting[h] \in Emission
    BY <2>3 DEF CountUnread
  <2>5. e \in Emission
    BY <2>2, <2>4 DEF Emission
  <2>6. emitting' = [emitting EXCEPT ![h] = e]
    BY <2>1, <2>2 DEF CountUnread
  <2>7. emitting' \in [Requests -> Emission \cup { None }] /\ emitting'[h] # None
    BY <2>3, <2>5, <2>6, InboxAssumption
  <2>8. BadgeIsRight'
    BY <2>7 DEF BadgeIsRight
  <2>9. badge' \in 0..MaxNotices
    BY DEF CountUnread, AlertInv, BadgeFits
  <2>10. QED
    BY <2>7, <2>8, <2>9 DEF BadgeFits
<1>3. TasksFit' /\ PagesFit'
  BY <1>1, TasksUnchanged, CalmStep DEF CountUnread
<1>4. QED
  BY <1>1, <1>2, <1>3, CalmStep DEF AlertInv

LEMMA EmitUnreadStep ==
  ASSUME AlertInv, FollowUpsStay, NEW h \in Requests, EmitUnread(h)
  PROVE  AlertInv'
<1>1. Calm /\ Unread' = Unread
  BY StillIsCalm DEF EmitUnread
<1>2. BadgeFits'
  <2>1. emitting \in [Requests -> Emission \cup { None }]
    BY DEF AlertInv, BadgeFits
  <2>2. emitting[h] \in Emission /\ emitting[h].counted # None
    BY <2>1 DEF EmitUnread
  <2>3. badge' \in 0..MaxNotices
    BY <2>2 DEF EmitUnread, Emission
  <2>4. emitting' \in [Requests -> Emission \cup { None }]
    BY <2>1 DEF EmitUnread
  <2>5. skewed' = (badge' # Cardinality(Unread))
    BY DEF EmitUnread
  <2>6. BadgeIsRight'
    BY <1>1, <2>5 DEF BadgeIsRight
  <2>7. QED
    BY <2>3, <2>4, <2>6 DEF BadgeFits
<1>3. TasksFit' /\ PagesFit'
  BY <1>1, TasksUnchanged, CalmStep DEF EmitUnread
<1>4. QED
  BY <1>1, <1>2, <1>3, CalmStep DEF AlertInv

LEMMA RequestDiesStep ==
  ASSUME AlertInv, FollowUpsStay, NEW h \in Requests, RequestDies(h)
  PROVE  AlertInv'
<1>1. Calm /\ Unread' = Unread
  BY StillIsCalm DEF RequestDies
<1>2. emitting' = [emitting EXCEPT ![h] = None] /\ badge' = badge /\ skewed' = (skewed \/ emitting[h] # None)
  BY DEF RequestDies
<1>3. BadgeFits
  BY DEF AlertInv
<1>4. DOMAIN emitting = Requests
  BY <1>3 DEF BadgeFits
<1>5. BadgeIsRight'
  <2>1. SUFFICES ASSUME \A g \in Requests : emitting'[g] = None, ~skewed'
                 PROVE  badge' = Cardinality(Unread')
    BY DEF BadgeIsRight
  <2>2. ~skewed /\ emitting[h] = None
    BY <1>2, <2>1
  <2>3. \A g \in Requests : emitting[g] = None
    BY <1>2, <1>4, <2>1, <2>2
  <2>4. QED
    BY <1>1, <1>2, <1>3, <2>2, <2>3 DEF BadgeFits, BadgeIsRight
<1>6. BadgeFits'
  BY <1>2, <1>3, <1>5 DEF BadgeFits
<1>7. TasksFit' /\ PagesFit'
  <2>1. task' = [task EXCEPT ![h] = None] /\ page' = page
    BY DEF RequestDies
  <2>2. QED
    BY <1>1, <2>1, TasksStay, CalmStep
<1>8. QED
  BY <1>1, <1>6, <1>7, CalmStep DEF AlertInv

LEMMA NothingStep ==
  ASSUME AlertInv, FollowUpsStay, UNCHANGED inboxVars
  PROVE  AlertInv'
<1>1. Calm /\ Unread' = Unread
  BY StillIsCalm DEF inboxVars
<1>2. TasksFit' /\ PagesFit' /\ BadgeFits'
  BY <1>1, TasksUnchanged, CalmStep, BadgeSame DEF inboxVars, AlertInv
<1>3. QED
  BY <1>1, <1>2, CalmStep DEF AlertInv

LEMMA PruneFailsStep ==
  ASSUME AlertInv, FollowUpsStay, PruneFails
  PROVE  AlertInv'
<1>1. Calm /\ Unread' = Unread
  BY StillIsCalm DEF PruneFails
<1>2. TasksFit' /\ PagesFit' /\ BadgeFits'
  BY <1>1, TasksUnchanged, CalmStep, BadgeSame DEF PruneFails, AlertInv
<1>3. QED
  BY <1>1, <1>2, CalmStep DEF AlertInv

LEMMA TickStep ==
  ASSUME AlertInv, Tick
  PROVE  AlertInv'
<1>1. NoticesFit /\ VerdictsFit /\ now \in 0..MaxTime
  BY DEF AlertInv, VerdictsFit
<1>2. Moved /\ Unread' = Unread /\ Attention' = Attention
  BY <1>1, NothingMoves DEF Tick
<1>3. \A i \in Attention : i < NextId
  BY NextIdFits DEF Attention
<1>4. NoNewAlerts
  BY <1>2, <1>3 DEF NoNewAlerts
<1>5. now <= now' /\ now' \in 0..MaxTime
  BY <1>1, AlertAssumption DEF Tick
<1>6. UNCHANGED <<log, reminded, escalated, overlapped, reopened, task, page, emitting, badge, skewed>>
  BY DEF Tick, followUpVars
<1>7. Calm
  BY <1>4, <1>5, <1>6 DEF Calm
<1>8. TasksFit' /\ PagesFit' /\ BadgeFits'
  BY <1>2, <1>6, <1>7, TasksUnchanged, CalmStep, BadgeSame DEF AlertInv
<1>9. QED
  BY <1>7, <1>8, CalmStep DEF AlertInv

-----------------------------------------------------------------------------
(* The steps that read, post and prune notices.                             *)

LEMMA ReadsAreCalm ==
  ASSUME AlertInv, FollowUpsStay, now' = now, NEW ids \in SUBSET Ids, Reads(ids)
  PROVE  Calm /\ Unread' = Unread \ ids
<1>1. NoticesFit /\ VerdictsFit
  BY DEF AlertInv
<1>2. Moved /\ Unread' = Unread \ ids /\ Attention' = Attention
  BY <1>1, ReadsMove
<1>3. \A i \in Attention : i < NextId
  BY NextIdFits DEF Attention
<1>4. NoNewAlerts
  BY <1>2, <1>3 DEF NoNewAlerts
<1>5. now <= now' /\ now' \in 0..MaxTime
  BY <1>1, ClocksFit DEF VerdictsFit
<1>6. QED
  BY <1>2, <1>4, <1>5 DEF Calm, FollowUpsStay

LEMMA PostsAreCalm ==
  ASSUME AlertInv, FollowUpsStay, now' = now, NEW h \in Requests, NEW kind \in AlertKinds \cup { "OTHER" },
         kind # "ATTENTION", Post(h, kind, None)
  PROVE  Calm
<1>1. NoticesFit /\ VerdictsFit
  BY DEF AlertInv
<1>2. PICK new : new = [kind |-> kind, level |-> None, at |-> now, read |-> FALSE]
  OBVIOUS
<1>3. new \in Notice /\ new.kind # "ATTENTION"
  BY <1>1, <1>2 DEF Notice, VerdictsFit
<1>4. Posted(new)
  BY <1>2 DEF Post, Posted
<1>5. /\ Moved /\ notice'[NextId] = new
      /\ \A i \in Existing' : i # NextId => i < NextId
  BY <1>1, <1>3, <1>4, PostMoves
<1>6. \A i \in Attention' : i < NextId
  BY <1>3, <1>5 DEF Attention
<1>7. now <= now' /\ now' \in 0..MaxTime
  BY <1>1, ClocksFit DEF VerdictsFit
<1>8. QED
  BY <1>5, <1>6, <1>7 DEF Calm, FollowUpsStay, NoNewAlerts

LEMMA PostOtherStep ==
  ASSUME AlertInv, FollowUpsStay, NEW h \in Requests, PostOther(h)
  PROVE  AlertInv'
<1>1. Calm
  BY PostsAreCalm DEF PostOther
<1>2. Owes(h) /\ badge' = badge /\ task' = task /\ page' = page
  BY DEF PostOther, Post
<1>3. TasksFit' /\ PagesFit' /\ BadgeFits'
  BY <1>1, <1>2, TasksUnchanged, CalmStep, BadgeOwed DEF AlertInv
<1>4. QED
  BY <1>1, <1>3, CalmStep DEF AlertInv

LEMMA MarkReadStep ==
  ASSUME AlertInv, FollowUpsStay, NEW h \in Requests, NEW ids \in SUBSET Ids, Reads(ids), Owes(h),
         UNCHANGED <<log, now, task, badge, skewed, pruning, page>>
  PROVE  AlertInv'
<1>1. Calm
  BY ReadsAreCalm
<1>2. TasksFit' /\ PagesFit' /\ BadgeFits'
  BY <1>1, TasksUnchanged, CalmStep, BadgeOwed DEF AlertInv
<1>3. QED
  BY <1>1, <1>2, CalmStep DEF AlertInv

LEMMA BeginBulkReadStep ==
  ASSUME AlertInv, FollowUpsStay, NEW h \in Requests, NEW ids \in SUBSET Ids, BeginBulkRead(h, ids)
  PROVE  AlertInv'
<1>1. Calm /\ Unread' = Unread /\ Existing' = Existing /\ NextId' = NextId
  BY StillIsCalm DEF BeginBulkRead
<1>2. PICK n \in 0..MaxNotices : n = Cardinality(ids \cap Unread)
  BY IdsAreCounted
<1>3. PICK t : t = [op |-> "read", todo |-> ids, count |-> n]
  OBVIOUS
<1>4. task' = [task EXCEPT ![h] = t] /\ ids \subseteq AlertIds
  BY <1>2, <1>3 DEF BeginBulkRead
<1>5. t \in Marking /\ t.todo = ids /\ t.count = n
  BY <1>3 DEF Marking
<1>6. \A i \in ids : i < NextId
  BY <1>4, NextIdFits DEF AlertIds
<1>7. n = 0 => ids \cap Unread = {}
  <2>1. IsFiniteSet(ids \cap Unread)
    BY IdsAreCounted
  <2>2. QED
    BY <1>2, <2>1, FS_EmptySet
<1>8. MarkingFits(t)'
  BY <1>1, <1>5, <1>6, <1>7 DEF MarkingFits
<1>9. TaskFits(t)'
  BY <1>5, <1>8 DEF TaskFits
<1>10. TasksFit' /\ PagesFit' /\ BadgeFits'
  <2>1. UNCHANGED <<emitting, badge, skewed, page>> /\ BadgeFits
    BY DEF BeginBulkRead, AlertInv
  <2>2. QED
    BY <1>1, <1>4, <1>9, <2>1, TasksStay, CalmStep, BadgeSame
<1>11. QED
  BY <1>1, <1>10, CalmStep DEF AlertInv

\* What kind of task a request is at, from its operation.
LEMMA TaskIs ==
  ASSUME AlertInv, NEW h \in Requests, task[h] # None
  PROVE  /\ TaskFits(task[h])
         /\ task[h].op = "read" => task[h] \in Marking /\ MarkingFits(task[h])
         /\ task[h].op = "publish" => task[h] \in Publication /\ PublicationFits(task[h])
         /\ task[h].op \in Verdicts \cup { "auto" } => task[h] \in Decision /\ DecisionFits(task[h])
         /\ task[h].op = "clear" => task[h] \in Clearing
         /\ task[h].op = "digest" => task[h] \in Digest /\ DigestFits(task[h])
<1>1. PICK t : t = task[h]
  OBVIOUS
<1>2. TaskFits(t)
  BY <1>1 DEF AlertInv, TasksFit
<1>3. /\ t \in Marking => t.op = "read"
      /\ t \in Publication => t.op = "publish"
      /\ t \in Decision => t.op \in Verdicts \cup { "auto" }
      /\ t \in Clearing => t.op = "clear"
      /\ t \in Digest => t.op = "digest"
  BY DEF Marking, Publication, Decision, Clearing, Digest
<1>4. QED
  BY <1>1, <1>2, <1>3 DEF TaskFits, Verdicts

LEMMA BulkReadStep ==
  ASSUME AlertInv, FollowUpsStay, NEW h \in Requests, BulkRead(h)
  PROVE  AlertInv'
<1>1. PICK t : t = task[h]
  OBVIOUS
<1>2. t \in Marking /\ (t.count = 0 => t.todo \cap Unread = {})
  BY <1>1, TaskIs DEF BulkRead, MarkingFits
<1>3. t.todo \in SUBSET Ids /\ t.count \in Nat
  BY <1>2, InboxAssumption DEF Marking
<1>4. Calm /\ Unread' = Unread \ t.todo
  BY <1>1, <1>3, ReadsAreCalm DEF BulkRead
<1>5. BadgeFits'
  <2>1. BadgeFits /\ badge' = badge /\ skewed' = skewed
    BY DEF BulkRead, AlertInv
  <2>2. CASE Owes(h)
    BY <2>1, <2>2, BadgeOwed
  <2>3. CASE ~WorthEmitting(t) /\ emitting' = emitting
    <3>1. t.count = 0
      BY <1>3, <2>3 DEF WorthEmitting
    <3>2. Unread' = Unread
      BY <1>2, <1>4, <3>1
    <3>3. QED
      BY <2>1, <2>3, <3>2, BadgeSame
  <2>4. QED
    BY <1>1, <2>2, <2>3 DEF BulkRead
<1>6. TasksFit' /\ PagesFit'
  <2>1. task' = [task EXCEPT ![h] = None] /\ page' = page
    BY DEF BulkRead
  <2>2. QED
    BY <1>4, <2>1, TasksStay, CalmStep
<1>7. QED
  BY <1>4, <1>5, <1>6, CalmStep DEF AlertInv

LEMMA PruneOldStep ==
  ASSUME AlertInv, FollowUpsStay, PruneOld
  PROVE  AlertInv'
<1>1. NoticesFit /\ VerdictsFit /\ BadgeFits
  BY DEF AlertInv
<1>2. Pruned
  BY DEF PruneOld, Pruned
<1>3. /\ Moved /\ Attention' \subseteq Attention
      /\ Unread' = { i \in Unread : i \in Newest(Existing, Keep) }
  BY <1>1, <1>2, PruneMoves
<1>4. \A i \in Attention : i < NextId
  BY NextIdFits DEF Attention
<1>5. now <= now' /\ now' \in 0..MaxTime
  BY <1>1, ClocksFit DEF VerdictsFit, PruneOld
<1>6. Calm
  BY <1>3, <1>4, <1>5 DEF Calm, FollowUpsStay, NoNewAlerts
<1>7. BadgeFits'
  <2>1. skewed' = (skewed \/ \E i \in Unread : i \notin Newest(Existing, Keep))
    BY DEF PruneOld
  <2>2. ~skewed' => ~skewed /\ Unread' = Unread
    BY <1>3, <2>1
  <2>3. emitting' = emitting /\ badge' = badge
    BY DEF PruneOld
  <2>4. QED
    BY <1>1, <2>2, <2>3 DEF BadgeFits, BadgeIsRight
<1>8. TasksFit' /\ PagesFit'
  BY <1>6, TasksUnchanged, CalmStep DEF PruneOld
<1>9. QED
  BY <1>6, <1>7, <1>8, CalmStep DEF AlertInv

-----------------------------------------------------------------------------
(* A list, page by page.                                                    *)

LEMMA OpenListStep ==
  ASSUME AlertInv, FollowUpsStay, NEW q \in Queries, OpenList(q)
  PROVE  AlertInv'
<1>1. Calm /\ Unread' = Unread /\ NextId' = NextId
  BY StillIsCalm DEF OpenList
<1>2. PICK n \in Nat : n = NextId /\ n \in 1..(MaxNotices + 1)
  BY NextIdFits, InboxAssumption
<1>3. PICK p : p = [query |-> q, cursor |-> None, upTo |-> n - 1, seen |-> {}, skipped |-> {}, more |-> TRUE]
  OBVIOUS
<1>4. page' = p
  BY <1>2, <1>3 DEF OpenList
<1>5. n - 1 \in 0..MaxNotices /\ n - 1 < n
  BY <1>2, InboxAssumption
<1>6. p \in Page
  BY <1>3, <1>5 DEF Page, Queries
<1>7. PageFits(p)'
  BY <1>1, <1>2, <1>3, <1>5, <1>6 DEF PageFits
<1>8. PagesFit'
  BY <1>4, <1>7 DEF PagesFit
<1>9. TasksFit' /\ BadgeFits'
  <2>1. UNCHANGED <<emitting, badge, skewed, task>> /\ BadgeFits
    BY DEF OpenList, AlertInv
  <2>2. QED
    BY <1>1, <2>1, TasksUnchanged, BadgeSame
<1>10. QED
  BY <1>1, <1>8, <1>9, CalmStep DEF AlertInv

LEMMA LeastIs ==
  ASSUME NEW S \in SUBSET Ids, S # {}
  PROVE  Min(S) \in S /\ \A i \in S : Min(S) <= i
<1>1. \E x \in S : \A y \in S : x <= y
  BY IdsAreCounted, Least
<1>2. QED
  BY <1>1 DEF Min

\* Everything above the least of the newest is among them.
LEMMA ShownAreNewest ==
  ASSUME NEW found \in SUBSET Ids, found # {}
  PROVE  LET shown == Newest(found, PageLimit) IN
           /\ shown \subseteq found /\ Min(shown) \in shown
           /\ \A i \in found : i \notin shown => i < Min(shown) /\ Cardinality(found) > PageLimit
<1> DEFINE shown == Newest(found, PageLimit)
<1>1. shown \subseteq found
  BY DEF Newest
<1>2. PageLimit \in Nat \ {0}
  BY InboxAssumption
<1>3. \A i \in found : i \notin shown => Cardinality(found) > PageLimit
  BY <1>2, FewAreNewest
<1>4. PICK g \in found : \A j \in found : g >= j
  BY IdsAreCounted, Greatest
<1>5. found \subseteq Nat
  BY IdsAreCounted
<1>6. g \in shown
  <2>1. \A j \in found : j <= g
    BY <1>4, <1>5
  <2>2. QED
    BY <1>2, <2>1, NewestHasGreatest
<1>7. \A i \in shown, j \in found : j >= i => j \in shown
  BY <1>2, NewestAreAbove
<1> HIDE DEF shown
<1>8. Min(shown) \in shown
  BY <1>1, <1>6, LeastIs
<1>9. \A i \in found : i \notin shown => ~(i >= Min(shown))
  BY <1>7, <1>8
<1>10. \A i \in found : i \notin shown => i < Min(shown)
  <2>1. PICK m \in shown : m = Min(shown)
    BY <1>8
  <2>2. m \in Nat
    BY <1>1, <1>5
  <2>3. QED
    BY <1>5, <1>9, <2>1, <2>2
<1>11. QED
  BY <1>1, <1>3, <1>8, <1>10 DEF shown

LEMMA FetchPageStep ==
  ASSUME AlertInv, FollowUpsStay, FetchPage
  PROVE  AlertInv'
<1>1. Calm /\ Unread' = Unread /\ Existing' = Existing /\ NextId' = NextId
  BY StillIsCalm DEF FetchPage
<1>2. PICK p : p = page
  OBVIOUS
<1>3. PICK q : q = p.query
  OBVIOUS
<1>4. PICK c : c = p.cursor
  OBVIOUS
<1>5. p # None /\ p.more /\ PageFits(p) /\ p \in Page
  BY <1>2 DEF FetchPage, AlertInv, PagesFit, PageFits
<1>6. PICK S : S = Matching(q)
  OBVIOUS
<1>7. PICK from : from = FromCursor(q, c)
  OBVIOUS
<1>8. PICK skipped : skipped = SkippedAt(q, c)
  OBVIOUS
<1>9. PICK found : found = (from \ skipped) \cap S
  OBVIOUS
<1>10. PICK shown : shown = Newest(found, PageLimit)
  OBVIOUS
<1>11. PICK more \in BOOLEAN : more = (Cardinality(found) > PageLimit)
  <2>1. found \in SUBSET Ids
    BY <1>9, NextIdIs, <1>6 DEF Matching, Fetched, Unread, AlertIds
  <2>2. PICK n \in Nat : n = Cardinality(found)
    BY <2>1, IdsAreCounted, InboxAssumption
  <2>3. PICK k \in Nat : k = PageLimit
    BY InboxAssumption
  <2>4. \E m \in BOOLEAN : m = (n > k)
    <3>1. CASE n > k
      <4>1. TRUE = (n > k)
        BY <3>1
      <4>2. QED
        BY <4>1
    <3>2. CASE ~(n > k)
      <4>1. FALSE = (n > k)
        BY <3>2
      <4>2. QED
        BY <4>1
    <3>3. QED
      BY <3>1, <3>2
  <2>5. QED
    BY <2>2, <2>3, <2>4
<1>12. PICK cursor : cursor = IF more THEN Min(shown) ELSE None
  OBVIOUS
<1>13. PICK r : r = [p EXCEPT !.seen = p.seen \cup shown, !.skipped = p.skipped \cup (skipped \ { c }), !.more = more, !.cursor = cursor]
  OBVIOUS
<1>14. page' = r
  BY <1>2, <1>3, <1>4, <1>6, <1>7, <1>8, <1>9, <1>10, <1>11, <1>12, <1>13 DEF FetchPage, AfterShown
<1>15. S \subseteq Existing /\ Existing \subseteq Ids /\ S \subseteq Fetched(q) /\ from \subseteq Ids /\ skipped \subseteq Ids
  <2>1. Fetched(q) \subseteq Existing
    BY DEF Fetched, Unread, AlertIds
  <2>2. S \subseteq Fetched(q) /\ from \subseteq Fetched(q) /\ skipped \subseteq from
    BY <1>6, <1>7, <1>8 DEF Matching, FromCursor, SkippedAt, Newest
  <2>3. QED
    BY <2>1, <2>2, NextIdIs
<1>16. found \in SUBSET Ids /\ shown \subseteq found
  BY <1>9, <1>10, <1>15 DEF Newest
<1>17. found # {} =>
         /\ Min(shown) \in shown
         /\ \A i \in found : i \notin shown => i < Min(shown) /\ more
  BY <1>10, <1>11, <1>16, ShownAreNewest
<1>18. more => found # {}
  <2>1. found = {} => Cardinality(found) = 0
    BY FS_EmptySet
  <2>2. PageLimit \in Nat
    BY InboxAssumption
  <2>3. found = {} => ~more
    <3>1. ~(0 > PageLimit)
      BY <2>2
    <3>2. QED
      BY <1>11, <2>1, <3>1
  <2>4. QED
    BY <2>3
<1>19. cursor \in Ids \cup { None } /\ (cursor # None => cursor \in found)
  BY <1>12, <1>16, <1>17, <1>18
<1>20. /\ p.query \in { "ALL", "UNREAD", "INVENTORY_OPEN" } /\ p.cursor \in Ids \cup { None }
       /\ p.upTo \in 0..MaxNotices /\ p.seen \subseteq Ids /\ p.skipped \subseteq Ids
  BY <1>5 DEF Page
<1>21. /\ r.query = q /\ r.upTo = p.upTo /\ r.cursor = cursor /\ r.more = more
       /\ r.seen = p.seen \cup shown /\ r.skipped = p.skipped \cup (skipped \ { c })
       /\ r \in Page
  BY <1>3, <1>5, <1>13, <1>15, <1>16, <1>19, <1>20 DEF Page
<1>22. r.upTo < NextId /\ (r.cursor # None => r.cursor < NextId)
  <2>1. p.upTo < NextId
    BY <1>5 DEF PageFits
  <2>2. \A i \in found : i < NextId
    BY <1>9, <1>15, NextIdFits
  <2>3. QED
    BY <1>19, <1>21, <2>1, <2>2
<1>23. \A i \in S : i <= p.upTo =>
         i \in r.seen \cup r.skipped \/ (more /\ (cursor # None => i < cursor))
  <2>1. SUFFICES ASSUME NEW i \in S, i <= p.upTo, i \notin p.seen \cup p.skipped
                 PROVE  i \in r.seen \cup r.skipped \/ (more /\ (cursor # None => i < cursor))
    BY <1>21
  <2>2. c # None => i < c /\ c < NextId
    BY <1>3, <1>4, <1>5, <1>6, <2>1 DEF PageFits
  <2>3. c # None => c \in Existing /\ i <= c /\ i # c
    <3>1. c # None => c \in Ids
      BY <1>4, <1>20
    <3>2. i \in Nat /\ Ids \subseteq Nat /\ i \in Existing
      BY <1>15, NumbersFit DEF AlertInv
    <3>3. ASSUME c # None
          PROVE  i <= c /\ i # c
      <4>1. c \in Nat /\ i < c
        BY <2>2, <3>1, <3>2, <3>3
      <4>2. QED
        BY <3>2, <4>1
    <3>4. QED
      BY <2>2, <3>1, <3>2, <3>3 DEF AlertInv, NoticesFit
  <2>4. i \in from
    BY <1>7, <1>15, <2>3 DEF FromCursor
  <2>5. CASE i \in skipped
    <3>1. i # c
      <4>1. c = None => skipped = {}
        BY <1>8 DEF SkippedAt
      <4>2. QED
        BY <2>3, <2>5, <4>1
    <3>2. QED
      BY <1>21, <2>5, <3>1
  <2>6. CASE i \notin skipped
    <3>1. i \in found
      BY <1>9, <2>4, <2>6
    <3>2. CASE i \in shown
      BY <1>21, <3>2
    <3>3. CASE i \notin shown
      BY <1>12, <1>17, <3>1, <3>3
    <3>4. QED
      BY <3>2, <3>3
  <2>7. QED
    BY <2>5, <2>6
<1>24. \A i \in Matching(q)' : i <= p.upTo => i \in S
  <2>1. SUFFICES ASSUME NEW i \in Matching(q)', i <= p.upTo PROVE i \in S
    OBVIOUS
  <2>2. i \in Existing'
    BY <2>1, NumbersFit DEF Matching, Fetched, Unread, AlertIds
  <2>3. i < NextId
    BY <1>1, <2>2, NextIdFits
  <2>4. NoticesFit /\ Moved /\ Shifted
    BY <1>1, CalmShifts DEF AlertInv, Calm, NoNewAlerts
  <2>5. QED
    BY <1>6, <2>1, <2>3, <2>4, MatchingShrinks
<1>25. PageFits(r)'
  BY <1>1, <1>21, <1>22, <1>23, <1>24 DEF PageFits
<1>26. PagesFit'
  BY <1>14, <1>25 DEF PagesFit
<1>27. TasksFit' /\ BadgeFits'
  <2>1. UNCHANGED <<emitting, badge, skewed, task>> /\ BadgeFits
    BY DEF FetchPage, AlertInv
  <2>2. QED
    BY <1>1, <2>1, TasksUnchanged, BadgeSame
<1>28. QED
  BY <1>1, <1>26, <1>27, CalmStep DEF AlertInv

-----------------------------------------------------------------------------
(* The steps in which a request reads what it will write.                   *)

LEMMA ReadingStep ==
  ASSUME AlertInv, FollowUpsStay, UNCHANGED <<notice, now, emitting, badge, skewed, page>>,
         NEW h \in Requests, NEW next, task' = [task EXCEPT ![h] = next], next # None => TaskFits(next)'
  PROVE  AlertInv'
<1>1. Calm /\ Unread' = Unread
  BY StillIsCalm
<1>2. TasksFit' /\ PagesFit' /\ BadgeFits'
  BY <1>1, TasksStay, CalmStep, BadgeSame DEF AlertInv
<1>3. QED
  BY <1>1, <1>2, CalmStep DEF AlertInv

LEMMA CheckAlertStep ==
  ASSUME AlertInv, FollowUpsStay, NEW h \in Requests, NEW level \in Levels, CheckAlert(h, level)
  PROVE  AlertInv'
<1>1. UNCHANGED <<notice, now, emitting, badge, skewed, page>>
  BY DEF CheckAlert
<1>2. Twins(level) = {}
  <2>1. ASSUME NEW i \in Twins(level)
        PROVE  FALSE
    <3>1. i \in Attention /\ notice[i].level = level /\ notice[i].at >= now - Cooldown /\ Status(i) \notin { "resolved", "dismissed" }
      BY <2>1 DEF Twins, Closed
    <3>2. i \in AlertIds
      BY <3>1 DEF Attention, AlertIds, AlertKinds
    <3>3. Repeats(level)
      BY <3>1, <3>2 DEF Repeats
    <3>4. QED
      BY <3>3 DEF CheckAlert
  <2>2. QED
    BY <2>1
<1>3. Calm
  BY <1>1, StillIsCalm
<1>4. Twins(level)' = {}
  BY <1>2, <1>3, TwinsShrink, CalmShifts DEF AlertInv, Calm
<1>5. PICK t : t = [op |-> "publish", level |-> level, late |-> FALSE]
  OBVIOUS
<1>6. t \in Publication /\ t.level = level
  BY <1>5 DEF Publication
<1>7. TaskFits(t)'
  BY <1>4, <1>6 DEF TaskFits, PublicationFits
<1>8. task' = [task EXCEPT ![h] = t]
  BY <1>5 DEF CheckAlert
<1>9. QED
  BY <1>1, <1>7, <1>8, ReadingStep

LEMMA IntendsStep ==
  ASSUME AlertInv, FollowUpsStay, UNCHANGED <<notice, now, emitting, badge, skewed, page>>,
         NEW h \in Requests, NEW op \in Verdicts \cup { "auto" }, NEW ids \in SUBSET Ids, Intends(h, op, ids)
  PROVE  AlertInv'
<1>1. PICK todo \in SUBSET Ids : todo = { i \in ids : Due(op, i) }
  OBVIOUS
<1>2. PICK t : t = [op |-> op, todo |-> todo, old |-> {}]
  OBVIOUS
<1>3. PICK next : next = IF todo = {} THEN None ELSE t
  OBVIOUS
<1>4. task' = [task EXCEPT ![h] = next]
  BY <1>1, <1>2, <1>3 DEF Intends
<1>5. t \in Decision /\ t.op = op /\ t.todo = todo /\ t.old = {}
  BY <1>2 DEF Decision
<1>6. DecisionFits(t)
  BY <1>1, <1>5 DEF DecisionFits
<1>7. TaskFits(t)'
  <2>1. Calm
    BY StillIsCalm
  <2>2. TaskFits(t)
    BY <1>5, <1>6 DEF TaskFits
  <2>3. QED
    BY <2>1, <2>2, TaskStays DEF AlertInv
<1>8. QED
  BY <1>3, <1>4, <1>7, ReadingStep

LEMMA ReadAlertsStep ==
  ASSUME AlertInv, NEW h \in Requests, NEW op \in Verdicts, NEW ids \in SUBSET Ids, ReadAlerts(h, op, ids)
  PROVE  AlertInv'
<1>1. FollowUpsStay /\ UNCHANGED <<notice, now, emitting, badge, skewed, page>> /\ Intends(h, op, ids)
  BY DEF ReadAlerts, FollowUpsStay, followUpVars
<1>2. QED
  BY <1>1, IntendsStep

LEMMA ReadRecoveredStep ==
  ASSUME AlertInv, FollowUpsStay, NEW h \in Requests, ReadRecovered(h)
  PROVE  AlertInv'
<1>1. PICK ids : ids = { i \in Attention : notice[i].level \in task[h].levels }
  OBVIOUS
<1>2. ids \in SUBSET Ids
  BY <1>1, NextIdIs DEF Attention
<1>3. Intends(h, "auto", ids) /\ UNCHANGED <<notice, now, emitting, badge, skewed, page>>
  BY <1>1 DEF ReadRecovered
<1>4. QED
  BY <1>2, <1>3, IntendsStep

LEMMA NobodyStep ==
  ASSUME AlertInv, FollowUpsStay, NEW h \in Requests, NobodyToEscalateTo(h)
  PROVE  AlertInv'
BY ReadingStep DEF NobodyToEscalateTo

LEMMA ReadDigestStep ==
  ASSUME AlertInv, FollowUpsStay, NEW h \in Requests, NEW at \in 0..MaxTime, ReadDigest(h, at)
  PROVE  AlertInv'
<1>1. UNCHANGED <<notice, now, emitting, badge, skewed, page>> /\ at \in 0..now
  BY DEF ReadDigest, TriggeredAt
<1>2. PICK remind : remind = { i \in { j \in Attention : ~Closed(j) } : Wants(i, at, reminded, RemindAge, RemindCooldown) }
  OBVIOUS
<1>3. PICK escalate : escalate = { i \in { j \in Attention : ~Closed(j) } : Wants(i, at, escalated, EscalateAge, EscalateCooldown) }
  OBVIOUS
<1>4. PICK t : t = [op |-> "digest", remind |-> remind, escalate |-> escalate, sent |-> FALSE, old |-> {}]
  OBVIOUS
<1>5. task' = [task EXCEPT ![h] = t]
  BY <1>2, <1>3, <1>4 DEF ReadDigest
<1>6. remind \subseteq Ids /\ escalate \subseteq Ids
  BY <1>2, <1>3, NextIdIs DEF Attention
<1>7. t \in Digest /\ t.remind = remind /\ t.escalate = escalate /\ t.old = {}
  BY <1>4, <1>6 DEF Digest
<1>8. /\ now \in Nat /\ at \in Nat /\ at <= now /\ RemindCooldown \in Nat /\ EscalateCooldown \in Nat
      /\ \A i \in Ids : /\ reminded[i] # None => reminded[i] \in Nat
                        /\ escalated[i] # None => escalated[i] \in Nat
  BY <1>1, AlertAssumption DEF AlertInv, VerdictsFit
<1>9. \A last \in Nat, cooldown \in Nat : ~(last >= at - cooldown) => now - last > cooldown
  BY <1>8
<1>10. \A i \in remind : ~Closed(i) /\ LongAgo(reminded[i], RemindCooldown)
  BY <1>2, <1>6, <1>8, <1>9 DEF Wants, LongAgo
<1>11. \A i \in escalate : ~Closed(i) /\ LongAgo(escalated[i], EscalateCooldown)
  BY <1>3, <1>6, <1>8, <1>9 DEF Wants, LongAgo
<1>12. TaskFits(t)
  BY <1>7, <1>10, <1>11 DEF TaskFits, DigestFits
<1>13. Calm
  BY <1>1, StillIsCalm
<1>14. TaskFits(t)'
  BY <1>12, <1>13, TaskStays DEF AlertInv
<1>15. QED
  BY <1>1, <1>5, <1>14, ReadingStep

-----------------------------------------------------------------------------
(* The steps in which a request posts a notice that is no alert.            *)

LEMMA PostingStep ==
  ASSUME AlertInv, FollowUpsStay, UNCHANGED <<now, badge, page>>, NEW h \in Requests,
         NEW kind \in { "COMPENSATION", "OTHER" }, Post(h, kind, None),
         NEW next, task' = [task EXCEPT ![h] = next], next # None => TaskFits(next)
  PROVE  AlertInv'
<1>1. Calm
  BY PostsAreCalm DEF AlertKinds
<1>2. Owes(h)
  BY DEF Post
<1>3. next # None => TaskFits(next)'
  BY <1>1, TaskStays DEF AlertInv
<1>4. TasksFit' /\ PagesFit' /\ BadgeFits'
  BY <1>1, <1>2, <1>3, TasksStay, CalmStep, BadgeOwed DEF AlertInv
<1>5. QED
  BY <1>1, <1>4, CalmStep DEF AlertInv

LEMMA CompensateStep ==
  ASSUME AlertInv, FollowUpsStay, NEW h \in Requests, NEW clears \in SUBSET Levels, Compensate(h, clears)
  PROVE  AlertInv'
<1>1. PICK t : t = [op |-> "clear", levels |-> clears]
  OBVIOUS
<1>2. task' = [task EXCEPT ![h] = t] /\ UNCHANGED <<now, badge, page>> /\ Post(h, "COMPENSATION", None)
  BY <1>1 DEF Compensate
<1>3. TaskFits(t)
  BY <1>1 DEF TaskFits, Clearing
<1>4. QED
  BY <1>2, <1>3, PostingStep

LEMMA SendReminderStep ==
  ASSUME AlertInv, FollowUpsStay, NEW h \in Requests, SendReminder(h)
  PROVE  AlertInv'
<1>1. PICK t : t = task[h]
  OBVIOUS
<1>2. t \in Digest /\ DigestFits(t)
  BY <1>1, TaskIs DEF SendReminder, Doing
<1>3. PICK u : u = [t EXCEPT !.sent = TRUE]
  OBVIOUS
<1>4. u \in Digest /\ u.remind = t.remind /\ u.escalate = t.escalate /\ u.old = t.old
  BY <1>2, <1>3 DEF Digest
<1>5. TaskFits(u)
  BY <1>2, <1>4 DEF TaskFits, DigestFits
<1>6. task' = [task EXCEPT ![h] = u] /\ UNCHANGED <<now, badge, page>> /\ Post(h, "OTHER", None)
  BY <1>1, <1>3 DEF SendReminder
<1>7. QED
  BY <1>5, <1>6, PostingStep

-----------------------------------------------------------------------------
(* Publishing.                                                              *)

LEMMA PublishAlertStep ==
  ASSUME AlertInv, UNCHANGED <<reminded, escalated, reopened>>, NEW h \in Requests, PublishAlert(h)
  PROVE  AlertInv'
<1>1. NoticesFit /\ VerdictsFit /\ TasksFit /\ PagesFit /\ BadgeFits /\ NoTwins
  BY DEF AlertInv
<1>2. PICK t : t = task[h]
  OBVIOUS
<1>3. t \in Publication /\ PublicationFits(t)
  BY <1>2, TaskIs DEF PublishAlert, Doing
<1>4. PICK level \in Levels : level = t.level
  BY <1>3 DEF Publication
<1>5. PICK new : new = [kind |-> "ATTENTION", level |-> level, at |-> now, read |-> FALSE]
  OBVIOUS
<1>6. new \in Notice /\ new.level = level /\ new.at = now
  BY <1>1, <1>5 DEF Notice, VerdictsFit, AlertKinds
<1>7. Posted(new)
  BY <1>2, <1>4, <1>5 DEF PublishAlert, Post, Posted
<1>8. PICK n \in Ids : n = NextId
  BY <1>7 DEF Posted
<1>9. /\ Moved /\ notice'[n] = new
      /\ \A i \in Existing' : i # n => i < n /\ i \in Existing /\ notice'[i] = notice[i]
  BY <1>1, <1>6, <1>7, <1>8, PostMoves
<1>10. UNCHANGED <<log, now, badge, page, reminded, escalated, reopened>> /\ Owes(h)
  BY DEF PublishAlert, Post
<1>11. overlapped' = IF t.late THEN overlapped \cup { n } ELSE overlapped
  BY <1>2, <1>8 DEF PublishAlert
<1>12. VerdictsFit'
  BY <1>1, <1>10, <1>11 DEF VerdictsFit
<1>13. Shifted
  <2>1. \A i \in Ids : Status(i)' = Status(i) /\ Closed(i)' = Closed(i)
    BY <1>10 DEF Status, Closed
  <2>2. now <= now'
    BY <1>1, <1>10, ClocksFit
  <2>3. QED
    BY <1>10, <1>11, <1>12, <2>1, <2>2 DEF Shifted
<1>14. NoTwins'
  <2>1. SUFFICES ASSUME NEW i \in Attention', NEW j \in Attention', i < j, notice'[i].level = notice'[j].level,
                        notice'[j].at - notice'[i].at <= Cooldown, ~Closed(i)'
                 PROVE  j \in overlapped' \/ i \in reopened'
    BY DEF NoTwins
  <2>2. i \in Nat /\ j \in Nat /\ n \in Nat /\ i \in Existing' /\ j \in Existing'
    BY <1>1, NumbersFit DEF Attention
  <2>3. i # n
    <3>1. j = n \/ j < n
      BY <1>9, <2>2
    <3>2. QED
      BY <2>1, <2>2, <3>1
  <2>4. i \in Attention /\ notice'[i] = notice[i] /\ ~Closed(i)
    BY <1>9, <1>10, <2>1, <2>2, <2>3 DEF Attention, Closed, Status
  <2>5. CASE j # n
    <3>1. j \in Attention /\ notice'[j] = notice[j]
      BY <1>9, <2>1, <2>2, <2>5 DEF Attention
    <3>2. j \in overlapped \/ i \in reopened
      BY <1>1, <2>1, <2>4, <3>1 DEF NoTwins
    <3>3. QED
      BY <1>10, <1>11, <3>2
  <2>6. CASE j = n /\ t.late
    BY <1>11, <2>6
  <2>7. CASE j = n /\ ~t.late
    <3>1. i \notin Twins(level)
      BY <1>3, <1>4, <2>7 DEF PublicationFits
    <3>2. notice[i].level = level /\ now - notice[i].at <= Cooldown
      BY <1>6, <1>9, <2>1, <2>4, <2>7
    <3>3. notice[i].at \in Nat /\ now \in Nat /\ Cooldown \in Nat
      BY <1>1, <2>4, ClocksFit DEF Attention
    <3>4. notice[i].at >= now - Cooldown
      BY <3>2, <3>3
    <3>5. i \in reopened
      BY <2>4, <3>1, <3>2, <3>4 DEF Twins
    <3>6. QED
      BY <1>10, <3>5
  <2>8. QED
    BY <2>5, <2>6, <2>7
<1>15. PagesFit'
  <2>1. \A p : PageFits(p) => PageFits(p)'
    BY <1>1, <1>9, <1>13, PageStays
  <2>2. QED
    BY <1>1, <1>10, <2>1 DEF PagesFit
<1>16. TasksFit'
  <2>1. task' = [g \in Requests |->
          IF g = h THEN None
          ELSE IF Doing(g, { "publish" }) THEN [task[g] EXCEPT !.late = TRUE] ELSE task[g]]
    BY DEF PublishAlert
  <2>2. task' = [g \in Requests |-> task'[g]]
    BY <2>1
  <2>3. ASSUME NEW g \in Requests, NEW u \in { task'[g] } \ { None }
        PROVE  TaskFits(u)'
    <3>1. PICK s : s = task[g]
      OBVIOUS
    <3>2. u # None /\ u = task'[g]
      BY <2>3
    <3>3. g # h
      BY <2>1, <3>2
    <3>4. CASE Doing(g, { "publish" })
      <4>1. s \in Publication
        BY <3>1, <3>4, TaskIs DEF Doing
      <4>2. u = [s EXCEPT !.late = TRUE]
        BY <2>1, <3>1, <3>2, <3>3, <3>4
      <4>3. u \in Publication /\ u.late
        BY <4>1, <4>2 DEF Publication
      <4>4. QED
        BY <4>3 DEF TaskFits, PublicationFits
    <3>5. CASE ~Doing(g, { "publish" })
      <4>1. u = s
        BY <2>1, <3>1, <3>2, <3>3, <3>5
      <4>2. TaskFits(u)
        BY <1>1, <3>1, <3>2, <4>1 DEF TasksFit
      <4>3. u.op # "publish"
        BY <3>1, <3>2, <3>5, <4>1 DEF Doing
      <4>4. u \notin Publication
        BY <4>3 DEF Publication
      <4>5. CASE u \in Marking /\ MarkingFits(u)
        BY <1>1, <1>9, <4>5, MarkingStays DEF TaskFits
      <4>6. CASE u \in Decision /\ DecisionFits(u)
        <5>1. DecisionFits(u)'
          BY <1>10, <4>6, DecisionStays
        <5>2. QED
          BY <4>6, <5>1 DEF TaskFits
      <4>7. CASE u \in Clearing
        BY <4>7 DEF TaskFits
      <4>8. CASE u \in Digest /\ DigestFits(u)
        <5>1. now <= now' /\ now' \in 0..MaxTime
          BY <1>12, <1>13 DEF Shifted, VerdictsFit
        <5>2. u.remind \subseteq Ids /\ u.escalate \subseteq Ids
          BY <4>8 DEF Digest
        <5>3. \A i \in Ids : log'[i] = log[i] /\ reminded'[i] = reminded[i] /\ escalated'[i] = escalated[i]
          BY <1>10
        <5>4. DigestFits(u)'
          BY <1>1, <4>8, <5>1, <5>2, <5>3, DigestStays
        <5>5. QED
          BY <4>8, <5>4 DEF TaskFits
      <4>9. QED
        BY <4>2, <4>4, <4>5, <4>6, <4>7, <4>8 DEF TaskFits
    <3>6. QED
      BY <3>4, <3>5
  <2>4. QED
    BY <2>2, <2>3 DEF TasksFit
<1>17. BadgeFits'
  BY <1>1, <1>10, BadgeOwed
<1>18. QED
  BY <1>9, <1>12, <1>14, <1>15, <1>16, <1>17 DEF AlertInv, Moved

-----------------------------------------------------------------------------
(* The steps that write on an alert: a verdict, a reminder, an escalation.  *)

LEMMA OutdatedTasks ==
  ASSUME AlertInv, NoNewAlerts, Shifted, NEW h \in Requests, NEW i \in Ids, NEW next, Outdates(h, i, next),
         \A j \in Ids \ { i } : log'[j] = log[j] /\ reminded'[j] = reminded[j] /\ escalated'[j] = escalated[j],
         next # None => TaskFits(next)'
  PROVE  TasksFit'
<1>1. NoticesFit /\ VerdictsFit /\ TasksFit /\ Moved
  BY DEF AlertInv, NoNewAlerts
<1>2. now <= now' /\ now' \in 0..MaxTime
  BY DEF Shifted, VerdictsFit
<1>3. task' = [g \in Requests |->
        IF g = h THEN next
        ELSE IF Doing(g, Verdicts \cup { "auto", "digest" }) THEN [task[g] EXCEPT !.old = @ \cup { i }] ELSE task[g]]
  BY DEF Outdates
<1>4. task' = [g \in Requests |-> task'[g]]
  BY <1>3
<1>5. ASSUME NEW g \in Requests, NEW u \in { task'[g] } \ { None }
      PROVE  TaskFits(u)'
  <2>1. PICK s : s = task[g]
    OBVIOUS
  <2>2. u # None /\ u = task'[g]
    BY <1>5
  <2>3. CASE g = h
    BY <1>3, <2>2, <2>3
  <2>4. CASE g # h /\ ~Doing(g, Verdicts \cup { "auto", "digest" })
    <3>1. u = s
      BY <1>3, <2>1, <2>2, <2>4
    <3>2. TaskFits(u)
      BY <1>1, <2>1, <2>2, <3>1 DEF TasksFit
    <3>3. u.op \notin Verdicts \cup { "auto", "digest" }
      BY <2>1, <2>2, <2>4, <3>1 DEF Doing
    <3>4. u \notin Decision /\ u \notin Digest
      BY <3>3 DEF Decision, Digest
    <3>5. CASE u \in Marking /\ MarkingFits(u)
      BY <1>1, <3>5, MarkingStays DEF TaskFits
    <3>6. CASE u \in Publication /\ PublicationFits(u)
      BY <1>1, <3>6, PublicationStays DEF TaskFits
    <3>7. CASE u \in Clearing
      BY <3>7 DEF TaskFits
    <3>8. QED
      BY <3>2, <3>4, <3>5, <3>6, <3>7 DEF TaskFits
  <2>5. CASE g # h /\ Doing(g, Verdicts \cup { "auto", "digest" })
    <3>1. s # None /\ s.op \in Verdicts \cup { "auto", "digest" } /\ u = [s EXCEPT !.old = s.old \cup { i }]
      BY <1>3, <2>1, <2>2, <2>5 DEF Doing
    <3>2. CASE s.op \in Verdicts \cup { "auto" }
      <4>1. s \in Decision /\ DecisionFits(s)
        BY <2>1, <3>1, <3>2, TaskIs
      <4>2. s.todo \subseteq Ids /\ s.old \subseteq Ids
        BY <4>1 DEF Decision
      <4>3. u \in Decision /\ u.op = s.op /\ u.todo = s.todo /\ u.old = s.old \cup { i }
        BY <3>1, <4>1, <4>2 DEF Decision
      <4>4. u.todo \ u.old \subseteq s.todo \ s.old /\ \A j \in u.todo \ u.old : log'[j] = log[j]
        BY <4>2, <4>3
      <4>5. DecisionFits(u)'
        BY <4>1, <4>3, <4>4, DecisionStays
      <4>6. QED
        BY <4>3, <4>5 DEF TaskFits
    <3>3. CASE s.op = "digest"
      <4>1. s \in Digest /\ DigestFits(s)
        BY <2>1, <3>1, <3>3, TaskIs
      <4>2. s.remind \subseteq Ids /\ s.escalate \subseteq Ids /\ s.old \subseteq Ids
        BY <4>1 DEF Digest
      <4>3. u \in Digest /\ u.remind = s.remind /\ u.escalate = s.escalate /\ u.old = s.old \cup { i }
        BY <3>1, <4>1, <4>2 DEF Digest
      <4>4. /\ u.remind \ u.old \subseteq s.remind \ s.old /\ u.escalate \ u.old \subseteq s.escalate \ s.old
            /\ (u.remind \cup u.escalate) \ u.old \subseteq Ids \ { i }
        BY <4>2, <4>3
      <4>5. DigestFits(u)'
        BY <1>1, <1>2, <4>1, <4>4, DigestStays
      <4>6. QED
        BY <4>3, <4>5 DEF TaskFits
    <3>4. QED
      BY <3>1, <3>2, <3>3
  <2>6. QED
    BY <2>3, <2>4, <2>5
<1>6. QED
  BY <1>4, <1>5 DEF TasksFit

LEMMA WritingStep ==
  ASSUME AlertInv, UNCHANGED <<notice, now, emitting, badge, skewed, page>>, Shifted, TasksFit'
  PROVE  AlertInv'
<1>1. NoticesFit /\ VerdictsFit /\ PagesFit /\ BadgeFits /\ NoTwins
  BY DEF AlertInv
<1>2. Moved /\ Unread' = Unread /\ NoNewAlerts
  BY <1>1, NothingMoves, NextIdFits DEF NoNewAlerts, Attention
<1>3. \A p : PageFits(p) => PageFits(p)'
  BY <1>1, <1>2, PageStays
<1>4. PagesFit'
  BY <1>1, <1>3 DEF PagesFit
<1>5. BadgeFits' /\ NoTwins'
  BY <1>1, <1>2, BadgeSame, NoTwinsStays
<1>6. QED
  BY <1>2, <1>4, <1>5 DEF AlertInv, Moved, Shifted

LEMMA VerdictShifts ==
  ASSUME AlertInv, UNCHANGED <<reminded, escalated, overlapped>>, NEW h \in Requests, NEW i \in Ids, WriteVerdict(h, i)
  PROVE  Shifted /\ log'[i] # log[i]
<1>1. VerdictsFit
  BY DEF AlertInv
<1>2. PICK t : t = task[h]
  OBVIOUS
<1>3. t \in Decision
  BY <1>2, TaskIs DEF WriteVerdict, Doing
<1>4. PICK v \in Verdicts : v = Verdict(t.op)
  BY <1>3 DEF Decision, Verdict, Verdicts
<1>5. log' = [log EXCEPT ![i] = Append(@, v)] /\ log \in [Ids -> Seq(Verdicts)]
  BY <1>1, <1>2, <1>4 DEF WriteVerdict, VerdictsFit
<1>6. log'[i] = Append(log[i], v) /\ \A j \in Ids : j # i => log'[j] = log[j]
  BY <1>5
<1>7. log[i] \in Seq(Verdicts)
  BY <1>5
<1>8. Append(log[i], v) \in Seq(Verdicts) /\ Len(Append(log[i], v)) = Len(log[i]) + 1 /\ Len(log[i]) \in Nat
      /\ Append(log[i], v)[Len(log[i]) + 1] = v
  BY <1>7, AppendProperties, LenProperties
<1>9. Append(log[i], v) # <<>> /\ Append(log[i], v) # log[i]
  BY <1>7, <1>8
<1>10. Status(i)' = v
  BY <1>6, <1>8, <1>9 DEF Status
<1>11. log' \in [Ids -> Seq(Verdicts)]
  BY <1>5, <1>8
<1>12. reopened' = IF Closed(i) /\ t.op = "acknowledged" THEN reopened \cup { i } ELSE reopened
  BY <1>2 DEF WriteVerdict
<1>13. now' = now /\ reminded' = reminded /\ escalated' = escalated /\ overlapped' = overlapped
  BY DEF WriteVerdict
<1>14. VerdictsFit'
  BY <1>1, <1>11, <1>12, <1>13 DEF VerdictsFit
<1>15. now <= now'
  BY <1>13, ClocksFit DEF AlertInv
<1>16. \A j \in Ids : j # i => Status(j)' = Status(j) /\ Closed(j)' = Closed(j)
  BY <1>6 DEF Status, Closed
<1>17. v # "open" /\ (v = "acknowledged" => t.op = "acknowledged")
  BY <1>3, <1>4 DEF Decision, Verdict, Verdicts
<1>18. Closed(i) => Closed(i)' \/ i \in reopened'
  BY <1>10, <1>12, <1>17 DEF Closed, Verdicts
<1>19. QED
  BY <1>6, <1>9, <1>10, <1>12, <1>13, <1>14, <1>15, <1>16, <1>17, <1>18 DEF Shifted

LEMMA WriteVerdictStep ==
  ASSUME AlertInv, NEW h \in Requests, NEW i \in Ids, WriteVerdict(h, i)
  PROVE  AlertInv'
<1>1. UNCHANGED <<notice, now, emitting, badge, skewed, page>> /\ UNCHANGED <<reminded, escalated, overlapped>>
  BY DEF WriteVerdict, followUpVars
<1>2. Shifted
  BY <1>1, VerdictShifts
<1>3. \A j \in Ids \ { i } : log'[j] = log[j] /\ reminded'[j] = reminded[j] /\ escalated'[j] = escalated[j]
  BY <1>1 DEF WriteVerdict, AlertInv, VerdictsFit
<1>4. PICK t : t = task[h]
  OBVIOUS
<1>5. t \in Decision /\ DecisionFits(t)
  BY <1>4, TaskIs DEF WriteVerdict, Doing
<1>6. PICK u : u = [t EXCEPT !.todo = t.todo \ { i }]
  OBVIOUS
<1>7. u \in Decision /\ u.op = t.op /\ u.todo = t.todo \ { i } /\ u.old = t.old /\ t.todo \subseteq Ids
  BY <1>5, <1>6 DEF Decision
<1>8. TaskFits(u)'
  <2>1. u.todo \ u.old \subseteq t.todo \ t.old /\ \A j \in u.todo \ u.old : log'[j] = log[j]
    BY <1>3, <1>7
  <2>2. DecisionFits(u)'
    BY <1>5, <1>7, <2>1, DecisionStays
  <2>3. QED
    BY <1>7, <2>2 DEF TaskFits
<1>9. PICK next : next = IF t.todo = { i } THEN None ELSE u
  OBVIOUS
<1>10. Outdates(h, i, next)
  BY <1>4, <1>6, <1>9 DEF WriteVerdict
<1>11. NoNewAlerts
  BY <1>1, NothingMoves, NextIdFits DEF AlertInv, NoNewAlerts, Attention
<1>12. TasksFit'
  BY <1>2, <1>3, <1>8, <1>9, <1>10, <1>11, OutdatedTasks
<1>13. QED
  BY <1>1, <1>2, <1>12, WritingStep

\* A follow-up: no log changes.
LEMMA FollowUpStep ==
  ASSUME AlertInv, UNCHANGED <<notice, log, now, emitting, badge, skewed, page, overlapped, reopened>>,
         reminded' \in [Ids -> 0..MaxTime \cup { None }], escalated' \in [Ids -> 0..MaxTime \cup { None }],
         NEW h \in Requests, NEW i \in Ids, NEW t \in Digest, DigestFits(t), t = task[h],
         NEW u \in Digest, u.remind \subseteq t.remind, u.escalate \subseteq t.escalate, u.old = t.old,
         \A j \in Ids : (j # i \/ j \in u.remind) => reminded'[j] = reminded[j],
         \A j \in Ids : (j # i \/ j \in u.escalate) => escalated'[j] = escalated[j],
         NEW next \in { None, u }, Outdates(h, i, next)
  PROVE  AlertInv'
<1>1. VerdictsFit
  BY DEF AlertInv
<1>2. VerdictsFit'
  BY <1>1 DEF VerdictsFit
<1>3. now <= now' /\ now' \in 0..MaxTime
  BY <1>1, ClocksFit DEF AlertInv, VerdictsFit
<1>4. Shifted
  <2>1. \A j \in Ids : Status(j)' = Status(j) /\ Closed(j)' = Closed(j)
    BY DEF Status, Closed
  <2>2. QED
    BY <1>2, <1>3, <2>1 DEF Shifted
<1>5. TaskFits(u)'
  <2>1. t.remind \subseteq Ids /\ t.escalate \subseteq Ids
    BY DEF Digest
  <2>2. \A j \in u.remind \ u.old : reminded'[j] = reminded[j]
    BY <2>1
  <2>3. \A j \in u.escalate \ u.old : escalated'[j] = escalated[j]
    BY <2>1
  <2>4. DigestFits(u)'
    BY <1>1, <1>3, <2>1, <2>2, <2>3, DigestStays
  <2>5. QED
    BY <2>4 DEF TaskFits
<1>6. NoNewAlerts
  BY NothingMoves, NextIdFits DEF AlertInv, NoNewAlerts, Attention
<1>7. TasksFit'
  BY <1>4, <1>5, <1>6, OutdatedTasks
<1>8. QED
  BY <1>4, <1>7, WritingStep

LEMMA LogReminderStep ==
  ASSUME AlertInv, NEW h \in Requests, NEW i \in Ids, LogReminder(h, i)
  PROVE  AlertInv'
<1>1. PICK t : t = task[h]
  OBVIOUS
<1>2. t \in Digest /\ DigestFits(t)
  BY <1>1, TaskIs DEF LogReminder, Doing
<1>3. PICK u : u = [t EXCEPT !.remind = t.remind \ { i }]
  OBVIOUS
<1>4. u \in Digest /\ u.remind = t.remind \ { i } /\ u.escalate = t.escalate /\ u.old = t.old
  BY <1>2, <1>3 DEF Digest
<1>5. PICK next \in { None, u } : next = IF t.remind = { i } /\ t.escalate = {} THEN None ELSE u
  OBVIOUS
<1>6. Outdates(h, i, next)
  BY <1>1, <1>3, <1>5 DEF LogReminder
<1>7. reminded' = [reminded EXCEPT ![i] = now] /\ escalated' = escalated
      /\ UNCHANGED <<notice, log, now, emitting, badge, skewed, page, overlapped, reopened>>
  BY DEF LogReminder
<1>8. /\ now \in 0..MaxTime /\ reminded \in [Ids -> 0..MaxTime \cup { None }]
      /\ escalated \in [Ids -> 0..MaxTime \cup { None }]
  BY DEF AlertInv, VerdictsFit
<1>9. reminded' \in [Ids -> 0..MaxTime \cup { None }] /\ \A j \in Ids : j # i => reminded'[j] = reminded[j]
  BY <1>7, <1>8
<1>10. QED
  BY <1>1, <1>2, <1>4, <1>5, <1>6, <1>7, <1>8, <1>9, FollowUpStep

LEMMA LogEscalationStep ==
  ASSUME AlertInv, NEW h \in Requests, NEW i \in Ids, LogEscalation(h, i)
  PROVE  AlertInv'
<1>1. PICK t : t = task[h]
  OBVIOUS
<1>2. t \in Digest /\ DigestFits(t)
  BY <1>1, TaskIs DEF LogEscalation, Doing
<1>3. PICK u : u = [t EXCEPT !.escalate = t.escalate \ { i }]
  OBVIOUS
<1>4. u \in Digest /\ u.escalate = t.escalate \ { i } /\ u.remind = t.remind /\ u.old = t.old
  BY <1>2, <1>3 DEF Digest
<1>5. PICK next \in { None, u } : next = IF t.escalate = { i } THEN None ELSE u
  OBVIOUS
<1>6. Outdates(h, i, next)
  BY <1>1, <1>3, <1>5 DEF LogEscalation
<1>7. escalated' = [escalated EXCEPT ![i] = now] /\ reminded' = reminded
      /\ UNCHANGED <<notice, log, now, emitting, badge, skewed, page, overlapped, reopened>>
  BY DEF LogEscalation
<1>8. /\ now \in 0..MaxTime /\ reminded \in [Ids -> 0..MaxTime \cup { None }]
      /\ escalated \in [Ids -> 0..MaxTime \cup { None }]
  BY DEF AlertInv, VerdictsFit
<1>9. escalated' \in [Ids -> 0..MaxTime \cup { None }] /\ \A j \in Ids : j # i => escalated'[j] = escalated[j]
  BY <1>7, <1>8
<1>10. QED
  BY <1>1, <1>2, <1>4, <1>5, <1>6, <1>7, <1>8, <1>9, FollowUpStep

-----------------------------------------------------------------------------
(* The theorems.                                                            *)

LEMMA NothingYet ==
  ASSUME AlertInit
  PROVE  AlertInv
<1>1. /\ notice = [i \in Ids |-> None] /\ log = [i \in Ids |-> <<>>] /\ now = 0
      /\ task = [h \in Requests |-> None] /\ emitting = [h \in Requests |-> None]
      /\ badge = 0 /\ page = None /\ overlapped = {} /\ reopened = {}
      /\ reminded = [i \in Ids |-> None] /\ escalated = [i \in Ids |-> None]
  BY DEF AlertInit, InboxInit
<1>2. Existing = {} /\ Unread = {} /\ Attention = {}
  BY <1>1 DEF Existing, Unread, Attention
<1>3. NoticesFit /\ NoTwins /\ PagesFit
  BY <1>1, <1>2 DEF NoticesFit, NoTwins, PagesFit
<1>4. VerdictsFit
  BY <1>1, AlertAssumption DEF VerdictsFit
<1>5. TasksFit
  BY <1>1 DEF TasksFit
<1>6. BadgeFits
  <2>1. Cardinality(Unread) = 0
    BY <1>2, FS_EmptySet
  <2>2. QED
    BY <1>1, <2>1, InboxAssumption DEF BadgeFits, BadgeIsRight
<1>7. QED
  BY <1>3, <1>4, <1>5, <1>6 DEF AlertInv

LEMMA InboxKeeps ==
  ASSUME AlertInv, InboxNext, UNCHANGED <<followUpVars, overlapped, reopened>>
  PROVE  AlertInv'
<1>1. CASE \E h \in Requests :
             CountUnread(h) \/ EmitUnread(h) \/ RequestDies(h) \/ PostOther(h) \/ MarkAllRead(h) \/ BulkRead(h)
  <2>1. PICK h \in Requests :
          CountUnread(h) \/ EmitUnread(h) \/ RequestDies(h) \/ PostOther(h) \/ MarkAllRead(h) \/ BulkRead(h)
    BY <1>1
  <2>2. log' = log => FollowUpsStay
    BY DEF FollowUpsStay, followUpVars
  <2>3. CASE CountUnread(h)
    BY <2>2, <2>3, CountUnreadStep DEF CountUnread
  <2>4. CASE EmitUnread(h)
    BY <2>2, <2>4, EmitUnreadStep DEF EmitUnread
  <2>5. CASE RequestDies(h)
    BY <2>2, <2>5, RequestDiesStep DEF RequestDies
  <2>6. CASE PostOther(h)
    BY <2>2, <2>6, PostOtherStep DEF PostOther
  <2>7. CASE MarkAllRead(h)
    <3>1. PICK ids \in SUBSET Ids : ids = Unread
      BY NextIdIs DEF Unread
    <3>2. Reads(ids) /\ Owes(h) /\ UNCHANGED <<log, now, task, badge, skewed, pruning, page>>
      BY <2>7, <3>1 DEF MarkAllRead
    <3>3. QED
      BY <2>2, <3>2, MarkReadStep
  <2>8. CASE BulkRead(h)
    BY <2>2, <2>8, BulkReadStep DEF BulkRead
  <2>9. QED
    BY <2>1, <2>3, <2>4, <2>5, <2>6, <2>7, <2>8
<1>2. CASE \E h \in Requests, i \in Ids : MarkRead(h, i)
  <2>1. PICK h \in Requests, i \in Ids : MarkRead(h, i)
    BY <1>2
  <2>2. FollowUpsStay /\ Reads({ i }) /\ Owes(h) /\ UNCHANGED <<log, now, task, badge, skewed, pruning, page>>
    BY <2>1 DEF MarkRead, FollowUpsStay, followUpVars
  <2>3. { i } \in SUBSET Ids
    OBVIOUS
  <2>4. QED
    BY <2>2, <2>3, MarkReadStep
<1>3. CASE \E h \in Requests, ids \in SUBSET Ids : BeginBulkRead(h, ids)
  <2>1. PICK h \in Requests, ids \in SUBSET Ids : BeginBulkRead(h, ids)
    BY <1>3
  <2>2. FollowUpsStay
    BY <2>1 DEF BeginBulkRead, FollowUpsStay, followUpVars
  <2>3. QED
    BY <2>1, <2>2, BeginBulkReadStep
<1>4. CASE PruneOld \/ PruneFails \/ FetchPage
  <2>1. FollowUpsStay
    BY <1>4 DEF PruneOld, PruneFails, FetchPage, FollowUpsStay, followUpVars
  <2>2. QED
    BY <1>4, <2>1, PruneOldStep, PruneFailsStep, FetchPageStep
<1>5. CASE \E q \in Queries : OpenList(q)
  <2>1. PICK q \in Queries : OpenList(q)
    BY <1>5
  <2>2. FollowUpsStay
    BY <2>1 DEF OpenList, FollowUpsStay, followUpVars
  <2>3. QED
    BY <2>1, <2>2, OpenListStep
<1>6. QED
  BY <1>1, <1>2, <1>3, <1>4, <1>5 DEF InboxNext

LEMMA RequestsKeep ==
  ASSUME AlertInv, NEW h \in Requests,
         \/ \E level \in Levels : CheckAlert(h, level)
         \/ PublishAlert(h) \/ ReadRecovered(h) \/ SendReminder(h) \/ NobodyToEscalateTo(h)
         \/ \E i \in Ids : AcknowledgeInventoryAlert(h, i) \/ ResolveInventoryAlert(h, i)
         \/ \E ids \in SUBSET Ids : BulkAcknowledge(h, ids) \/ BulkDismiss(h, ids)
         \/ \E stock, threshold \in { None, 0, 1, 2 } : Compensate(h, Clears(stock, threshold))
         \/ \E at \in 0..MaxTime : ReadDigest(h, at)
         \/ \E i \in Ids : WriteVerdict(h, i) \/ LogReminder(h, i) \/ LogEscalation(h, i)
  PROVE  AlertInv'
<1>1. CASE \E level \in Levels : CheckAlert(h, level)
  <2>1. PICK level \in Levels : CheckAlert(h, level)
    BY <1>1
  <2>2. FollowUpsStay
    BY <2>1 DEF CheckAlert, FollowUpsStay, followUpVars
  <2>3. QED
    BY <2>1, <2>2, CheckAlertStep
<1>2. CASE PublishAlert(h)
  <2>1. UNCHANGED <<reminded, escalated, reopened>>
    BY <1>2 DEF PublishAlert, followUpVars
  <2>2. QED
    BY <1>2, <2>1, PublishAlertStep
<1>3. CASE ReadRecovered(h) \/ SendReminder(h) \/ NobodyToEscalateTo(h)
  <2>1. FollowUpsStay
    BY <1>3 DEF ReadRecovered, SendReminder, NobodyToEscalateTo, FollowUpsStay, followUpVars
  <2>2. QED
    BY <1>3, <2>1, ReadRecoveredStep, SendReminderStep, NobodyStep
<1>4. CASE \E i \in Ids : AcknowledgeInventoryAlert(h, i) \/ ResolveInventoryAlert(h, i)
  <2>1. PICK i \in Ids : ReadAlerts(h, "acknowledged", { i }) \/ ReadAlerts(h, "resolved", { i })
    BY <1>4 DEF AcknowledgeInventoryAlert, ResolveInventoryAlert
  <2>2. { i } \in SUBSET Ids /\ "acknowledged" \in Verdicts /\ "resolved" \in Verdicts
    BY DEF Verdicts
  <2>3. QED
    BY <2>1, <2>2, ReadAlertsStep
<1>5. CASE \E ids \in SUBSET Ids : BulkAcknowledge(h, ids) \/ BulkDismiss(h, ids)
  <2>1. PICK ids \in SUBSET Ids : ReadAlerts(h, "acknowledged", ids) \/ ReadAlerts(h, "dismissed", ids)
    BY <1>5 DEF BulkAcknowledge, BulkDismiss
  <2>2. "acknowledged" \in Verdicts /\ "dismissed" \in Verdicts
    BY DEF Verdicts
  <2>3. QED
    BY <2>1, <2>2, ReadAlertsStep
<1>6. CASE \E stock, threshold \in { None, 0, 1, 2 } : Compensate(h, Clears(stock, threshold))
  <2>1. PICK stock \in { None, 0, 1, 2 }, threshold \in { None, 0, 1, 2 } : Compensate(h, Clears(stock, threshold))
    BY <1>6
  <2>2. PICK clears \in SUBSET Levels : clears = Clears(stock, threshold)
    BY DEF Clears
  <2>3. FollowUpsStay /\ Compensate(h, clears)
    BY <2>1, <2>2 DEF Compensate, FollowUpsStay, followUpVars
  <2>4. QED
    BY <2>3, CompensateStep
<1>7. CASE \E at \in 0..MaxTime : ReadDigest(h, at)
  <2>1. PICK at \in 0..MaxTime : ReadDigest(h, at)
    BY <1>7
  <2>2. FollowUpsStay
    BY <2>1 DEF ReadDigest, FollowUpsStay, followUpVars
  <2>3. QED
    BY <2>1, <2>2, ReadDigestStep
<1>8. CASE \E i \in Ids : WriteVerdict(h, i) \/ LogReminder(h, i) \/ LogEscalation(h, i)
  BY <1>8, WriteVerdictStep, LogReminderStep, LogEscalationStep
<1>9. QED
  BY <1>1, <1>2, <1>3, <1>4, <1>5, <1>6, <1>7, <1>8

LEMMA AlertsKeep ==
  ASSUME AlertInv, [AlertNext]_alertVars
  PROVE  AlertInv'
<1>1. CASE InboxNext /\ UNCHANGED <<followUpVars, overlapped, reopened>>
  BY <1>1, InboxKeeps
<1>2. CASE Tick
  BY <1>2, TickStep
<1>3. CASE UNCHANGED alertVars
  <2>1. FollowUpsStay /\ UNCHANGED inboxVars
    BY <1>3 DEF alertVars, FollowUpsStay, inboxVars
  <2>2. QED
    BY <2>1, NothingStep
<1>4. QED
  BY <1>1, <1>2, <1>3, RequestsKeep DEF AlertNext

\* Whatever admins, the compensation of cancelled orders, the digest cycles and
\* the merchant do at the same time, the merchant has no two alerts of one
\* level within the cooldown, the badge shows the unread notices, and a client
\* that pages to the end misses none, for any number of requests, notices and
\* any cooldowns.
THEOREM InboxIsRight == AlertSpec => []InboxAgrees
<1>1. AlertInv => InboxAgrees
  <2>1. SUFFICES ASSUME AlertInv PROVE InboxAgrees
    OBVIOUS
  <2>2. AlertTypeOK
    <3>1. \A i \in Existing : notice[i] \in Notice
      BY <2>1, ClocksFit DEF AlertInv
    <3>2. QED
      BY <2>1, <3>1 DEF AlertInv, VerdictsFit, BadgeFits, AlertTypeOK
  <2>3. PagesMissNothing
    <3>1. SUFFICES ASSUME page # None, ~page.more, NEW i \in Matching(page.query), i <= page.upTo
                   PROVE  i \in page.seen \cup page.skipped
      BY DEF PagesMissNothing
    <3>2. PageFits(page)
      BY <2>1, <3>1 DEF AlertInv, PagesFit
    <3>3. QED
      BY <3>1, <3>2 DEF PageFits
  <2>4. QED
    BY <2>1, <2>2, <2>3 DEF InboxAgrees, AlertInv, BadgeFits
<1>2. AlertInit => AlertInv
  BY NothingYet
<1>3. AlertInv /\ [AlertNext]_alertVars => AlertInv'
  BY AlertsKeep
<1>4. QED
  BY <1>1, <1>2, <1>3, PTL DEF AlertSpec

\* The step of ClosingIsFinal and of FollowUpsAreDue.
ClosingStep ==
  \A i \in Ids : Closed(i) /\ log'[i] # log[i] =>
    \/ Status(i) = "resolved" /\ Status(i)' = "dismissed"
    \/ ByStale(i)
    \/ Oldest(i) = "acknowledged" /\ \E h \in Requests : Doing(h, { "auto" })

FollowUpStays ==
  \A i \in Ids : ~ByStale(i) =>
    /\ reminded'[i] # reminded[i] => ~Closed(i) /\ (reminded[i] # None => now - reminded[i] > RemindCooldown)
    /\ escalated'[i] # escalated[i] => ~Closed(i) /\ (escalated[i] # None => now - escalated[i] > EscalateCooldown)

LEMMA OnlyThese ==
  ASSUME AlertInv, [AlertNext]_alertVars
  PROVE  \/ UNCHANGED <<log, reminded, escalated>>
         \/ \E h \in Requests, i \in Ids : WriteVerdict(h, i) \/ LogReminder(h, i) \/ LogEscalation(h, i)
<1>1. CASE InboxNext /\ UNCHANGED <<followUpVars, overlapped, reopened>>
  <2>1. log' = log
    BY <1>1 DEF InboxNext, CountUnread, EmitUnread, RequestDies, PostOther, MarkAllRead, BulkRead, MarkRead,
                BeginBulkRead, PruneOld, PruneFails, FetchPage, OpenList
  <2>2. QED
    BY <1>1, <2>1 DEF followUpVars
<1>2. CASE Tick \/ UNCHANGED alertVars
  BY <1>2 DEF Tick, alertVars, inboxVars, followUpVars
<1>3. CASE \E h \in Requests :
       \/ \E level \in Levels : CheckAlert(h, level)
       \/ PublishAlert(h) \/ ReadRecovered(h) \/ SendReminder(h) \/ NobodyToEscalateTo(h)
       \/ \E i \in Ids : AcknowledgeInventoryAlert(h, i) \/ ResolveInventoryAlert(h, i)
       \/ \E ids \in SUBSET Ids : BulkAcknowledge(h, ids) \/ BulkDismiss(h, ids)
       \/ \E stock, threshold \in { None, 0, 1, 2 } : Compensate(h, Clears(stock, threshold))
       \/ \E at \in 0..MaxTime : ReadDigest(h, at)
  <2>1. \A h, level : CheckAlert(h, level) => UNCHANGED <<log, reminded, escalated>>
    BY DEF CheckAlert, followUpVars
  <2>2. \A h, at : ReadDigest(h, at) => UNCHANGED <<log, reminded, escalated>>
    BY DEF ReadDigest, followUpVars
  <2>3. \A h : PublishAlert(h) \/ ReadRecovered(h) => UNCHANGED <<log, reminded, escalated>>
    BY DEF PublishAlert, ReadRecovered, followUpVars
  <2>4. \A h : SendReminder(h) \/ NobodyToEscalateTo(h) => UNCHANGED <<log, reminded, escalated>>
    BY DEF SendReminder, NobodyToEscalateTo, followUpVars
  <2>5. \A h, op, ids : ReadAlerts(h, op, ids) => UNCHANGED <<log, reminded, escalated>>
    BY DEF ReadAlerts, followUpVars
  <2>6. \A h, clears : Compensate(h, clears) => UNCHANGED <<log, reminded, escalated>>
    BY DEF Compensate, followUpVars
  <2>7. QED
    BY <1>3, <2>1, <2>2, <2>3, <2>4, <2>5, <2>6
       DEF AcknowledgeInventoryAlert, ResolveInventoryAlert, BulkAcknowledge, BulkDismiss
<1>4. CASE \E h \in Requests, i \in Ids : WriteVerdict(h, i) \/ LogReminder(h, i) \/ LogEscalation(h, i)
  BY <1>4
<1>5. QED
  BY <1>1, <1>2, <1>3, <1>4 DEF AlertNext

\* What a request that finishes with alert i does next is something else.
LEMMA StaleIs ==
  ASSUME AlertInv, NEW h \in Requests, NEW i \in Ids, NEW next, Outdates(h, i, next), next # task[h],
         task[h] # None, task[h].op \in Verdicts \cup { "auto", "digest" }, ~ByStale(i)
  PROVE  i \notin task[h].old
<1>1. task'[h] = next
  BY DEF Outdates
<1>2. Doing(h, Verdicts \cup { "auto", "digest" })
  BY DEF Doing
<1>3. QED
  BY <1>1, <1>2 DEF ByStale

LEMMA VerdictIsDue ==
  ASSUME AlertInv, NEW h \in Requests, NEW i \in Ids, WriteVerdict(h, i), ~ByStale(i)
  PROVE  Due(task[h].op, i)
<1>1. PICK t : t = task[h]
  OBVIOUS
<1>2. t \in Decision /\ DecisionFits(t) /\ t # None /\ t.op \in Verdicts \cup { "auto" } /\ i \in t.todo
  BY <1>1, TaskIs DEF WriteVerdict, Doing
<1>3. PICK u : u = [t EXCEPT !.todo = t.todo \ { i }]
  OBVIOUS
<1>4. u.todo = t.todo \ { i }
  BY <1>2, <1>3 DEF Decision
<1>5. PICK next : next = IF t.todo = { i } THEN None ELSE u
  OBVIOUS
<1>6. Outdates(h, i, next) /\ next # t
  BY <1>1, <1>2, <1>3, <1>4, <1>5 DEF WriteVerdict
<1>7. i \notin t.old
  BY <1>1, <1>2, <1>6, StaleIs
<1>8. QED
  BY <1>1, <1>2, <1>7 DEF DecisionFits

LEMMA ClosingIsKept ==
  ASSUME AlertInv, [AlertNext]_alertVars
  PROVE  ClosingStep
<1>1. SUFFICES ASSUME NEW i \in Ids, Closed(i), log'[i] # log[i], ~ByStale(i)
               PROVE  \/ Status(i) = "resolved" /\ Status(i)' = "dismissed"
                      \/ Oldest(i) = "acknowledged" /\ \E h \in Requests : Doing(h, { "auto" })
  BY DEF ClosingStep
<1>2. PICK h \in Requests, j \in Ids : WriteVerdict(h, j) \/ LogReminder(h, j) \/ LogEscalation(h, j)
  BY <1>1, OnlyThese
<1>3. log \in [Ids -> Seq(Verdicts)]
  BY DEF AlertInv, VerdictsFit
<1>4. WriteVerdict(h, i)
  BY <1>1, <1>2, <1>3 DEF WriteVerdict, LogReminder, LogEscalation
<1>5. PICK t : t = task[h]
  OBVIOUS
<1>6. Due(t.op, i)
  BY <1>1, <1>4, <1>5, VerdictIsDue
<1>7. t # None /\ t.op \in Verdicts \cup { "auto" }
  BY <1>4, <1>5 DEF WriteVerdict, Doing
<1>8. CASE t.op = "acknowledged" \/ t.op = "resolved"
  BY <1>1, <1>6, <1>8 DEF Due
<1>9. CASE t.op = "dismissed"
  <2>1. Status(i) = "resolved"
    BY <1>1, <1>6, <1>9 DEF Due, Closed
  <2>2. PICK v : v = "dismissed"
    OBVIOUS
  <2>3. log'[i] = Append(log[i], v)
    BY <1>3, <1>4, <1>5, <1>9, <2>2 DEF WriteVerdict, Verdict
  <2>4. log[i] \in Seq(Verdicts) /\ v \in Verdicts
    BY <1>3, <2>2 DEF Verdicts
  <2>5. Len(Append(log[i], v)) = Len(log[i]) + 1 /\ Append(log[i], v)[Len(log[i]) + 1] = v
        /\ Append(log[i], v) # <<>>
    BY <2>4, AppendProperties, LenProperties
  <2>6. Status(i)' = v
    BY <2>3, <2>5 DEF Status
  <2>7. QED
    BY <2>1, <2>2, <2>6
<1>10. CASE t.op = "auto"
  <2>1. Oldest(i) \notin { "resolved", "dismissed" }
    BY <1>6, <1>10 DEF Due
  <2>2. log[i] # <<>>
    BY <1>1 DEF Closed, Status
  <2>3. log[i][1] \in Verdicts
    <3>1. log[i] \in Seq(Verdicts)
      BY <1>3
    <3>2. QED
      BY <2>2, <3>1, LenProperties, EmptySeq, ElementOfSeq
  <2>4. Oldest(i) = "acknowledged"
    BY <2>1, <2>2, <2>3 DEF Oldest, Verdicts
  <2>5. Doing(h, { "auto" })
    BY <1>5, <1>7, <1>10 DEF Doing
  <2>6. QED
    BY <2>4, <2>5
<1>11. QED
  BY <1>7, <1>8, <1>9, <1>10 DEF Verdicts

LEMMA FollowUpsKeep ==
  ASSUME AlertInv, [AlertNext]_alertVars
  PROVE  FollowUpStays
<1>1. SUFFICES ASSUME NEW i \in Ids, ~ByStale(i)
               PROVE  /\ reminded'[i] # reminded[i] =>
                           ~Closed(i) /\ (reminded[i] # None => now - reminded[i] > RemindCooldown)
                      /\ escalated'[i] # escalated[i] =>
                           ~Closed(i) /\ (escalated[i] # None => now - escalated[i] > EscalateCooldown)
  BY DEF FollowUpStays
<1>2. reminded \in [Ids -> 0..MaxTime \cup { None }] /\ escalated \in [Ids -> 0..MaxTime \cup { None }]
  BY DEF AlertInv, VerdictsFit
<1>3. ASSUME reminded'[i] # reminded[i]
      PROVE  ~Closed(i) /\ LongAgo(reminded[i], RemindCooldown)
  <2>1. PICK h \in Requests, j \in Ids : WriteVerdict(h, j) \/ LogReminder(h, j) \/ LogEscalation(h, j)
    BY <1>3, OnlyThese
  <2>2. LogReminder(h, i)
    BY <1>2, <1>3, <2>1 DEF WriteVerdict, LogReminder, LogEscalation, followUpVars
  <2>3. PICK t : t = task[h]
    OBVIOUS
  <2>4. t \in Digest /\ DigestFits(t) /\ t # None /\ t.op = "digest" /\ i \in t.remind
    BY <2>2, <2>3, TaskIs DEF LogReminder, Doing
  <2>5. PICK u : u = [t EXCEPT !.remind = t.remind \ { i }]
    OBVIOUS
  <2>6. u.remind = t.remind \ { i }
    BY <2>4, <2>5 DEF Digest
  <2>7. PICK next : next = IF t.remind = { i } /\ t.escalate = {} THEN None ELSE u
    OBVIOUS
  <2>8. Outdates(h, i, next) /\ next # t
    BY <2>2, <2>3, <2>4, <2>5, <2>6, <2>7 DEF LogReminder
  <2>9. i \notin t.old
    BY <1>1, <2>3, <2>4, <2>8, StaleIs
  <2>10. QED
    BY <2>4, <2>9 DEF DigestFits
<1>4. ASSUME escalated'[i] # escalated[i]
      PROVE  ~Closed(i) /\ LongAgo(escalated[i], EscalateCooldown)
  <2>1. PICK h \in Requests, j \in Ids : WriteVerdict(h, j) \/ LogReminder(h, j) \/ LogEscalation(h, j)
    BY <1>4, OnlyThese
  <2>2. LogEscalation(h, i)
    BY <1>2, <1>4, <2>1 DEF WriteVerdict, LogReminder, LogEscalation, followUpVars
  <2>3. PICK t : t = task[h]
    OBVIOUS
  <2>4. t \in Digest /\ DigestFits(t) /\ t # None /\ t.op = "digest" /\ i \in t.escalate
    BY <2>2, <2>3, TaskIs DEF LogEscalation, Doing
  <2>5. PICK u : u = [t EXCEPT !.escalate = t.escalate \ { i }]
    OBVIOUS
  <2>6. u.escalate = t.escalate \ { i }
    BY <2>4, <2>5 DEF Digest
  <2>7. PICK next : next = IF t.escalate = { i } THEN None ELSE u
    OBVIOUS
  <2>8. Outdates(h, i, next) /\ next # t
    BY <2>2, <2>3, <2>4, <2>5, <2>6, <2>7 DEF LogEscalation
  <2>9. i \notin t.old
    BY <1>1, <2>3, <2>4, <2>8, StaleIs
  <2>10. QED
    BY <2>4, <2>9 DEF DigestFits
<1>5. QED
  BY <1>3, <1>4 DEF LongAgo

\* What is closed stays closed and follow-ups keep their distance, except when
\* a request writes on what it read before somebody else's verdict or cycle.
THEOREM AlertsOnlyMoveOn == AlertSpec => AlertsMoveOn
<1>1. AlertInit => AlertInv
  BY NothingYet
<1>2. AlertInv /\ [AlertNext]_alertVars => AlertInv'
  BY AlertsKeep
<1>3. AlertInv /\ [AlertNext]_alertVars => [ClosingStep]_alertVars /\ [FollowUpStays]_alertVars
  BY ClosingIsKept, FollowUpsKeep
<1>4. AlertSpec => [][ClosingStep]_alertVars /\ [][FollowUpStays]_alertVars
  BY <1>1, <1>2, <1>3, PTL DEF AlertSpec
<1>5. QED
  BY <1>4 DEF AlertsMoveOn, ClosingIsFinal, FollowUpsAreDue, ClosingStep, FollowUpStays

-----------------------------------------------------------------------------
(* The stockroom.                                                          *)

\* What an order takes from lots: of its item, which it then counts, and
\* nothing or the whole quantity.
LotsFit(i, rs, ls, q) ==
  /\ ls \in [Lots -> Nat] /\ rs \cap Items \subseteq { i }
  /\ \A l \in Lots : ls[l] > 0 => lot[l] # None /\ lot[l].item = i /\ i \in rs
  /\ SumFunctionOnSet(ls, Lots) \in { 0, q }

WorkFits(w) ==
  /\ DOMAIN w.seen \subseteq Resources /\ (\A r \in DOMAIN w.seen : w.seen[r] \in StockRow)
  /\ w.overtaken \subseteq Resources
  /\ \/ /\ DOMAIN w = { "op", "item", "lot", "quantity", "batch", "expiry", "seen", "overtaken" }
        /\ w.op = "receive" /\ w.item \in Items /\ w.lot \in Lots /\ w.quantity \in Amounts
        /\ w.batch \in Batches /\ w.expiry \in Dates \cup { None } /\ DOMAIN w.seen = { w.item }
     \/ /\ DOMAIN w = { "op", "lot", "item", "delta", "seen", "overtaken" }
        /\ w.op = "adjustLot" /\ w.item \in Items /\ w.lot \in Lots /\ w.delta \in Int
        /\ lot[w.lot] # None /\ lot[w.lot].item = w.item /\ DOMAIN w.seen = { w.item }
     \/ /\ DOMAIN w = { "op", "item", "delta", "seen", "overtaken" }
        /\ w.op = "adjust" /\ w.item \in Items \cup Options /\ w.delta \in Int /\ DOMAIN w.seen = { w.item }
     \/ /\ DOMAIN w = { "op", "item", "tracked", "quantity", "threshold", "seen", "overtaken" }
        /\ w.op = "update" /\ w.item \in Resources /\ w.tracked \in { TRUE, FALSE, None }
        /\ w.quantity \in Counts \cup { None } /\ w.threshold \in Thresholds \cup { None } /\ DOMAIN w.seen = { w.item }
     \/ /\ DOMAIN w = { "op", "order", "item", "quantity", "lots", "seen", "overtaken" }
        /\ w.op = "reserve" /\ w.order \in Orders /\ w.item \in Items /\ w.quantity \in Amounts
        /\ LotsFit(w.item, DOMAIN w.seen, w.lots, w.quantity)

RowsFit ==
  /\ shelf \in [Resources -> StockRow] /\ lot \in [Lots -> LotRow \cup { None }]
  /\ held \in [Orders -> Taken \cup { None }] /\ DOMAIN hand = Hands
  /\ told \in [Resources -> 0..2] /\ books \in [Resources -> Int]
  /\ apart \subseteq Items /\ unheard \subseteq Resources

HandsFit == \A h \in Hands : hand[h] = Idle \/ WorkFits(hand[h])

OrdersFit ==
  /\ \A o \in Orders : held[o] # None => LotsFit(held[o].item, held[o].resources, held[o].lots, held[o].quantity)
  /\ \A h \in Hands : hand[h].op = "reserve" => held[hand[h].order] = None
  /\ \A g, h \in Hands : hand[g].op = "reserve" /\ hand[h].op = "reserve" /\ hand[g].order = hand[h].order => g = h

\* What a handler saw short, and nobody overtook, is short still, and was
\* announced as what he saw.
SeenFits(w) ==
  \A r \in DOMAIN w.seen \ w.overtaken : Level(w.seen[r]) > 0 =>
    /\ Level(shelf[r]) > 0
    /\ r \in Items \cup Options => r \in unheard \/ Level(w.seen[r]) <= told[r]
SeensFit == \A h \in Hands : hand[h] # Idle => SeenFits(hand[h])

LotsHold == \A l \in Lots : lot[l] # None => lot[l].remaining + GivenTo(l) <= lot[l].received

StockInv ==
  /\ RowsFit /\ HandsFit /\ OrdersFit /\ SeensFit
  /\ NothingFromNowhere /\ LotsCoverStock /\ LotsHold /\ FallsAreAnnounced

-----------------------------------------------------------------------------
LEMMA ResourceKinds ==
  /\ Items \subseteq Resources /\ Options \subseteq Resources /\ Combinations \subseteq Resources
  /\ \A r \in Options : r \notin Items
  /\ \A r \in Combinations : r \notin Items /\ r \notin Options
  /\ IsFiniteSet(Lots) /\ IsFiniteSet(Orders)
BY StockroomAssumption DEF Resources, Parts

LEMMA Numbers ==
  /\ None \notin Nat /\ None \notin LotRow /\ None \notin Taken
  /\ \A q \in Amounts : q \in Nat /\ q > 0
  /\ \A q \in Counts \cup Thresholds \cup Dates : q \in Nat
BY StockroomAssumption

LEMMA LevelRange == \A row \in StockRow : Level(row) \in 0..2
BY Numbers DEF Level, StockRow, Or0

\* More of a thing is never shorter.
LEMMA LevelOfMore ==
  ASSUME NEW row \in StockRow, NEW n \in Nat
  PROVE  LET more == [row EXCEPT !.quantity = Or0(@) + n]
         IN  more \in StockRow /\ Level(more) <= Level(row)
BY Numbers DEF Level, StockRow, Or0

LEMMA OvertakenFits ==
  ASSUME NEW w, NEW S, WorkFits(w), S \subseteq Resources
  PROVE  LET v == [w EXCEPT !.overtaken = @ \cup S]
         IN  /\ WorkFits(v) /\ v.op = w.op /\ v.seen = w.seen /\ v.overtaken = w.overtaken \cup S
             /\ w.op = "reserve" => v.order = w.order
<1> DEFINE v == [w EXCEPT !.overtaken = @ \cup S]
<1>1. "overtaken" \in DOMAIN w
  BY DEF WorkFits
<1>2. DOMAIN v = DOMAIN w /\ v.overtaken = w.overtaken \cup S /\ \A f \in DOMAIN w \ { "overtaken" } : v[f] = w[f]
  BY <1>1
<1> HIDE DEF v
<1>3. v.op = w.op /\ v.seen = w.seen /\ (w.op = "reserve" => v.order = w.order)
  BY <1>2 DEF WorkFits
<1>4. WorkFits(v)
  <2>1. v.overtaken \subseteq Resources
    BY <1>2 DEF WorkFits
  <2>2. CASE w.op = "receive"
    BY <1>2, <1>3, <2>1, <2>2 DEF WorkFits
  <2>3. CASE w.op = "adjustLot"
    BY <1>2, <1>3, <2>1, <2>3 DEF WorkFits
  <2>4. CASE w.op = "adjust"
    BY <1>2, <1>3, <2>1, <2>4 DEF WorkFits
  <2>5. CASE w.op = "update"
    BY <1>2, <1>3, <2>1, <2>5 DEF WorkFits
  <2>6. CASE w.op = "reserve"
    BY <1>2, <1>3, <2>1, <2>6 DEF WorkFits
  <2>7. QED
    BY <2>2, <2>3, <2>4, <2>5, <2>6 DEF WorkFits
<1>5. QED
  BY <1>2, <1>3, <1>4 DEF v

LEMMA NotIdle ==
  /\ Idle.op = "none"
  /\ \A w : WorkFits(w) => w # Idle /\ w.op \in { "receive", "adjustLot", "adjust", "update", "reserve" }
<1>1. Idle.op = "none"
  BY DEF Idle
<1>2. ASSUME NEW w, WorkFits(w) PROVE w.op \in { "receive", "adjustLot", "adjust", "update", "reserve" }
  BY <1>2 DEF WorkFits
<1>3. QED
  BY <1>1, <1>2

\* Lots stay, and stay lots of their item.
LotsStay == \A l \in Lots : lot[l] # None => lot'[l] # None /\ lot'[l].item = lot[l].item

LEMMA LotsFitStays ==
  ASSUME LotsStay
  PROVE  \A i, rs, ls, q : LotsFit(i, rs, ls, q) => LotsFit(i, rs, ls, q)'
BY DEF LotsFit, LotsStay

LEMMA WorkStays ==
  ASSUME LotsStay
  PROVE  \A w : WorkFits(w) => WorkFits(w)'
<1> SUFFICES ASSUME NEW w, WorkFits(w) PROVE WorkFits(w)'
  OBVIOUS
<1>1. CASE w.op = "reserve"
  <2>1. LotsFit(w.item, DOMAIN w.seen, w.lots, w.quantity)
    BY <1>1 DEF WorkFits
  <2>2. LotsFit(w.item, DOMAIN w.seen, w.lots, w.quantity)'
    BY <2>1, LotsFitStays
  <2>3. QED
    BY <1>1, <2>2 DEF WorkFits
<1>2. CASE w.op # "reserve"
  BY <1>2 DEF WorkFits, LotsStay
<1>3. QED
  BY <1>1, <1>2

\* What a handler overtakes, and how the others are left.
Recovered(D) == { r \in D : Level(shelf[r]) > 0 /\ Level(shelf'[r]) = 0 }
HandsAfter(h, D) ==
  hand' = [g \in Hands |-> IF g = h \/ hand[g] = Idle THEN Idle
                           ELSE [hand[g] EXCEPT !.overtaken = @ \cup (Recovered(D) \cap DOMAIN hand[g].seen)]]

LEMMA HandsAfterFit ==
  ASSUME HandsFit, LotsStay, NEW h, NEW D \in SUBSET Resources, HandsAfter(h, D)
  PROVE  /\ HandsFit' /\ DOMAIN hand' = Hands
         /\ \A g \in Hands : hand'[g] # Idle =>
              /\ g # h /\ hand[g] # Idle /\ WorkFits(hand[g]) /\ hand'[g].op = hand[g].op /\ hand'[g].seen = hand[g].seen
              /\ hand'[g].overtaken = hand[g].overtaken \cup (Recovered(D) \cap DOMAIN hand[g].seen)
              /\ hand[g].op = "reserve" => hand'[g].order = hand[g].order
<1>1. ASSUME NEW g \in Hands, hand'[g] # Idle
      PROVE  /\ g # h /\ hand[g] # Idle /\ WorkFits(hand[g]) /\ WorkFits(hand'[g])
             /\ hand'[g].op = hand[g].op /\ hand'[g].seen = hand[g].seen
             /\ hand'[g].overtaken = hand[g].overtaken \cup (Recovered(D) \cap DOMAIN hand[g].seen)
             /\ hand[g].op = "reserve" => hand'[g].order = hand[g].order
  <2>1. g # h /\ hand[g] # Idle
    BY <1>1 DEF HandsAfter
  <2>2. WorkFits(hand[g])
    BY <2>1 DEF HandsFit
  <2>3. PICK w : w = hand[g]
    OBVIOUS
  <2>4. PICK S : S = Recovered(D) \cap DOMAIN hand[g].seen
    OBVIOUS
  <2>5. S \subseteq Resources
    BY <2>4 DEF Recovered
  <2>6. hand'[g] = [w EXCEPT !.overtaken = @ \cup S]
    BY <2>1, <2>3, <2>4 DEF HandsAfter
  <2>7. QED
    BY <2>1, <2>2, <2>3, <2>4, <2>5, <2>6, OvertakenFits
<1>2. HandsFit'
  <2>1. ASSUME NEW g \in Hands, hand'[g] # Idle PROVE WorkFits(hand[g])'
    <3>1. PICK w : w = hand'[g]
      OBVIOUS
    <3>2. WorkFits(w)
      BY <1>1, <2>1, <3>1
    <3>3. WorkFits(w)'
      BY <3>2, WorkStays
    <3>4. QED
      BY <3>1, <3>3
  <2>2. QED
    BY <2>1 DEF HandsFit, Idle
<1>3. QED
  BY <1>1, <1>2 DEF HandsAfter


\* The announcements rise with the levels, and what is unheard stays so,
\* wherever a resource stays short.
ToldRises == \A r \in Items \cup Options :
  Level(shelf'[r]) > 0 => told'[r] >= told[r] /\ (r \in unheard => r \in unheard')

LEMMA SeensAfterWrite ==
  ASSUME RowsFit, HandsFit, SeensFit, LotsStay, ToldRises, NEW h, NEW D \in SUBSET Resources,
         HandsAfter(h, D), shelf' \in [Resources -> StockRow], told' \in [Resources -> 0..2],
         \A r \in Resources \ D : shelf'[r] = shelf[r]
  PROVE  SeensFit'
<1> SUFFICES ASSUME NEW g \in Hands, hand'[g] # Idle, NEW r \in DOMAIN hand'[g].seen \ hand'[g].overtaken,
                    Level(hand'[g].seen[r]) > 0
             PROVE  /\ Level(shelf'[r]) > 0
                    /\ r \in Items \cup Options => r \in unheard' \/ Level(hand'[g].seen[r]) <= told'[r]
  BY DEF SeensFit, SeenFits
<1>1. /\ hand[g] # Idle /\ WorkFits(hand[g]) /\ hand'[g].seen = hand[g].seen
      /\ hand'[g].overtaken = hand[g].overtaken \cup (Recovered(D) \cap DOMAIN hand[g].seen)
  BY HandsAfterFit
<1>2. r \in DOMAIN hand[g].seen \ hand[g].overtaken /\ r \notin Recovered(D) /\ r \in Resources
      /\ Level(hand[g].seen[r]) > 0
  BY <1>1 DEF WorkFits
<1>3. /\ Level(shelf[r]) > 0
      /\ r \in Items \cup Options => r \in unheard \/ Level(hand[g].seen[r]) <= told[r]
  BY <1>1, <1>2 DEF SeensFit, SeenFits
<1>4. Level(shelf'[r]) > 0
  <2>1. Level(shelf'[r]) \in 0..2
    BY <1>2, LevelRange
  <2>2. CASE r \in D
    BY <1>2, <1>3, <2>1, <2>2 DEF Recovered
  <2>3. CASE r \notin D
    BY <1>2, <1>3, <2>3
  <2>4. QED
    BY <2>2, <2>3
<1>5. ASSUME r \in Items \cup Options PROVE r \in unheard' \/ Level(hand[g].seen[r]) <= told'[r]
  <2>1. told'[r] >= told[r] /\ (r \in unheard => r \in unheard')
    BY <1>4, <1>5 DEF ToldRises
  <2>2. told[r] \in 0..2 /\ told'[r] \in 0..2 /\ Level(hand[g].seen[r]) \in 0..2
    BY <1>1, <1>2, LevelRange DEF RowsFit, WorkFits
  <2>3. QED
    BY <1>3, <1>5, <2>1, <2>2
<1>6. QED
  BY <1>1, <1>4, <1>5

\* What Write does.
LEMMA Written ==
  ASSUME NEW h, NEW rows, Write(h, rows), DOMAIN rows \subseteq Resources,
         \A r \in DOMAIN rows : rows[r] \in StockRow, shelf \in [Resources -> StockRow]
  PROVE  /\ shelf' \in [Resources -> StockRow] /\ HandsAfter(h, DOMAIN rows)
         /\ \A r \in DOMAIN rows : shelf'[r] = rows[r]
         /\ \A r \in Resources \ DOMAIN rows : shelf'[r] = shelf[r]
<1>1. /\ shelf' \in [Resources -> StockRow]
      /\ \A r \in DOMAIN rows : shelf'[r] = rows[r]
      /\ \A r \in Resources \ DOMAIN rows : shelf'[r] = shelf[r]
  BY DEF Write
<1>2. { r \in DOMAIN rows : Level(shelf[r]) > 0 /\ Level(rows[r]) = 0 } = Recovered(DOMAIN rows)
  BY <1>1 DEF Recovered
<1>3. HandsAfter(h, DOMAIN rows)
  BY <1>2 DEF Write, HandsAfter
<1>4. QED
  BY <1>1, <1>3

LEMMA TwoMax == \A m, n \in Int : Max({ m, n }) \in { m, n } /\ Max({ m, n }) >= m /\ Max({ m, n }) >= n
<1> SUFFICES ASSUME NEW m \in Int, NEW n \in Int
             PROVE  Max({ m, n }) \in { m, n } /\ Max({ m, n }) >= m /\ Max({ m, n }) >= n
  OBVIOUS
<1>1. \E x \in { m, n } : \A y \in { m, n } : x >= y
  OBVIOUS
<1>2. QED
  BY <1>1 DEF Max

LEMMA TwoMin == \A m, n \in Int : Min({ m, n }) \in { m, n } /\ Min({ m, n }) <= m /\ Min({ m, n }) <= n
<1> SUFFICES ASSUME NEW m \in Int, NEW n \in Int
             PROVE  Min({ m, n }) \in { m, n } /\ Min({ m, n }) <= m /\ Min({ m, n }) <= n
  OBVIOUS
<1>1. \E x \in { m, n } : \A y \in { m, n } : x <= y
  OBVIOUS
<1>2. QED
  BY <1>1 DEF Min

\* A handler that announces what it wrote leaves nothing short unannounced.
LEMMA AnnouncedAll ==
  ASSUME RowsFit, HandsFit, SeensFit, FallsAreAnnounced, NEW h \in Hands, hand[h] # Idle,
         NEW rows, DOMAIN rows \subseteq DOMAIN hand[h].seen,
         shelf' \in [Resources -> StockRow],
         \A r \in DOMAIN rows : rows[r] = shelf'[r],
         \A r \in (Items \cup Options) \ DOMAIN rows : shelf'[r] = shelf[r],
         Announce(h, rows)
  PROVE  /\ told' \in [Resources -> 0..2] /\ unheard' \subseteq Resources
         /\ ToldRises /\ FallsAreAnnounced'
<1>1. WorkFits(hand[h])
  BY DEF HandsFit
<1>2. DOMAIN rows \subseteq Resources /\ \A r \in DOMAIN rows : hand[h].seen[r] \in StockRow
  BY <1>1 DEF WorkFits
<1> DEFINE before(r) == Level(hand[h].seen[r])
           sent(r) == ShouldNotify(before(r), Level(shelf'[r]))
<1>3. \A r \in DOMAIN rows :
        before(r) \in 0..2 /\ Level(shelf'[r]) \in 0..2 /\ told[r] \in 0..2 /\ r \in Resources
  BY <1>2, LevelRange DEF RowsFit
<1>13. \A r \in DOMAIN rows :
         r \in unheard' <=> Level(shelf'[r]) > 0 /\ (r \in unheard \/ r \in hand[h].overtaken)
  BY <1>2 DEF Announce
<1>14. \A r \in DOMAIN rows : Level(shelf'[r]) = 0 => told'[r] = 0
  BY <1>2 DEF Announce
<1>15. \A r \in DOMAIN rows : Level(shelf'[r]) # 0 /\ ~sent(r) => told'[r] = told[r]
  BY <1>2 DEF Announce
<1>16. ASSUME NEW r \in DOMAIN rows, Level(shelf'[r]) # 0, sent(r)
       PROVE  told'[r] >= told[r] /\ told'[r] >= Level(shelf'[r]) /\ told'[r] \in 0..2
  <2>1. told'[r] = Max({ told[r], Level(shelf'[r]) })
    BY <1>2, <1>16 DEF Announce
  <2>2. told[r] \in Int /\ Level(shelf'[r]) \in Int
    <3> HIDE DEF before, sent
    <3>1. QED
      BY <1>3
  <2> HIDE DEF before, sent
  <2>3. QED
    BY <1>3, <2>1, <2>2, TwoMax
<1>11. \A r \in DOMAIN rows : sent(r) <=> before(r) < Level(shelf'[r]) /\ (before(r) = 0 \/ Level(shelf'[r]) = 2)
  BY <1>3 DEF ShouldNotify
<1>12. \A r \in DOMAIN hand[h].seen \ hand[h].overtaken : before(r) > 0 /\ r \in Items \cup Options =>
        r \in unheard \/ before(r) <= told[r]
  BY DEF SeensFit, SeenFits
<1> HIDE DEF sent, before
<1>4. ASSUME NEW r \in Resources, r \notin DOMAIN rows
      PROVE  told'[r] = told[r] /\ (r \in unheard' <=> r \in unheard)
  BY <1>4 DEF Announce
<1>5. ASSUME NEW r \in DOMAIN rows, Level(shelf'[r]) > 0
      PROVE  /\ told'[r] \in 0..2 /\ told'[r] >= told[r]
             /\ sent(r) => told'[r] >= Level(shelf'[r])
             /\ ~sent(r) => told'[r] = told[r]
  <2>1. CASE sent(r)
    BY <1>5, <1>16, <2>1
  <2>2. CASE ~sent(r)
    BY <1>3, <1>5, <1>15, <2>2
  <2>3. QED
    BY <2>1, <2>2
<1>6. told' \in [Resources -> 0..2]
  <2>1. DOMAIN told' = Resources /\ told' = [r \in Resources |-> told'[r]]
    BY DEF Announce
  <2>2. ASSUME NEW r \in Resources PROVE told'[r] \in 0..2
    <3>1. CASE r \in DOMAIN rows /\ Level(shelf'[r]) > 0
      BY <1>5, <3>1
    <3>2. CASE r \in DOMAIN rows /\ ~(Level(shelf'[r]) > 0)
      BY <1>3, <1>14, <3>2
    <3>3. CASE r \notin DOMAIN rows
      BY <1>4, <3>3 DEF RowsFit
    <3>4. QED
      BY <3>1, <3>2, <3>3
  <2>3. QED
    BY <2>1, <2>2
<1>7. unheard' \subseteq Resources
  BY <1>2 DEF Announce, RowsFit
<1>8. ToldRises
  <2> SUFFICES ASSUME NEW r \in Items \cup Options, Level(shelf'[r]) > 0
               PROVE  told'[r] >= told[r] /\ (r \in unheard => r \in unheard')
    BY DEF ToldRises
  <2>1. CASE r \in DOMAIN rows
    BY <1>13, <1>5, <2>1
  <2>2. CASE r \notin DOMAIN rows
    BY <1>4, <2>2, ResourceKinds DEF RowsFit
  <2>3. QED
    BY <2>1, <2>2
<1>9. FallsAreAnnounced'
  <2> SUFFICES ASSUME NEW r \in Items \cup Options, r \notin unheard'
               PROVE  Level(shelf'[r]) <= told'[r]
    BY DEF FallsAreAnnounced
  <2>1. r \in Resources /\ Level(shelf'[r]) \in 0..2 /\ told[r] \in 0..2 /\ told'[r] \in 0..2
    BY <1>6, ResourceKinds, LevelRange DEF RowsFit
  <2>2. CASE r \notin DOMAIN rows
    BY <1>4, <2>1, <2>2 DEF FallsAreAnnounced
  <2>3. CASE r \in DOMAIN rows /\ Level(shelf'[r]) = 0
    BY <2>1, <2>3
  <2>4. CASE r \in DOMAIN rows /\ Level(shelf'[r]) > 0
    <3>1. r \notin unheard /\ r \notin hand[h].overtaken
      BY <1>13, <2>4
    <3>2. CASE sent(r)
      BY <1>5, <2>4, <3>2
    <3>3. CASE ~sent(r)
      <4>1. told'[r] = told[r]
        BY <1>5, <2>4, <3>3
      <4>2. Level(shelf'[r]) <= before(r)
        BY <1>3, <1>11, <2>4, <3>3
      <4>3. before(r) <= told[r]
        <5>1. r \in DOMAIN hand[h].seen \ hand[h].overtaken /\ before(r) > 0
          BY <1>3, <2>1, <2>4, <3>1, <4>2
        <5>2. QED
          BY <1>12, <3>1, <5>1
      <4>4. before(r) \in 0..2
        BY <1>3, <2>4
      <4>5. QED
        BY <2>1, <4>1, <4>2, <4>3, <4>4
    <3>4. QED
      BY <3>2, <3>3
  <2>5. QED
    BY <2>1, <2>2, <2>3, <2>4
<1>10. QED
  BY <1>6, <1>7, <1>8, <1>9

\* A rise, or a count by hand, needs no announcement.
LEMMA QuietAll ==
  ASSUME RowsFit, FallsAreAnnounced, NEW rows, DOMAIN rows \subseteq Resources, NEW byHand \in BOOLEAN,
         shelf' \in [Resources -> StockRow],
         \A r \in DOMAIN rows : rows[r] = shelf'[r],
         \A r \in Resources \ DOMAIN rows : shelf'[r] = shelf[r],
         byHand \/ \A r \in DOMAIN rows : Level(shelf'[r]) <= Level(shelf[r]),
         Quietly(rows, byHand)
  PROVE  /\ told' \in [Resources -> 0..2] /\ unheard' \subseteq Resources
         /\ ToldRises /\ FallsAreAnnounced'
<1>1. ASSUME NEW r \in Resources
      PROVE  /\ Level(shelf'[r]) \in 0..2 /\ Level(shelf[r]) \in 0..2 /\ told[r] \in 0..2 /\ told'[r] \in 0..2
             /\ told'[r] = IF r \in DOMAIN rows /\ Level(shelf'[r]) = 0 THEN 0 ELSE told[r]
             /\ r \in unheard' <=> IF r \in DOMAIN rows THEN Level(shelf'[r]) > 0 /\ (r \in unheard \/ byHand)
                                   ELSE r \in unheard
  <2>1. Level(shelf'[r]) \in 0..2 /\ Level(shelf[r]) \in 0..2 /\ told[r] \in 0..2
    BY LevelRange DEF RowsFit
  <2>2. told'[r] = IF r \in DOMAIN rows /\ Level(shelf'[r]) = 0 THEN 0 ELSE told[r]
    BY DEF Quietly
  <2>3. r \in unheard' <=> IF r \in DOMAIN rows THEN Level(shelf'[r]) > 0 /\ (r \in unheard \/ byHand)
                                   ELSE r \in unheard
    BY <2>1 DEF Quietly
  <2>4. QED
    BY <2>1, <2>2, <2>3
<1>2. told' \in [Resources -> 0..2]
  BY <1>1 DEF Quietly
<1>3. unheard' \subseteq Resources
  BY DEF Quietly, RowsFit
<1>4. ToldRises
  BY <1>1, ResourceKinds DEF ToldRises
<1>5. FallsAreAnnounced'
  <2> SUFFICES ASSUME NEW r \in Items \cup Options, r \notin unheard'
               PROVE  Level(shelf'[r]) <= told'[r]
    BY DEF FallsAreAnnounced
  <2>1. r \in Resources
    BY ResourceKinds
  <2>2. r \notin unheard => Level(shelf[r]) <= told[r]
    BY DEF FallsAreAnnounced
  <2>3. CASE r \in DOMAIN rows
    BY <1>1, <2>1, <2>2, <2>3
  <2>4. CASE r \notin DOMAIN rows
    BY <1>1, <2>1, <2>2, <2>4
  <2>5. QED
    BY <2>3, <2>4
<1>6. QED
  BY <1>2, <1>3, <1>4, <1>5


-----------------------------------------------------------------------------
(* A handler that begins.                                                  *)

\* A handler that has read, and written nothing yet.
JustRead(w) ==
  /\ WorkFits(w) /\ w.overtaken = {}
  /\ \A r \in DOMAIN w.seen : w.seen[r] = shelf[r]
  /\ w.op = "reserve" => /\ held[w.order] = None
                         /\ \A g \in Hands : hand[g].op = "reserve" => hand[g].order # w.order

\* Nothing but the hands depends on the hands.
LEMMA RowsAlone ==
  ASSUME StockInv, UNCHANGED <<shelf, lot, held, told, books, apart, unheard>>, DOMAIN hand' = Hands
  PROVE  /\ RowsFit' /\ LotsStay /\ NothingFromNowhere' /\ LotsCoverStock' /\ LotsHold' /\ FallsAreAnnounced'
         /\ \A o \in Orders : held'[o] # None => LotsFit(held[o].item, held[o].resources, held[o].lots, held[o].quantity)'
<1>1. RowsFit'
  BY DEF StockInv, RowsFit
<1>2. LotsStay
  BY DEF LotsStay
<1>3. NothingFromNowhere'
  BY DEF StockInv, NothingFromNowhere, InOrders, Holding
<1>4. LotsCoverStock'
  BY DEF StockInv, LotsCoverStock, Remaining, LotsOf
<1>5. LotsHold'
  BY DEF StockInv, LotsHold, GivenTo
<1>6. FallsAreAnnounced'
  BY DEF StockInv, FallsAreAnnounced
<1>7. \A o \in Orders : held'[o] # None => LotsFit(held[o].item, held[o].resources, held[o].lots, held[o].quantity)'
  BY DEF StockInv, OrdersFit, LotsFit
<1>8. QED
  BY <1>1, <1>2, <1>3, <1>4, <1>5, <1>6, <1>7

LEMMA Begins ==
  ASSUME StockInv, NEW h \in Hands, NEW w, JustRead(w), hand' = [hand EXCEPT ![h] = w],
         UNCHANGED <<shelf, lot, held, told, books, apart, unheard>>
  PROVE  StockInv'
<1>1. DOMAIN hand' = Hands /\ hand'[h] = w /\ \A g \in Hands \ { h } : hand'[g] = hand[g]
  BY DEF StockInv, RowsFit
<1>2. /\ RowsFit' /\ LotsStay /\ NothingFromNowhere' /\ LotsCoverStock' /\ LotsHold' /\ FallsAreAnnounced'
      /\ \A o \in Orders : held'[o] # None => LotsFit(held[o].item, held[o].resources, held[o].lots, held[o].quantity)'
  BY <1>1, RowsAlone
<1>3. HandsFit'
  <2>1. ASSUME NEW g \in Hands PROVE hand'[g] = Idle \/ WorkFits(hand[g])'
    <3>1. PICK v : v = hand'[g]
      OBVIOUS
    <3>2. v = Idle \/ WorkFits(v)
      BY <1>1, <3>1 DEF JustRead, StockInv, HandsFit
    <3>3. v = Idle \/ WorkFits(v)'
      BY <1>2, <3>2, WorkStays
    <3>4. QED
      BY <3>1, <3>3
  <2>2. QED
    BY <2>1 DEF HandsFit, Idle
<1>4. OrdersFit'
  <2>1. \A g \in Hands : hand'[g].op = "reserve" => held'[hand'[g].order] = None
    BY <1>1 DEF JustRead, StockInv, OrdersFit
  <2>2. \A f, g \in Hands : hand'[f].op = "reserve" /\ hand'[g].op = "reserve" /\ hand'[f].order = hand'[g].order => f = g
    BY <1>1 DEF JustRead, StockInv, OrdersFit
  <2>3. QED
    BY <1>2, <2>1, <2>2 DEF OrdersFit
<1>5. SeensFit'
  <2> SUFFICES ASSUME NEW g \in Hands, hand'[g] # Idle, NEW r \in DOMAIN hand'[g].seen \ hand'[g].overtaken,
                      Level(hand'[g].seen[r]) > 0
               PROVE  /\ Level(shelf[r]) > 0
                      /\ r \in Items \cup Options => r \in unheard \/ Level(hand'[g].seen[r]) <= told[r]
    BY DEF SeensFit, SeenFits
  <2>1. CASE g = h
    BY <1>1, <2>1 DEF JustRead, StockInv, FallsAreAnnounced
  <2>2. CASE g # h
    BY <1>1, <2>2 DEF StockInv, SeensFit, SeenFits
  <2>3. QED
    BY <2>1, <2>2
<1>6. QED
  BY <1>2, <1>3, <1>4, <1>5 DEF StockInv

LEMMA GivesUp ==
  ASSUME StockInv, NEW h \in Hands, HandFails(h)
  PROVE  StockInv'
<1>1. DOMAIN hand' = Hands /\ hand'[h] = Idle /\ \A g \in Hands \ { h } : hand'[g] = hand[g]
  BY DEF StockInv, RowsFit, HandFails
<1>2. /\ RowsFit' /\ LotsStay /\ NothingFromNowhere' /\ LotsCoverStock' /\ LotsHold' /\ FallsAreAnnounced'
      /\ \A o \in Orders : held'[o] # None => LotsFit(held[o].item, held[o].resources, held[o].lots, held[o].quantity)'
  BY <1>1, RowsAlone DEF HandFails
<1>3. HandsFit'
  <2>1. ASSUME NEW g \in Hands PROVE hand'[g] = Idle \/ WorkFits(hand[g])'
    <3>1. PICK v : v = hand'[g]
      OBVIOUS
    <3>2. v = Idle \/ WorkFits(v)
      BY <1>1, <3>1 DEF StockInv, HandsFit
    <3>3. v = Idle \/ WorkFits(v)'
      BY <1>2, <3>2, WorkStays
    <3>4. QED
      BY <3>1, <3>3
  <2>2. QED
    BY <2>1 DEF HandsFit, Idle
<1>4. OrdersFit'
  <2>1. hand'[h].op # "reserve"
    BY <1>1, NotIdle
  <2>2. \A g \in Hands : hand'[g].op = "reserve" => held'[hand'[g].order] = None
    BY <1>1, <2>1 DEF StockInv, OrdersFit, HandFails
  <2>3. \A f, g \in Hands : hand'[f].op = "reserve" /\ hand'[g].op = "reserve" /\ hand'[f].order = hand'[g].order => f = g
    BY <1>1, <2>1 DEF StockInv, OrdersFit
  <2>4. QED
    BY <1>2, <2>2, <2>3 DEF OrdersFit
<1>5. SeensFit'
  BY <1>1 DEF HandFails, StockInv, SeensFit, SeenFits
<1>6. QED
  BY <1>2, <1>3, <1>4, <1>5 DEF StockInv


-----------------------------------------------------------------------------
(* What is taken from the lots.                                            *)

\* Taken in any order, lots that have enough give what is asked.
LEMMA AllocateGivesAll ==
  ASSUME RowsFit, NEW i \in Items, NEW turns \in TakingOrders(i), NEW n \in Nat, Remaining(i) >= n
  PROVE  /\ Allocate(turns, n) \in [Lots -> Nat] /\ SumFunctionOnSet(Allocate(turns, n), Lots) = n
         /\ \A l \in Lots : Allocate(turns, n)[l] > 0 => lot[l] # None /\ lot[l].item = i
<1> DEFINE open == { l \in LotsOf(i) : lot[l].remaining > 0 }
           N == Cardinality(open)
           give == Allocate(turns, n)
           had(k) == [l \in Lots |-> IF l \in open /\ turns[l] <= k THEN lot[l].remaining ELSE 0]
           got(k) == [l \in Lots |-> IF l \in open /\ turns[l] <= k THEN give[l] ELSE 0]
           P(k) == SumFunctionOnSet(had(k), Lots)
           A(k) == SumFunctionOnSet(got(k), Lots)
<1>1. open \subseteq Lots /\ \A l \in open : lot[l] # None /\ lot[l].item = i /\ lot[l].remaining \in Nat
  BY Numbers DEF LotsOf, RowsFit, LotRow
<1>2. N \in Nat
  BY <1>1, ResourceKinds, FS_Subset, FS_CardinalityType
<1>3. /\ DOMAIN turns = open /\ \A l \in open : turns[l] \in 1..N
      /\ \A k, l \in open : turns[k] = turns[l] => k = l
      /\ \A k \in 1..N : \E l \in open : turns[l] = k
  BY DEF TakingOrders, Bijection, Injection, Surjection, IsInjective
<1>4. \A l \in open : lot[l].remaining \in Nat /\ lot[l].remaining \in Int /\ turns[l] \in Nat
  BY <1>1, <1>2, <1>3
<1> HIDE DEF open, N
<1>5. ASSUME NEW k \in Nat
      PROVE  /\ \A l \in Lots : had(k)[l] \in Nat
             /\ P(k) \in Nat
  <2>1. \A l \in Lots : had(k)[l] \in Nat
    BY <1>4
  <2> HIDE DEF had
  <2>2. QED
    BY <2>1, ResourceKinds, SumNat
<1>6. ASSUME NEW l \in open
      PROVE  Ahead(turns, l) = P(turns[l] - 1)
  <2>1. \A k \in open : turns[k] < turns[l] <=> turns[k] <= turns[l] - 1
    BY <1>4, <1>6
  <2>2. [k \in Lots |-> IF k \in DOMAIN turns /\ turns[k] < turns[l] THEN lot[k].remaining ELSE 0] = had(turns[l] - 1)
    BY <1>3, <2>1
  <2>3. QED
    BY <2>2 DEF Ahead
<1>7. ASSUME NEW l \in open
      PROVE  /\ give[l] \in Nat
             /\ give[l] = IF n - P(turns[l] - 1) <= 0 THEN 0
                          ELSE IF n - P(turns[l] - 1) <= lot[l].remaining THEN n - P(turns[l] - 1)
                          ELSE lot[l].remaining
  <2>1. PICK p : p = n - P(turns[l] - 1)
    OBVIOUS
  <2>2. turns[l] - 1 \in Nat
    BY <1>2, <1>3
  <2>3. p \in Int
    BY <1>5, <2>1, <2>2
  <2>4. PICK x : x = lot[l].remaining
    OBVIOUS
  <2>5. x \in Nat
    BY <1>4, <2>4
  <2>6. give[l] = Max({ 0, Min({ x, p }) })
    BY <1>1, <1>3, <1>6, <2>1, <2>4 DEF Allocate
  <2>7. Min({ x, p }) = IF p <= x THEN p ELSE x
    <3>1. x \in Int /\ p \in Int
      BY <2>3, <2>5
    <3>2. Min({ x, p }) \in { x, p } /\ Min({ x, p }) <= x /\ Min({ x, p }) <= p
      BY <3>1, TwoMin
    <3>3. QED
      BY <3>1, <3>2
  <2>8. Min({ x, p }) \in Int
    BY <2>3, <2>5, <2>7
  <2>9. Max({ 0, Min({ x, p }) }) = IF Min({ x, p }) <= 0 THEN 0 ELSE Min({ x, p })
    <3>1. PICK m : m = Min({ x, p })
      OBVIOUS
    <3>2. m \in Int /\ 0 \in Int
      BY <2>8, <3>1
    <3>3. Max({ 0, m }) \in { 0, m } /\ Max({ 0, m }) >= 0 /\ Max({ 0, m }) >= m
      BY <3>2, TwoMax
    <3>4. Max({ 0, m }) = IF m <= 0 THEN 0 ELSE m
      BY <3>2, <3>3
    <3>5. QED
      BY <3>1, <3>4
  <2> HIDE DEF P, give
  <2>10. give[l] = IF p <= 0 THEN 0 ELSE IF p <= x THEN p ELSE x
    BY <2>3, <2>5, <2>6, <2>7, <2>9
  <2>11. QED
    BY <2>1, <2>3, <2>4, <2>5, <2>10
<1>8. \A l \in Lots \ open : give[l] = 0
  BY <1>3 DEF Allocate
<1>9. give \in [Lots -> Nat]
  <2>1. give = [l \in Lots |-> give[l]]
    BY DEF Allocate
  <2> HIDE DEF give, P
  <2>2. \A l \in Lots : give[l] \in Nat
    BY <1>7, <1>8
  <2>3. QED
    BY <2>1, <2>2
<1> HIDE DEF give
<1>10. ASSUME NEW k \in Nat
       PROVE  /\ \A l \in Lots : got(k)[l] \in Nat
              /\ A(k) \in Nat
  <2>1. \A l \in Lots : got(k)[l] \in Nat
    BY <1>9
  <2> HIDE DEF got
  <2>2. QED
    BY <2>1, ResourceKinds, SumNat
<1>11. P(0) = 0 /\ A(0) = 0
  <2>1. \A l \in open : ~(turns[l] <= 0)
    BY <1>2, <1>3
  <2>2. \A l \in Lots : had(0)[l] = 0 /\ got(0)[l] = 0
    BY <2>1
  <2> HIDE DEF had, got
  <2>3. QED
    BY <2>2, ResourceKinds, SumZero
<1>12. ASSUME NEW k \in Nat, k + 1 \in 1..N
       PROVE  \E l \in open : /\ turns[l] = k + 1
                              /\ P(k + 1) = P(k) + lot[l].remaining
                              /\ A(k + 1) = A(k) + give[l]
  <2>1. PICK l \in open : turns[l] = k + 1
    BY <1>3, <1>12
  <2>2. \A m \in Lots \ { l } : m \in open /\ turns[m] <= k + 1 <=> m \in open /\ turns[m] <= k
    BY <1>3, <1>4, <2>1
  <2>3. /\ \A m \in Lots \ { l } : had(k + 1)[m] = had(k)[m] /\ got(k + 1)[m] = got(k)[m]
        /\ had(k)[l] = 0 /\ got(k)[l] = 0
        /\ had(k + 1)[l] = lot[l].remaining /\ got(k + 1)[l] = give[l]
    BY <1>1, <1>4, <2>1, <2>2
  <2>4. /\ \A m \in Lots : had(k)[m] \in Int /\ had(k + 1)[m] \in Int /\ got(k)[m] \in Int /\ got(k + 1)[m] \in Int
        /\ P(k) \in Int /\ A(k) \in Int /\ lot[l].remaining \in Int /\ give[l] \in Int /\ l \in Lots
    <3> HIDE DEF had, got, P, A
    <3>1. k \in Nat /\ k + 1 \in Nat
      OBVIOUS
    <3>2. \A m \in Lots : had(k)[m] \in Int /\ had(k + 1)[m] \in Int
      BY <1>5, <3>1
    <3>3. P(k) \in Int
      BY <1>5, <3>1
    <3>4. \A m \in Lots : got(k)[m] \in Int /\ got(k + 1)[m] \in Int
      BY <1>10, <3>1
    <3>5. A(k) \in Int
      BY <1>10, <3>1
    <3>6. l \in Lots
      BY <1>1
    <3>7. lot[l].remaining \in Int
      BY <1>4
    <3>8. give[l] \in Int
      BY <1>9, <3>6
    <3>9. QED
      BY <3>2, <3>3, <3>4, <3>5, <3>6, <3>7, <3>8
  <2> HIDE DEF had, got
  <2>5. P(k + 1) = P(k) + had(k + 1)[l] - had(k)[l]
    BY <2>3, <2>4, ResourceKinds, SumChange
  <2>6. A(k + 1) = A(k) + got(k + 1)[l] - got(k)[l]
    BY <2>3, <2>4, ResourceKinds, SumChange
  <2> HIDE DEF P, A
  <2>7. P(k + 1) = P(k) + lot[l].remaining
    <3>1. had(k)[l] = 0 /\ had(k + 1)[l] = lot[l].remaining
      BY <2>3
    <3>2. P(k) \in Int /\ lot[l].remaining \in Int
      BY <2>4
    <3>3. P(k + 1) = P(k) + lot[l].remaining - 0
      BY <2>5, <3>1
    <3> HIDE DEF P
    <3>4. QED
      BY <3>2, <3>3
  <2>8. A(k + 1) = A(k) + give[l]
    <3>1. got(k)[l] = 0 /\ got(k + 1)[l] = give[l]
      BY <2>3
    <3>2. A(k) \in Int /\ give[l] \in Int
      BY <2>4
    <3>3. A(k + 1) = A(k) + give[l] - 0
      BY <2>6, <3>1
    <3> HIDE DEF A
    <3>4. QED
      BY <3>2, <3>3
  <2>9. QED
    BY <2>1, <2>7, <2>8
<1> DEFINE Right(k) == A(k) = IF P(k) <= n THEN P(k) ELSE n
           B == { 0..k : k \in { m \in 0..N : ~Right(m) } }
<1>13. \A k \in 0..N : Right(k)
  <2> SUFFICES ASSUME B # {} PROVE FALSE
    OBVIOUS
  <2>1. PICK T \in B : \A U \in B : U \subseteq T => U = T
    <3>1. IsFiniteSet(0..N)
      BY <1>2, FS_Interval
    <3> HIDE DEF Right
    <3>2. ASSUME NEW U \in B PROVE U \in SUBSET (0..N)
      <4>1. PICK k \in 0..N : U = 0..k
        BY <3>2
      <4>2. k \in Nat /\ k <= N
        BY <1>2
      <4>3. QED
        BY <1>2, <4>1, <4>2
    <3> HIDE DEF B
    <3>3. B \subseteq SUBSET (0..N)
      BY <3>2
    <3>4. PICK S : S = 0..N
      OBVIOUS
    <3>5. IsFiniteSet(S) /\ B \subseteq SUBSET S /\ B # {}
      BY <3>1, <3>3, <3>4
    <3>6. QED
      BY <3>5, MinimalSubset
  <2>2. PICK k \in 0..N : T = 0..k /\ ~Right(k)
    BY <2>1
  <2>3. \A m \in 0..N : m < k => Right(m)
    <3> SUFFICES ASSUME NEW m \in 0..N, m < k, ~Right(m) PROVE FALSE
      OBVIOUS
    <3> HIDE DEF Right
    <3>1. (0..m) \in B
      OBVIOUS
    <3> HIDE DEF B
    <3>6. k \in Nat /\ m \in Nat
      BY <1>2
    <3>2. (0..m) \subseteq 0..k /\ k \in Nat /\ m \in Nat
      BY <3>6
    <3>3. 0..m = 0..k
      BY <2>1, <2>2, <3>1, <3>2
    <3>4. k \in 0..k /\ k \notin 0..m
      BY <3>2
    <3>5. QED
      BY <3>3, <3>4
  <2>4. k # 0
    <3> HIDE DEF P, A
    <3>1. QED
      BY <1>11, <2>2
  <2>5. k - 1 \in Nat /\ k - 1 \in 0..N /\ (k - 1) + 1 \in 1..N /\ k - 1 < k /\ (k - 1) + 1 = k
    BY <1>2, <2>4
  <2>6. PICK l \in open : turns[l] = k /\ P(k) = P(k - 1) + lot[l].remaining /\ A(k) = A(k - 1) + give[l]
    <3> HIDE DEF P, A
    <3>1. QED
      BY <1>12, <2>5
  <2>7. Right(k - 1)
    <3> HIDE DEF Right
    <3>1. QED
      BY <2>3, <2>5
  <2> HIDE DEF P, A
  <2>8. P(k - 1) \in Nat /\ A(k - 1) \in Nat /\ lot[l].remaining \in Nat /\ give[l] \in Nat
    BY <1>4, <1>5, <1>7, <1>10, <2>5
  <2>9. give[l] = IF n - P(k - 1) <= 0 THEN 0
                  ELSE IF n - P(k - 1) <= lot[l].remaining THEN n - P(k - 1)
                  ELSE lot[l].remaining
    BY <1>7, <2>6
  <2>10. QED
    BY <2>2, <2>6, <2>7, <2>8, <2>9
<1>14. P(N) = Remaining(i) /\ A(N) = SumFunctionOnSet(give, Lots)
  <2>1. \A l \in open : turns[l] <= N
    BY <1>2, <1>3
  <2>2. \A l \in Lots \ open : l \in LotsOf(i) => lot[l].remaining = 0
    <3>1. \A l \in LotsOf(i) : lot[l].remaining \in Nat
      BY Numbers DEF LotsOf, RowsFit, LotRow
    <3>2. QED
      BY <3>1 DEF open
  <2>3. open \subseteq LotsOf(i)
    BY DEF open
  <2>4. had(N) = [l \in Lots |-> IF l \in LotsOf(i) THEN lot[l].remaining ELSE 0]
    BY <2>1, <2>2, <2>3
  <2>5. give = [l \in Lots |-> give[l]]
    BY <1>9
  <2>6. got(N) = give
    BY <1>8, <2>1, <2>5
  <2>7. QED
    BY <2>4, <2>6 DEF Remaining
<1>15. SumFunctionOnSet(give, Lots) = n
  <2>1. Right(N)
    <3> HIDE DEF Right
    <3>1. N \in 0..N
      BY <1>2
    <3>2. QED
      BY <1>13, <3>1
  <2> HIDE DEF P, A
  <2>2. P(N) \in Nat
    BY <1>2, <1>5
  <2>3. QED
    BY <1>14, <2>1, <2>2
<1>16. \A l \in Lots : give[l] > 0 => lot[l] # None /\ lot[l].item = i
  BY <1>1, <1>8
<1>17. QED
  BY <1>9, <1>15, <1>16 DEF give


-----------------------------------------------------------------------------
(* Each handler that begins has read what there is.                        *)

LEMMA SeenIs ==
  ASSUME RowsFit, NEW rs, rs \subseteq Resources
  PROVE  /\ DOMAIN Seen(rs) = rs
         /\ \A r \in rs : Seen(rs)[r] = shelf[r] /\ Seen(rs)[r] \in StockRow
BY DEF Seen, RowsFit

LEMMA BeginsReceive ==
  ASSUME StockInv, NEW h \in Hands, NEW i \in Items, NEW l \in Lots, NEW q \in Amounts, BeginReceive(h, i, l, q)
  PROVE  StockInv'
<1>1. PICK b \in Batches, e \in Dates \cup { None } :
        Read(h, [op |-> "receive", item |-> i, lot |-> l, quantity |-> q, batch |-> b, expiry |-> e,
                 seen |-> Seen({ i }), overtaken |-> {}])
  BY DEF BeginReceive
<1>2. PICK w : w = [op |-> "receive", item |-> i, lot |-> l, quantity |-> q, batch |-> b, expiry |-> e,
                    seen |-> Seen({ i }), overtaken |-> {}]
  OBVIOUS
<1>3. /\ DOMAIN Seen({ i }) = { i }
      /\ \A r \in { i } : Seen({ i })[r] = shelf[r] /\ Seen({ i })[r] \in StockRow
  BY ResourceKinds, SeenIs DEF StockInv
<1>4. /\ DOMAIN w = { "op", "item", "lot", "quantity", "batch", "expiry", "seen", "overtaken" }
      /\ w.op = "receive" /\ w.item = i /\ w.lot = l /\ w.quantity = q /\ w.batch = b /\ w.expiry = e
      /\ w.seen = Seen({ i }) /\ w.overtaken = {}
  BY <1>2
<1>5. JustRead(w)
  BY <1>3, <1>4, ResourceKinds DEF JustRead, WorkFits
<1>6. QED
  BY <1>1, <1>2, <1>5, Begins DEF Read

LEMMA BeginsAdjustLot ==
  ASSUME StockInv, NEW h \in Hands, NEW l \in Lots, NEW d \in Int, BeginAdjustLot(h, l, d)
  PROVE  StockInv'
<1>1. PICK i : i = lot[l].item
  OBVIOUS
<1>2. lot[l] # None /\ i \in Items
  BY <1>1 DEF BeginAdjustLot, StockInv, RowsFit, LotRow
<1>3. PICK w : w = [op |-> "adjustLot", lot |-> l, item |-> i, delta |-> d, seen |-> Seen({ i }), overtaken |-> {}]
  OBVIOUS
<1>4. /\ DOMAIN Seen({ i }) = { i }
      /\ \A r \in { i } : Seen({ i })[r] = shelf[r] /\ Seen({ i })[r] \in StockRow
  BY <1>2, ResourceKinds, SeenIs DEF StockInv
<1>5. /\ DOMAIN w = { "op", "lot", "item", "delta", "seen", "overtaken" }
      /\ w.op = "adjustLot" /\ w.item = i /\ w.lot = l /\ w.delta = d
      /\ w.seen = Seen({ i }) /\ w.overtaken = {}
  BY <1>3
<1>6. JustRead(w)
  BY <1>1, <1>2, <1>4, <1>5, ResourceKinds DEF JustRead, WorkFits
<1>7. QED
  BY <1>1, <1>3, <1>6, Begins DEF BeginAdjustLot, Read

LEMMA BeginsAdjust ==
  ASSUME StockInv, NEW h \in Hands, NEW r \in Resources, NEW d \in Int, BeginAdjust(h, r, d)
  PROVE  StockInv'
<1>1. r \in Items \cup Options
  BY DEF BeginAdjust
<1>2. PICK w : w = [op |-> "adjust", item |-> r, delta |-> d, seen |-> Seen({ r }), overtaken |-> {}]
  OBVIOUS
<1>3. /\ DOMAIN Seen({ r }) = { r }
      /\ \A x \in { r } : Seen({ r })[x] = shelf[x] /\ Seen({ r })[x] \in StockRow
  BY SeenIs DEF StockInv
<1>4. /\ DOMAIN w = { "op", "item", "delta", "seen", "overtaken" }
      /\ w.op = "adjust" /\ w.item = r /\ w.delta = d /\ w.seen = Seen({ r }) /\ w.overtaken = {}
  BY <1>2
<1>5. JustRead(w)
  BY <1>1, <1>3, <1>4 DEF JustRead, WorkFits
<1>6. QED
  BY <1>2, <1>5, Begins DEF BeginAdjust, Read

LEMMA BeginsUpdate ==
  ASSUME StockInv, NEW h \in Hands, NEW r \in Resources, BeginUpdate(h, r)
  PROVE  StockInv'
<1>1. PICK t \in { TRUE, FALSE, None }, n \in Counts \cup { None }, m \in Thresholds \cup { None } :
        Read(h, [op |-> "update", item |-> r, tracked |-> t, quantity |-> n, threshold |-> m,
                 seen |-> Seen({ r }), overtaken |-> {}])
  BY DEF BeginUpdate
<1>2. PICK w : w = [op |-> "update", item |-> r, tracked |-> t, quantity |-> n, threshold |-> m,
                    seen |-> Seen({ r }), overtaken |-> {}]
  OBVIOUS
<1>3. /\ DOMAIN Seen({ r }) = { r }
      /\ \A x \in { r } : Seen({ r })[x] = shelf[x] /\ Seen({ r })[x] \in StockRow
  BY SeenIs DEF StockInv
<1>4. /\ DOMAIN w = { "op", "item", "tracked", "quantity", "threshold", "seen", "overtaken" }
      /\ w.op = "update" /\ w.item = r /\ w.tracked \in { TRUE, FALSE, None } /\ w.quantity = n /\ w.threshold = m
      /\ w.seen = Seen({ r }) /\ w.overtaken = {}
  BY <1>2
<1>5. JustRead(w)
  BY <1>3, <1>4 DEF JustRead, WorkFits
<1>6. QED
  BY <1>1, <1>2, <1>5, Begins DEF Read

LEMMA BeginsReserve ==
  ASSUME StockInv, NEW h \in Hands, NEW o \in Orders, NEW i \in Items, NEW parts \in SUBSET Parts, NEW q \in Amounts,
         BeginReserve(h, o, i, parts, q)
  PROVE  StockInv'
<1>1. PICK rs : rs = { r \in { i } \cup parts : shelf[r].tracked }
  OBVIOUS
<1>2. rs \subseteq Resources /\ rs \cap Items \subseteq { i }
  BY <1>1, StockroomAssumption DEF Resources
<1>3. PICK turns \in TakingOrders(i) :
        /\ LotsOf(i) # {} /\ shelf[i].tracked => Remaining(i) >= q
        /\ Read(h, [op |-> "reserve", order |-> o, item |-> i, quantity |-> q,
                    lots |-> IF shelf[i].tracked /\ LotsOf(i) # {} THEN Allocate(turns, q) ELSE [l \in Lots |-> 0],
                    seen |-> Seen(rs), overtaken |-> {}])
  BY <1>1 DEF BeginReserve
<1>4. PICK ls : ls = IF shelf[i].tracked /\ LotsOf(i) # {} THEN Allocate(turns, q) ELSE [l \in Lots |-> 0]
  OBVIOUS
<1>5. LotsFit(i, rs, ls, q)
  <2>1. CASE shelf[i].tracked /\ LotsOf(i) # {}
    <3>1. q \in Nat /\ Remaining(i) >= q
      BY <1>3, <2>1, Numbers
    <3>2. /\ ls \in [Lots -> Nat] /\ SumFunctionOnSet(ls, Lots) = q
          /\ \A l \in Lots : ls[l] > 0 => lot[l] # None /\ lot[l].item = i
      BY <1>4, <2>1, <3>1, AllocateGivesAll DEF StockInv
    <3>3. i \in rs
      BY <1>1, <2>1
    <3>4. QED
      BY <1>2, <3>2, <3>3 DEF LotsFit
  <2>2. CASE ~(shelf[i].tracked /\ LotsOf(i) # {})
    <3>1. ls = [l \in Lots |-> 0]
      BY <1>4, <2>2
    <3>2. ls \in [Lots -> Nat] /\ \A l \in Lots : ls[l] = 0
      BY <3>1
    <3>3. SumFunctionOnSet(ls, Lots) = 0
      BY <3>2, ResourceKinds, SumZero
    <3>4. QED
      BY <1>2, <3>2, <3>3 DEF LotsFit
  <2>3. QED
    BY <2>1, <2>2
<1>6. PICK w : w = [op |-> "reserve", order |-> o, item |-> i, quantity |-> q, lots |-> ls,
                    seen |-> Seen(rs), overtaken |-> {}]
  OBVIOUS
<1>7. /\ DOMAIN Seen(rs) = rs
      /\ \A r \in rs : Seen(rs)[r] = shelf[r] /\ Seen(rs)[r] \in StockRow
  BY <1>2, SeenIs DEF StockInv
<1>8. /\ DOMAIN w = { "op", "order", "item", "quantity", "lots", "seen", "overtaken" }
      /\ w.op = "reserve" /\ w.order = o /\ w.item = i /\ w.quantity = q /\ w.lots = ls
      /\ w.seen = Seen(rs) /\ w.overtaken = {}
  BY <1>6
<1>9. JustRead(w)
  <2>1. WorkFits(w)
    BY <1>2, <1>5, <1>7, <1>8 DEF WorkFits
  <2>2. held[o] = None /\ \A g \in Hands : hand[g].op = "reserve" => hand[g].order # o
    BY DEF BeginReserve
  <2>3. QED
    BY <1>7, <1>8, <2>1, <2>2 DEF JustRead
<1>10. QED
  BY <1>3, <1>4, <1>6, <1>9, Begins DEF Read


-----------------------------------------------------------------------------
(* The sums, and what a write of rows leaves as it was.                    *)

Left(i, l) == IF l \in LotsOf(i) THEN lot[l].remaining ELSE 0
Part(r, o) == IF o \in Holding(r) THEN held[o].quantity ELSE 0
Share(l, o) == IF held[o] # None THEN held[o].lots[l] ELSE 0

SummandsFit ==
  /\ \A i : \A l \in Lots : Left(i, l) \in Nat
  /\ \A r : \A o \in Orders : Part(r, o) \in Nat
  /\ \A l \in Lots : \A o \in Orders : Share(l, o) \in Nat

SumsFit ==
  /\ \A i : Remaining(i) \in Nat /\ Remaining(i) = SumFunctionOnSet([l \in Lots |-> Left(i, l)], Lots)
  /\ \A r : InOrders(r) \in Nat /\ InOrders(r) = SumFunctionOnSet([o \in Orders |-> Part(r, o)], Orders)
  /\ \A l \in Lots : GivenTo(l) \in Nat /\ GivenTo(l) = SumFunctionOnSet([o \in Orders |-> Share(l, o)], Orders)

LEMMA SummandsAre ==
  ASSUME RowsFit
  PROVE  SummandsFit
<1>1. \A i : \A l \in Lots : Left(i, l) \in Nat
  BY Numbers DEF RowsFit, Left, LotsOf, LotRow
<1>2. \A o \in Orders : held[o] # None => held[o].quantity \in Nat /\ held[o].lots \in [Lots -> Nat]
  BY Numbers DEF RowsFit, Taken
<1>3. \A r : \A o \in Orders : Part(r, o) \in Nat
  BY <1>2 DEF Part, Holding
<1>4. \A l \in Lots : \A o \in Orders : Share(l, o) \in Nat
  BY <1>2 DEF Share
<1>5. QED
  BY <1>1, <1>3, <1>4 DEF SummandsFit

LEMMA SumsAre ==
  ASSUME RowsFit
  PROVE  SumsFit
<1>1. ASSUME NEW i PROVE Remaining(i) \in Nat /\ Remaining(i) = SumFunctionOnSet([l \in Lots |-> Left(i, l)], Lots)
  <2>1. PICK f : f = [l \in Lots |-> Left(i, l)]
    OBVIOUS
  <2>2. \A l \in Lots : f[l] \in Nat
    BY <2>1, SummandsAre DEF SummandsFit
  <2>3. SumFunctionOnSet(f, Lots) \in Nat
    BY <2>2, ResourceKinds, SumNat
  <2>4. Remaining(i) = SumFunctionOnSet(f, Lots)
    BY <2>1 DEF Remaining, Left
  <2>5. QED
    BY <2>1, <2>3, <2>4
<1>2. ASSUME NEW r PROVE InOrders(r) \in Nat /\ InOrders(r) = SumFunctionOnSet([o \in Orders |-> Part(r, o)], Orders)
  <2>1. PICK f : f = [o \in Orders |-> Part(r, o)]
    OBVIOUS
  <2>2. \A o \in Orders : f[o] \in Nat
    BY <2>1, SummandsAre DEF SummandsFit
  <2>3. SumFunctionOnSet(f, Orders) \in Nat
    BY <2>2, ResourceKinds, SumNat
  <2>4. InOrders(r) = SumFunctionOnSet(f, Orders)
    BY <2>1 DEF InOrders, Part
  <2>5. QED
    BY <2>1, <2>3, <2>4
<1>3. ASSUME NEW l \in Lots PROVE GivenTo(l) \in Nat /\ GivenTo(l) = SumFunctionOnSet([o \in Orders |-> Share(l, o)], Orders)
  <2>1. PICK f : f = [o \in Orders |-> Share(l, o)]
    OBVIOUS
  <2>2. \A o \in Orders : f[o] \in Nat
    BY <2>1, SummandsAre DEF SummandsFit
  <2>3. SumFunctionOnSet(f, Orders) \in Nat
    BY <2>2, ResourceKinds, SumNat
  <2>4. GivenTo(l) = SumFunctionOnSet(f, Orders)
    BY <2>1 DEF GivenTo, Share
  <2>5. QED
    BY <2>1, <2>3, <2>4
<1>4. QED
  BY <1>1, <1>2, <1>3 DEF SumsFit

\* Before a step and after it.
LEMMA SumsBeforeAndAfter ==
  (RowsFit => SummandsFit /\ SumsFit) /\ (RowsFit' => SummandsFit' /\ SumsFit')
<1>1. RowsFit => SummandsFit /\ SumsFit
  BY SummandsAre, SumsAre
<1>2. QED
  BY <1>1, PTL

\* One lot changes.
LEMMA RemainingMoves ==
  ASSUME RowsFit, RowsFit', NEW l \in Lots, \A k \in Lots \ { l } : lot'[k] = lot[k]
  PROVE  \A i : Remaining(i)' = Remaining(i) + Left(i, l)' - Left(i, l)
<1> SUFFICES ASSUME NEW i PROVE Remaining(i)' = Remaining(i) + Left(i, l)' - Left(i, l)
  OBVIOUS
<1>1. PICK f : f = [k \in Lots |-> Left(i, k)]
  OBVIOUS
<1>2. PICK g : g = [k \in Lots |-> Left(i, k)']
  OBVIOUS
<1>3. \A k \in Lots : f[k] \in Int /\ f[k] = Left(i, k)
  BY <1>1, SumsBeforeAndAfter DEF SummandsFit
<1>4. \A k \in Lots : g[k] \in Int /\ g[k] = Left(i, k)'
  BY <1>2, SumsBeforeAndAfter DEF SummandsFit
<1>5. \A k \in Lots \ { l } : g[k] = f[k]
  BY <1>3, <1>4 DEF Left, LotsOf
<1>6. SumFunctionOnSet(g, Lots) = SumFunctionOnSet(f, Lots) + g[l] - f[l]
  BY <1>3, <1>4, <1>5, ResourceKinds, SumChange
<1>7. Remaining(i) = SumFunctionOnSet(f, Lots)
  BY <1>1, SumsBeforeAndAfter DEF SumsFit
<1>8. Remaining(i)' = SumFunctionOnSet(g, Lots)
  BY <1>2, SumsBeforeAndAfter DEF SumsFit
<1>9. QED
  BY <1>3, <1>4, <1>6, <1>7, <1>8


LEMMA HandsAfterOrders ==
  ASSUME OrdersFit, HandsFit, LotsStay, NEW h, NEW D \in SUBSET Resources, HandsAfter(h, D)
  PROVE  /\ \A g \in Hands : hand'[g].op = "reserve" =>
              g # h /\ hand[g].op = "reserve" /\ hand'[g].order = hand[g].order /\ held[hand[g].order] = None
         /\ \A f, g \in Hands : hand'[f].op = "reserve" /\ hand'[g].op = "reserve" /\ hand'[f].order = hand'[g].order
              => f = g
<1>1. \A g \in Hands : hand'[g].op = "reserve" =>
        g # h /\ hand[g].op = "reserve" /\ hand'[g].order = hand[g].order /\ held[hand[g].order] = None
  <2> SUFFICES ASSUME NEW g \in Hands, hand'[g].op = "reserve"
               PROVE  g # h /\ hand[g].op = "reserve" /\ hand'[g].order = hand[g].order /\ held[hand[g].order] = None
    OBVIOUS
  <2>1. hand'[g] # Idle
    BY NotIdle
  <2>2. QED
    BY <2>1, HandsAfterFit DEF OrdersFit
<1>2. QED
  BY <1>1 DEF OrdersFit

\* What a write leaves to the others at work, while no order changes.
LEMMA WriteLeaves ==
  ASSUME StockInv, LotsStay, NEW h, NEW rows, Write(h, rows), DOMAIN rows \subseteq Resources,
         \A r \in DOMAIN rows : rows[r] \in StockRow,
         ToldRises, told' \in [Resources -> 0..2], UNCHANGED held
  PROVE  HandsFit' /\ DOMAIN hand' = Hands /\ OrdersFit' /\ SeensFit'
<1>1. /\ shelf' \in [Resources -> StockRow] /\ HandsAfter(h, DOMAIN rows)
      /\ \A r \in Resources \ DOMAIN rows : shelf'[r] = shelf[r]
  BY Written DEF StockInv, RowsFit
<1>2. PICK D \in SUBSET Resources : D = DOMAIN rows
  OBVIOUS
<1>3. HandsFit' /\ DOMAIN hand' = Hands
  BY <1>1, <1>2, HandsAfterFit DEF StockInv
<1>4. SeensFit'
  BY <1>1, <1>2, SeensAfterWrite DEF StockInv
<1>5. OrdersFit'
  <2>1. /\ \A g \in Hands : hand'[g].op = "reserve" =>
              g # h /\ hand[g].op = "reserve" /\ hand'[g].order = hand[g].order /\ held[hand[g].order] = None
        /\ \A f, g \in Hands : hand'[f].op = "reserve" /\ hand'[g].op = "reserve" /\ hand'[f].order = hand'[g].order
              => f = g
    BY <1>1, <1>2, HandsAfterOrders DEF StockInv
  <2>2. \A o \in Orders : held'[o] # None => LotsFit(held[o].item, held[o].resources, held[o].lots, held[o].quantity)'
    <3> SUFFICES ASSUME NEW o \in Orders, held'[o] # None
                 PROVE  LotsFit(held[o].item, held[o].resources, held[o].lots, held[o].quantity)'
      OBVIOUS
    <3>1. PICK i, rs, ls, q : i = held[o].item /\ rs = held[o].resources /\ ls = held[o].lots /\ q = held[o].quantity
      OBVIOUS
    <3>2. LotsFit(i, rs, ls, q)
      BY <3>1 DEF StockInv, OrdersFit
    <3>3. LotsFit(i, rs, ls, q)'
      BY <3>2, LotsFitStays
    <3>4. QED
      BY <3>1, <3>3
  <2>3. QED
    BY <2>1, <2>2 DEF OrdersFit
<1>6. QED
  BY <1>3, <1>4, <1>5

\* The orders' sums, while no order changes.
LEMMA OrdersSame ==
  ASSUME UNCHANGED held
  PROVE  (\A r : InOrders(r)' = InOrders(r)) /\ (\A l : GivenTo(l)' = GivenTo(l))
BY DEF InOrders, Holding, GivenTo

\* One resource is counted up or down, and its book with it.
LEMMA OneBook ==
  ASSUME RowsFit, NothingFromNowhere, UNCHANGED held, NEW x \in Resources, NEW d \in Int,
         \A r \in Resources \ { x } : shelf'[r] = shelf[r],
         Or0(shelf'[x].quantity) = Or0(shelf[x].quantity) + d,
         books' = [books EXCEPT ![x] = @ + d]
  PROVE  NothingFromNowhere' /\ books' \in [Resources -> Int]
<1>1. \A r : InOrders(r)' = InOrders(r)
  BY OrdersSame
<1>2. books' \in [Resources -> Int]
  BY DEF RowsFit
<1>3. ASSUME NEW r \in Resources PROVE Or0(shelf'[r].quantity) + InOrders(r) = books'[r]
  <2>1. Or0(shelf[r].quantity) + InOrders(r) = books[r]
    BY DEF NothingFromNowhere
  <2>2. Or0(shelf[r].quantity) \in Int /\ InOrders(r) \in Int /\ books[r] \in Int
    <3>1. InOrders(r) \in Nat
      BY SumsBeforeAndAfter DEF SumsFit
    <3>2. Or0(shelf[r].quantity) \in Int
      BY DEF RowsFit, StockRow, Or0
    <3>3. books[r] \in Int
      BY DEF RowsFit
    <3>4. QED
      BY <3>1, <3>2, <3>3
  <2>3. CASE r = x
    BY <2>1, <2>2, <2>3 DEF RowsFit
  <2>4. CASE r # x
    BY <2>1, <2>4 DEF RowsFit
  <2>5. QED
    BY <2>3, <2>4
<1>4. QED
  BY <1>1, <1>2, <1>3 DEF NothingFromNowhere

-----------------------------------------------------------------------------
(* Lots.                                                                   *)

LEMMA Receives ==
  ASSUME StockInv, NEW h \in Hands, ReceiveLot(h)
  PROVE  StockInv'
<1>1. WorkFits(hand[h]) /\ hand[h] # Idle
  BY NotIdle DEF StockInv, HandsFit, ReceiveLot
<1>2. PICK i, l, q, b, e : i = hand[h].item /\ l = hand[h].lot /\ q = hand[h].quantity /\ b = hand[h].batch /\ e = hand[h].expiry
  OBVIOUS
<1>3. i \in Items /\ i \in Resources /\ l \in Lots /\ q \in Nat /\ q \in Amounts /\ b \in Batches /\ e \in Dates \cup { None }
  BY <1>1, <1>2, Numbers, ResourceKinds DEF WorkFits, ReceiveLot
<1>4. lot[l] = None /\ lot' = [lot EXCEPT ![l] = [item |-> i, batch |-> b, expiry |-> e, remaining |-> q, received |-> q]]
  BY <1>2 DEF ReceiveLot
<1>5. PICK rows : rows = [r \in { i } |-> Plus(r, q)]
  OBVIOUS
<1>6. Write(h, rows) /\ Quietly(rows, FALSE)
  BY <1>2, <1>5 DEF ReceiveLot
<1>7. /\ books' = [books EXCEPT ![i] = @ + q] /\ UNCHANGED held
      /\ apart' = IF LotsOf(i) = {} /\ Or0(shelf[i].quantity) # 0 THEN apart \cup { i } ELSE apart
  BY <1>2 DEF ReceiveLot
<1>8. RowsFit
  BY DEF StockInv
<1>9. DOMAIN rows = { i } /\ rows[i] = [shelf[i] EXCEPT !.quantity = Or0(@) + q]
  BY <1>5 DEF Plus
<1>10. rows[i] \in StockRow /\ Level(rows[i]) <= Level(shelf[i]) /\ rows[i].quantity = Or0(shelf[i].quantity) + q
  <2>1. PICK row : row = shelf[i]
    OBVIOUS
  <2>2. row \in StockRow
    BY <1>3, <1>8, <2>1 DEF RowsFit
  <2>3. LET more == [row EXCEPT !.quantity = Or0(@) + q] IN more \in StockRow /\ Level(more) <= Level(row)
    BY <1>3, <2>2, LevelOfMore
  <2>4. QED
    BY <1>9, <2>1, <2>2, <2>3 DEF StockRow
<1>11. /\ shelf' \in [Resources -> StockRow]
       /\ shelf'[i] = rows[i] /\ \A r \in Resources \ { i } : shelf'[r] = shelf[r]
  BY <1>3, <1>6, <1>8, <1>9, <1>10, Written DEF RowsFit
<1>12. told' \in [Resources -> 0..2] /\ unheard' \subseteq Resources /\ ToldRises /\ FallsAreAnnounced'
  BY <1>3, <1>6, <1>8, <1>9, <1>10, <1>11, QuietAll DEF StockInv
<1>13. LotsStay
  BY <1>4 DEF LotsStay, StockInv, RowsFit
<1>14. HandsFit' /\ DOMAIN hand' = Hands /\ OrdersFit' /\ SeensFit'
  BY <1>3, <1>6, <1>7, <1>9, <1>10, <1>12, <1>13, WriteLeaves
<1>15. Or0(shelf[i].quantity) \in Nat /\ Or0(shelf'[i].quantity) = Or0(shelf[i].quantity) + q
  <2>1. Or0(shelf[i].quantity) \in Nat
    BY <1>3, <1>8 DEF RowsFit, StockRow, Or0
  <2>2. rows[i].quantity # None
    BY <1>3, <1>10, <2>1, Numbers
  <2>3. QED
    BY <1>10, <1>11, <2>1, <2>2 DEF Or0
<1>16. NothingFromNowhere' /\ books' \in [Resources -> Int]
  <2>1. NothingFromNowhere /\ q \in Int /\ UNCHANGED held /\ books' = [books EXCEPT ![i] = @ + q]
    BY <1>3, <1>7 DEF StockInv
  <2>2. QED
    BY <1>3, <1>8, <1>11, <1>15, <2>1, OneBook
<1>17. RowsFit'
  <2>1. [item |-> i, batch |-> b, expiry |-> e, remaining |-> q, received |-> q] \in LotRow
    BY <1>3 DEF LotRow
  <2>2. lot' \in [Lots -> LotRow \cup { None }]
    BY <1>4, <1>8, <2>1 DEF RowsFit
  <2>3. apart' \subseteq Items
    BY <1>3, <1>7, <1>8 DEF RowsFit
  <2>4. QED
    BY <1>7, <1>8, <1>11, <1>12, <1>14, <1>16, <2>2, <2>3 DEF RowsFit
<1>18. LotsHold'
  <2>1. GivenTo(l) = 0
    <3>1. PICK f : f = [o \in Orders |-> Share(l, o)]
      OBVIOUS
    <3>2. \A o \in Orders : f[o] = 0
      <4>1. \A o \in Orders : Share(l, o) \in Nat
        BY <1>3, <1>8, SumsBeforeAndAfter DEF SummandsFit
      <4>2. \A o \in Orders : held[o] # None => ~(held[o].lots[l] > 0)
        BY <1>3, <1>4 DEF StockInv, OrdersFit, LotsFit
      <4>3. QED
        BY <3>1, <4>1, <4>2 DEF Share
    <3>3. SumFunctionOnSet(f, Orders) = 0
      BY <3>2, ResourceKinds, SumZero
    <3>4. QED
      BY <1>3, <1>8, <3>1, <3>3, SumsBeforeAndAfter DEF SumsFit
  <2>2. ASSUME NEW k \in Lots, lot'[k] # None PROVE lot'[k].remaining + GivenTo(k) <= lot'[k].received
    <3>1. CASE k = l
      <4>1. lot'[k].remaining = q /\ lot'[k].received = q
        BY <1>3, <1>4, <1>8, <3>1 DEF RowsFit
      <4>2. QED
        BY <1>3, <2>1, <3>1, <4>1
    <3>2. CASE k # l
      BY <1>4, <2>2, <3>2 DEF StockInv, LotsHold, RowsFit
    <3>3. QED
      BY <3>1, <3>2
  <2>3. QED
    BY <1>7, <2>2, OrdersSame DEF LotsHold
<1>19. LotsCoverStock'
  <2> SUFFICES ASSUME NEW j \in Items \ apart', LotsOf(j)' # {} PROVE Or0(shelf'[j].quantity) = Remaining(j)'
    BY DEF LotsCoverStock
  <2>1. Remaining(j)' = Remaining(j) + Left(j, l)' - Left(j, l)
    BY <1>3, <1>4, <1>8, <1>17, RemainingMoves DEF RowsFit
  <2>2. Left(j, l) = 0 /\ Left(j, l)' = IF j = i THEN q ELSE 0
    <3>1. lot'[l] # None /\ lot'[l].item = i /\ lot'[l].remaining = q
      <4>1. lot'[l] = [item |-> i, batch |-> b, expiry |-> e, remaining |-> q, received |-> q]
        BY <1>3, <1>4, <1>8 DEF RowsFit
      <4>2. lot'[l] \in LotRow
        BY <1>3, <4>1 DEF LotRow
      <4>3. QED
        BY <4>1, <4>2, Numbers
    <3>2. QED
      BY <1>3, <1>4, <3>1 DEF Left, LotsOf
  <2>3. Remaining(j) \in Nat
    BY <1>8, SumsBeforeAndAfter DEF SumsFit
  <2>4. CASE j # i
    <3>1. LotsOf(j) # {}
      BY <1>3, <1>4, <1>8, <2>4 DEF LotsOf, RowsFit
    <3>2. j \notin apart /\ shelf'[j] = shelf[j]
      BY <1>7, <1>11, <2>4, ResourceKinds
    <3>3. Or0(shelf[j].quantity) = Remaining(j)
      BY <3>1, <3>2 DEF StockInv, LotsCoverStock
    <3>4. QED
      BY <2>1, <2>2, <2>3, <2>4, <3>2, <3>3
  <2>5. CASE j = i
    <3>1. Or0(shelf[j].quantity) = Remaining(j)
      <4>1. CASE LotsOf(i) = {}
        <5>1. Or0(shelf[i].quantity) = 0
          BY <1>7, <2>5, <4>1
        <5>2. PICK f : f = [k \in Lots |-> Left(i, k)]
          OBVIOUS
        <5>3. \A k \in Lots : f[k] = 0
          BY <4>1, <5>2 DEF Left
        <5>4. SumFunctionOnSet(f, Lots) = 0
          BY <5>3, ResourceKinds, SumZero
        <5>5. Remaining(i) = 0
          BY <1>8, <5>2, <5>4, SumsBeforeAndAfter DEF SumsFit
        <5>6. QED
          BY <2>5, <5>1, <5>5
      <4>2. CASE LotsOf(i) # {}
        BY <1>7, <2>5, <4>2 DEF StockInv, LotsCoverStock
      <4>3. QED
        BY <4>1, <4>2
    <3>2. QED
      BY <1>3, <1>15, <2>1, <2>2, <2>3, <2>5, <3>1
  <2>6. QED
    BY <2>4, <2>5
<1>20. QED
  BY <1>12, <1>14, <1>16, <1>17, <1>18, <1>19 DEF StockInv


LEMMA ChangedRow ==
  ASSUME RowsFit, NEW r \in Resources, NEW d \in Int, CanChange(r, d)
  PROVE  /\ Changed(r, d) \in StockRow
         /\ Or0(shelf[r].quantity) \in Nat /\ Or0(Changed(r, d).quantity) = Or0(shelf[r].quantity) + d
<1>1. PICK row : row = shelf[r]
  OBVIOUS
<1>2. row \in StockRow /\ row.quantity \in Nat /\ row.quantity + d \in Nat
  BY <1>1 DEF RowsFit, CanChange, StockRow
<1>3. Changed(r, d) = [row EXCEPT !.quantity = @ + d]
  BY <1>1 DEF Changed
<1>4. Changed(r, d) \in StockRow /\ Changed(r, d).quantity = row.quantity + d
  BY <1>2, <1>3 DEF StockRow
<1>5. Or0(row.quantity) = row.quantity /\ Or0(row.quantity + d) = row.quantity + d
  BY <1>2, Numbers DEF Or0
<1>6. QED
  BY <1>1, <1>2, <1>4, <1>5

\* A change of one resource, announced.
LEMMA ChangesOne ==
  ASSUME StockInv, NEW h \in Hands, NEW x \in Resources, NEW d \in Int, hand[h] # Idle, DOMAIN hand[h].seen = { x },
         CanChange(x, d), LotsStay, UNCHANGED held,
         NEW rows, rows = [r \in { x } |-> Changed(r, d)], Write(h, rows), Announce(h, rows),
         books' = [books EXCEPT ![x] = @ + d]
  PROVE  /\ shelf' \in [Resources -> StockRow] /\ told' \in [Resources -> 0..2] /\ unheard' \subseteq Resources
         /\ HandsFit' /\ DOMAIN hand' = Hands /\ OrdersFit' /\ SeensFit' /\ FallsAreAnnounced'
         /\ NothingFromNowhere' /\ books' \in [Resources -> Int]
         /\ Or0(shelf[x].quantity) \in Nat /\ Or0(shelf'[x].quantity) = Or0(shelf[x].quantity) + d
         /\ \A r \in Resources \ { x } : shelf'[r] = shelf[r]
<1>1. RowsFit
  BY DEF StockInv
<1>2. DOMAIN rows = { x } /\ rows[x] = Changed(x, d)
  OBVIOUS
<1>3. rows[x] \in StockRow /\ Or0(shelf[x].quantity) \in Nat /\ Or0(rows[x].quantity) = Or0(shelf[x].quantity) + d
  BY <1>1, <1>2, ChangedRow
<1>4. /\ shelf' \in [Resources -> StockRow]
      /\ shelf'[x] = rows[x] /\ \A r \in Resources \ { x } : shelf'[r] = shelf[r]
  BY <1>1, <1>2, <1>3, Written DEF RowsFit
<1>5. told' \in [Resources -> 0..2] /\ unheard' \subseteq Resources /\ ToldRises /\ FallsAreAnnounced'
  <2>1. /\ DOMAIN rows \subseteq DOMAIN hand[h].seen
        /\ \A r \in DOMAIN rows : rows[r] = shelf'[r]
        /\ \A r \in (Items \cup Options) \ DOMAIN rows : shelf'[r] = shelf[r]
    BY <1>2, <1>4, ResourceKinds
  <2>2. QED
    BY <1>4, <2>1, AnnouncedAll DEF StockInv
<1>6. HandsFit' /\ DOMAIN hand' = Hands /\ OrdersFit' /\ SeensFit'
  BY <1>2, <1>3, <1>5, WriteLeaves
<1>7. NothingFromNowhere' /\ books' \in [Resources -> Int]
  <2>1. NothingFromNowhere /\ Or0(shelf'[x].quantity) = Or0(shelf[x].quantity) + d
    BY <1>3, <1>4 DEF StockInv
  <2>2. QED
    BY <1>1, <1>4, <2>1, OneBook
<1>8. QED
  BY <1>3, <1>4, <1>5, <1>6, <1>7

LEMMA AdjustsLot ==
  ASSUME StockInv, NEW h \in Hands, AdjustLot(h)
  PROVE  StockInv'
<1>1. WorkFits(hand[h]) /\ hand[h] # Idle
  BY NotIdle DEF StockInv, HandsFit, AdjustLot
<1>2. PICK i, l, d : i = hand[h].item /\ l = hand[h].lot /\ d = hand[h].delta
  OBVIOUS
<1>3. /\ i \in Items /\ i \in Resources /\ l \in Lots /\ d \in Int
      /\ lot[l] # None /\ lot[l].item = i /\ DOMAIN hand[h].seen = { i }
  BY <1>1, <1>2, ResourceKinds DEF WorkFits, AdjustLot
<1>4. RowsFit
  BY DEF StockInv
<1>5. /\ lot[l] \in LotRow /\ lot[l].remaining \in Nat /\ lot[l].received \in Nat
      /\ lot[l].remaining + d >= 0 /\ lot' = [lot EXCEPT ![l] = LotChanged(l, d)]
  BY <1>2, <1>3, <1>4 DEF AdjustLot, RowsFit, LotRow
<1>6. /\ LotChanged(l, d) \in LotRow /\ LotChanged(l, d).item = i
      /\ LotChanged(l, d).remaining = lot[l].remaining + d
      /\ LotChanged(l, d).received = IF d > 0 THEN lot[l].received + d ELSE lot[l].received
  <2>1. PICK row : row = lot[l]
    OBVIOUS
  <2>2. LotChanged(l, d) = [row EXCEPT !.remaining = @ + d, !.received = IF d > 0 THEN @ + d ELSE @]
    BY <2>1 DEF LotChanged
  <2>3. row \in LotRow /\ row.item = i /\ row.remaining + d \in Nat /\ row.received \in Nat
    BY <1>3, <1>5, <2>1
  <2>4. PICK n, m : n = row.remaining + d /\ m = IF d > 0 THEN row.received + d ELSE row.received
    OBVIOUS
  <2>5. n \in Nat /\ m \in Nat
    BY <1>3, <2>3, <2>4
  <2>6. LotChanged(l, d) = [row EXCEPT !.remaining = n, !.received = m]
    BY <2>2, <2>4
  <2>7. LotChanged(l, d) \in LotRow /\ LotChanged(l, d).item = i /\ LotChanged(l, d).remaining = n
        /\ LotChanged(l, d).received = m
    BY <2>3, <2>5, <2>6 DEF LotRow
  <2>8. QED
    BY <2>1, <2>4, <2>7
<1>7. lot' \in [Lots -> LotRow \cup { None }] /\ lot'[l] = LotChanged(l, d) /\ lot'[l] # None
      /\ \A k \in Lots \ { l } : lot'[k] = lot[k]
  BY <1>3, <1>4, <1>5, <1>6, Numbers DEF RowsFit
<1>8. LotsStay
  BY <1>3, <1>6, <1>7, Numbers DEF LotsStay
<1>15. PICK rows : rows = [r \in { i } |-> Changed(r, d)]
  OBVIOUS
<1>9. /\ CanChange(i, d) /\ UNCHANGED <<held, apart>> /\ books' = [books EXCEPT ![i] = @ + d]
      /\ Write(h, rows) /\ Announce(h, rows)
  BY <1>2, <1>15 DEF AdjustLot
<1>10. /\ shelf' \in [Resources -> StockRow] /\ told' \in [Resources -> 0..2] /\ unheard' \subseteq Resources
       /\ HandsFit' /\ DOMAIN hand' = Hands /\ OrdersFit' /\ SeensFit' /\ FallsAreAnnounced'
       /\ NothingFromNowhere' /\ books' \in [Resources -> Int]
       /\ Or0(shelf[i].quantity) \in Nat /\ Or0(shelf'[i].quantity) = Or0(shelf[i].quantity) + d
       /\ \A r \in Resources \ { i } : shelf'[r] = shelf[r]
  <2>1. /\ i \in Resources /\ d \in Int /\ hand[h] # Idle /\ DOMAIN hand[h].seen = { i }
        /\ rows = [r \in { i } |-> Changed(r, d)] /\ UNCHANGED held
    BY <1>1, <1>3, <1>9, <1>15
  <2>2. CanChange(i, d) /\ Write(h, rows) /\ Announce(h, rows) /\ books' = [books EXCEPT ![i] = @ + d]
    BY <1>9
  <2>3. QED
    BY <1>8, <2>1, <2>2, ChangesOne
<1>11. RowsFit'
  BY <1>4, <1>7, <1>9, <1>10 DEF RowsFit
<1>12. LotsHold'
  <2>1. ASSUME NEW k \in Lots, lot'[k] # None PROVE lot'[k].remaining + GivenTo(k) <= lot'[k].received
    <3>1. GivenTo(k) \in Nat
      BY <1>4, SumsBeforeAndAfter DEF SumsFit
    <3>2. CASE k = l
      <4>1. lot[l].remaining + GivenTo(l) <= lot[l].received
        BY <1>3 DEF StockInv, LotsHold
      <4>2. QED
        BY <1>3, <1>5, <1>6, <1>7, <3>1, <3>2, <4>1
    <3>3. CASE k # l
      BY <1>7, <2>1, <3>3 DEF StockInv, LotsHold
    <3>4. QED
      BY <3>2, <3>3
  <2>2. QED
    BY <1>9, <2>1, OrdersSame DEF LotsHold
<1>13. LotsCoverStock'
  <2> SUFFICES ASSUME NEW j \in Items \ apart', LotsOf(j)' # {} PROVE Or0(shelf'[j].quantity) = Remaining(j)'
    BY DEF LotsCoverStock
  <2>1. Remaining(j)' = Remaining(j) + Left(j, l)' - Left(j, l)
    BY <1>3, <1>4, <1>7, <1>11, RemainingMoves
  <2>2. Left(j, l)' - Left(j, l) = IF j = i THEN d ELSE 0
    <3>1. Left(j, l) = IF j = i THEN lot[l].remaining ELSE 0
      BY <1>3 DEF Left, LotsOf
    <3>2. Left(j, l)' = IF j = i THEN lot[l].remaining + d ELSE 0
      BY <1>3, <1>6, <1>7 DEF Left, LotsOf
    <3>3. QED
      BY <1>3, <1>5, <3>1, <3>2
  <2>3. Remaining(j) \in Nat /\ Left(j, l) \in Nat /\ Left(j, l)' \in Nat
    BY <1>3, <1>4, <1>11, SumsBeforeAndAfter DEF SumsFit, SummandsFit
  <2>4. LotsOf(j) # {}
    <3>1. PICK k \in Lots : lot'[k] # None /\ lot'[k].item = j
      BY DEF LotsOf
    <3>2. lot[k] # None /\ lot[k].item = j
      BY <1>3, <1>6, <1>7, <3>1
    <3>3. QED
      BY <3>2 DEF LotsOf
  <2>5. Or0(shelf[j].quantity) = Remaining(j)
    BY <1>9, <2>4 DEF StockInv, LotsCoverStock
  <2>6. CASE j # i
    BY <1>10, <2>1, <2>2, <2>3, <2>5, <2>6, ResourceKinds
  <2>7. CASE j = i
    BY <1>3, <1>10, <2>1, <2>2, <2>3, <2>5, <2>7
  <2>8. QED
    BY <2>6, <2>7
<1>14. QED
  BY <1>10, <1>11, <1>12, <1>13 DEF StockInv

LEMMA UpdatesLot ==
  ASSUME StockInv, NEW l \in Lots, UpdateLot(l)
  PROVE  StockInv'
<1>1. RowsFit
  BY DEF StockInv
<1>2. PICK b \in Batches, e \in Dates \cup { None } : lot' = [lot EXCEPT ![l].batch = b, ![l].expiry = e]
  BY DEF UpdateLot
<1>3. lot[l] # None /\ lot[l] \in LotRow
  BY <1>1 DEF UpdateLot, RowsFit
<1>4. PICK row : row = [[lot[l] EXCEPT !.batch = b] EXCEPT !.expiry = e]
  OBVIOUS
<1>5. row \in LotRow /\ row.item = lot[l].item /\ row.remaining = lot[l].remaining /\ row.received = lot[l].received
  BY <1>3, <1>4 DEF LotRow
<1>6. lot' \in [Lots -> LotRow \cup { None }] /\ lot'[l] = row /\ \A k \in Lots \ { l } : lot'[k] = lot[k]
  BY <1>1, <1>2, <1>4, <1>5 DEF RowsFit
<1>7. UNCHANGED <<shelf, held, hand, told, books, apart, unheard>>
  BY DEF UpdateLot
<1>8. \A k \in Lots : /\ lot'[k] # None <=> lot[k] # None
                      /\ lot[k] # None => /\ lot'[k].item = lot[k].item /\ lot'[k].remaining = lot[k].remaining
                                          /\ lot'[k].received = lot[k].received
  BY <1>3, <1>5, <1>6, Numbers
<1>9. LotsStay
  BY <1>8 DEF LotsStay
<1>10. RowsFit'
  BY <1>1, <1>6, <1>7 DEF RowsFit
<1>11. HandsFit'
  <2>1. ASSUME NEW g \in Hands PROVE hand'[g] = Idle \/ WorkFits(hand[g])'
    <3>1. PICK v : v = hand'[g]
      OBVIOUS
    <3>2. v = Idle \/ WorkFits(v)
      BY <1>7, <3>1 DEF StockInv, HandsFit
    <3>3. v = Idle \/ WorkFits(v)'
      BY <1>9, <3>2, WorkStays
    <3>4. QED
      BY <3>1, <3>3
  <2>2. QED
    BY <2>1 DEF HandsFit, Idle
<1>12. OrdersFit'
  <2>1. ASSUME NEW o \in Orders, held'[o] # None
        PROVE  LotsFit(held[o].item, held[o].resources, held[o].lots, held[o].quantity)'
    <3>1. PICK i, rs, ls, q : i = held[o].item /\ rs = held[o].resources /\ ls = held[o].lots /\ q = held[o].quantity
      OBVIOUS
    <3>2. LotsFit(i, rs, ls, q)
      BY <1>7, <2>1, <3>1 DEF StockInv, OrdersFit
    <3>3. LotsFit(i, rs, ls, q)'
      BY <1>9, <3>2, LotsFitStays
    <3>4. QED
      BY <1>7, <3>1, <3>3
  <2>2. QED
    BY <1>7, <2>1 DEF StockInv, OrdersFit
<1>13. SeensFit' /\ FallsAreAnnounced'
  BY <1>7 DEF StockInv, SeensFit, SeenFits, FallsAreAnnounced
<1>14. NothingFromNowhere'
  BY <1>7 DEF StockInv, NothingFromNowhere, InOrders, Holding
<1>15. \A i : LotsOf(i)' = LotsOf(i) /\ Remaining(i)' = Remaining(i)
  <2>1. \A i : LotsOf(i)' = LotsOf(i)
    BY <1>8 DEF LotsOf
  <2>2. ASSUME NEW i PROVE Remaining(i)' = Remaining(i)
    <3>1. [k \in Lots |-> IF k \in LotsOf(i) THEN lot[k].remaining ELSE 0]'
          = [k \in Lots |-> IF k \in LotsOf(i) THEN lot[k].remaining ELSE 0]
      BY <1>8 DEF LotsOf
    <3>2. QED
      BY <3>1 DEF Remaining
  <2>3. QED
    BY <2>1, <2>2
<1>16. LotsCoverStock'
  BY <1>7, <1>15 DEF StockInv, LotsCoverStock
<1>17. LotsHold'
  BY <1>7, <1>8, OrdersSame DEF StockInv, LotsHold
<1>18. QED
  BY <1>10, <1>11, <1>12, <1>13, <1>14, <1>16, <1>17 DEF StockInv


-----------------------------------------------------------------------------
(* Counts.                                                                 *)

\* While no lot changes.
LEMMA LotsSame ==
  ASSUME UNCHANGED lot
  PROVE  LotsStay /\ \A i : LotsOf(i)' = LotsOf(i) /\ Remaining(i)' = Remaining(i)
BY DEF LotsStay, LotsOf, Remaining

LEMMA Adjusts ==
  ASSUME StockInv, NEW h \in Hands, Adjust(h)
  PROVE  StockInv'
<1>1. WorkFits(hand[h]) /\ hand[h] # Idle
  BY NotIdle DEF StockInv, HandsFit, Adjust
<1>2. PICK x, d : x = hand[h].item /\ d = hand[h].delta
  OBVIOUS
<1>3. x \in Items \cup Options /\ x \in Resources /\ d \in Int /\ DOMAIN hand[h].seen = { x }
  BY <1>1, <1>2, ResourceKinds DEF WorkFits, Adjust
<1>4. RowsFit
  BY DEF StockInv
<1>5. PICK rows : rows = [r \in { x } |-> Changed(r, d)]
  OBVIOUS
<1>6. /\ CanChange(x, d) /\ UNCHANGED held /\ UNCHANGED lot /\ books' = [books EXCEPT ![x] = @ + d]
      /\ Write(h, rows) /\ Announce(h, rows)
      /\ apart' = IF x \in Items /\ LotsOf(x) # {} THEN apart \cup { x } ELSE apart
  BY <1>2, <1>5 DEF Adjust
<1>7. LotsStay /\ \A i : LotsOf(i)' = LotsOf(i) /\ Remaining(i)' = Remaining(i)
  BY <1>6, LotsSame
<1>8. /\ shelf' \in [Resources -> StockRow] /\ told' \in [Resources -> 0..2] /\ unheard' \subseteq Resources
      /\ HandsFit' /\ DOMAIN hand' = Hands /\ OrdersFit' /\ SeensFit' /\ FallsAreAnnounced'
      /\ NothingFromNowhere' /\ books' \in [Resources -> Int]
      /\ \A r \in Resources \ { x } : shelf'[r] = shelf[r]
  <2>1. /\ x \in Resources /\ d \in Int /\ hand[h] # Idle /\ DOMAIN hand[h].seen = { x }
        /\ rows = [r \in { x } |-> Changed(r, d)] /\ UNCHANGED held
    BY <1>1, <1>3, <1>5, <1>6
  <2>2. CanChange(x, d) /\ Write(h, rows) /\ Announce(h, rows) /\ books' = [books EXCEPT ![x] = @ + d] /\ LotsStay
    BY <1>6, <1>7
  <2>3. QED
    BY <2>1, <2>2, ChangesOne
<1>9. RowsFit'
  BY <1>4, <1>6, <1>8 DEF RowsFit
<1>10. LotsHold'
  BY <1>6, OrdersSame DEF StockInv, LotsHold
<1>11. LotsCoverStock'
  <2> SUFFICES ASSUME NEW j \in Items \ apart', LotsOf(j) # {} PROVE Or0(shelf'[j].quantity) = Remaining(j)
    BY <1>7 DEF LotsCoverStock
  <2>1. j # x /\ j \notin apart
    BY <1>6
  <2>2. shelf'[j] = shelf[j]
    BY <1>8, <2>1, ResourceKinds
  <2>3. QED
    BY <2>1, <2>2 DEF StockInv, LotsCoverStock
<1>12. QED
  BY <1>8, <1>9, <1>10, <1>11 DEF StockInv

LEMMA Updates ==
  ASSUME StockInv, NEW h \in Hands, Update(h)
  PROVE  StockInv'
<1>1. WorkFits(hand[h]) /\ hand[h] # Idle
  BY NotIdle DEF StockInv, HandsFit, Update
<1>2. PICK x, row : x = hand[h].item /\ row = NormalizeUpdate(hand[h])
  OBVIOUS
<1>3. RowsFit
  BY DEF StockInv
<1>4. x \in Resources /\ DOMAIN hand[h].seen = { x }
  BY <1>1, <1>2 DEF WorkFits, Update
<1>5. row \in StockRow
  <2>1. /\ hand[h].seen[x] \in StockRow /\ shelf[x] \in StockRow
        /\ hand[h].quantity \in Nat \cup { None } /\ hand[h].threshold \in Thresholds \cup { None }
    BY <1>1, <1>2, <1>3, <1>4, Numbers DEF WorkFits, Update, RowsFit
  <2>2. CASE ~NextTracking(hand[h])
    BY <1>2, <2>2 DEF NormalizeUpdate, StockRow
  <2>3. CASE NextTracking(hand[h])
    <3>1. PICK n, m : /\ n = IF hand[h].quantity # None THEN hand[h].quantity
                             ELSE IF hand[h].seen[x].tracked THEN shelf[x].quantity ELSE 0
                      /\ m = IF hand[h].threshold # None THEN hand[h].threshold ELSE shelf[x].threshold
      OBVIOUS
    <3>2. n \in Nat \cup { None } /\ m \in Thresholds \cup { None }
      BY <2>1, <3>1 DEF StockRow
    <3>3. row = [tracked |-> TRUE, quantity |-> n, threshold |-> m]
      BY <1>2, <2>3, <3>1 DEF NormalizeUpdate
    <3>4. QED
      BY <3>2, <3>3 DEF StockRow
  <2>4. QED
    BY <2>2, <2>3
<1>6. PICK rows : rows = [r \in { x } |-> row]
  OBVIOUS
<1>7. /\ Write(h, rows) /\ Quietly(rows, TRUE) /\ UNCHANGED held /\ UNCHANGED lot
      /\ books' = [books EXCEPT ![x] = Or0(row.quantity) + InOrders(x)]
      /\ apart' = IF x \notin Items \/ LotsOf(x) = {} THEN apart
                  ELSE IF Or0(row.quantity) = Remaining(x) THEN apart \ { x } ELSE apart \cup { x }
  BY <1>2, <1>6 DEF Update
<1>8. DOMAIN rows = { x } /\ rows[x] = row
  BY <1>6
<1>9. LotsStay /\ \A i : LotsOf(i)' = LotsOf(i) /\ Remaining(i)' = Remaining(i)
  BY <1>7, LotsSame
<1>10. /\ shelf' \in [Resources -> StockRow]
       /\ shelf'[x] = row /\ \A r \in Resources \ { x } : shelf'[r] = shelf[r]
  BY <1>3, <1>4, <1>5, <1>7, <1>8, Written DEF RowsFit
<1>11. told' \in [Resources -> 0..2] /\ unheard' \subseteq Resources /\ ToldRises /\ FallsAreAnnounced'
  <2>1. /\ DOMAIN rows \subseteq Resources
        /\ \A r \in DOMAIN rows : rows[r] = shelf'[r]
        /\ \A r \in Resources \ DOMAIN rows : shelf'[r] = shelf[r]
    BY <1>4, <1>8, <1>10
  <2>2. PICK byHand \in BOOLEAN : byHand = TRUE
    OBVIOUS
  <2>3. Quietly(rows, byHand) /\ byHand
    BY <1>7, <2>2
  <2>4. QED
    BY <1>3, <1>10, <2>1, <2>3, QuietAll DEF StockInv
<1>12. HandsFit' /\ DOMAIN hand' = Hands /\ OrdersFit' /\ SeensFit'
  BY <1>4, <1>5, <1>7, <1>8, <1>9, <1>11, WriteLeaves
<1>13. NothingFromNowhere' /\ books' \in [Resources -> Int]
  <2>1. \A r : InOrders(r)' = InOrders(r)
    BY <1>7, OrdersSame
  <2>2. Or0(row.quantity) + InOrders(x) \in Int
    <3>1. InOrders(x) \in Nat
      BY <1>3, SumsBeforeAndAfter DEF SumsFit
    <3>2. Or0(row.quantity) \in Nat
      BY <1>5 DEF StockRow, Or0
    <3>3. QED
      BY <3>1, <3>2
  <2>3. books' \in [Resources -> Int]
    BY <1>3, <1>7, <2>2 DEF RowsFit
  <2>4. ASSUME NEW r \in Resources PROVE Or0(shelf'[r].quantity) + InOrders(r) = books'[r]
    <3>1. CASE r = x
      BY <1>3, <1>7, <1>10, <3>1 DEF RowsFit
    <3>2. CASE r # x
      BY <1>3, <1>7, <1>10, <3>2 DEF RowsFit, StockInv, NothingFromNowhere
    <3>3. QED
      BY <3>1, <3>2
  <2>5. QED
    BY <2>1, <2>3, <2>4 DEF NothingFromNowhere
<1>14. RowsFit'
  <2>1. apart' \subseteq Items
    BY <1>3, <1>7 DEF RowsFit
  <2>2. QED
    BY <1>3, <1>7, <1>10, <1>11, <1>12, <1>13, <2>1 DEF RowsFit
<1>15. LotsHold'
  BY <1>7, OrdersSame DEF StockInv, LotsHold
<1>16. LotsCoverStock'
  <2> SUFFICES ASSUME NEW j \in Items \ apart', LotsOf(j) # {} PROVE Or0(shelf'[j].quantity) = Remaining(j)
    BY <1>9 DEF LotsCoverStock
  <2>1. CASE j = x
    BY <1>7, <1>10, <2>1
  <2>2. CASE j # x
    <3>1. shelf'[j] = shelf[j] /\ j \notin apart
      BY <1>7, <1>10, <2>2, ResourceKinds
    <3>2. QED
      BY <3>1 DEF StockInv, LotsCoverStock
  <2>3. QED
    BY <2>1, <2>2
<1>17. QED
  BY <1>11, <1>12, <1>13, <1>14, <1>15, <1>16 DEF StockInv


-----------------------------------------------------------------------------
(* Orders.                                                                 *)

\* Units move between an order and the lots of its item.
LEMMA LotsMove ==
  ASSUME RowsFit, NEW ds \in [Lots -> Int], NEW i \in Items,
         \A l \in Lots : ds[l] # 0 => lot[l] # None /\ lot[l].item = i /\ lot[l].remaining + ds[l] >= 0,
         lot' = [l \in Lots |-> IF ds[l] # 0 THEN [lot[l] EXCEPT !.remaining = @ + ds[l]] ELSE lot[l]]
  PROVE  /\ lot' \in [Lots -> LotRow \cup { None }] /\ LotsStay
         /\ \A l \in Lots : /\ lot'[l] # None <=> lot[l] # None
                            /\ lot[l] # None => /\ lot'[l].item = lot[l].item /\ lot'[l].received = lot[l].received
                                                /\ lot'[l].remaining = lot[l].remaining + ds[l]
         /\ \A j : LotsOf(j)' = LotsOf(j)
<1>1. ASSUME NEW l \in Lots
      PROVE  /\ lot'[l] \in LotRow \cup { None } /\ (lot'[l] # None <=> lot[l] # None)
             /\ lot[l] # None => /\ lot'[l].item = lot[l].item /\ lot'[l].received = lot[l].received
                                 /\ lot'[l].remaining = lot[l].remaining + ds[l]
  <2>1. PICK row, d : row = lot[l] /\ d = ds[l]
    OBVIOUS
  <2>2. CASE d = 0
    <3>1. lot'[l] = row
      <4>1. ~(ds[l] # 0)
        BY <2>1, <2>2
      <4>2. lot'[l] = IF ds[l] # 0 THEN [lot[l] EXCEPT !.remaining = @ + ds[l]] ELSE lot[l]
        OBVIOUS
      <4>3. QED
        BY <2>1, <4>1, <4>2
    <3>2. row = None \/ (row \in LotRow /\ row.remaining \in Nat)
      BY <2>1 DEF RowsFit, LotRow
    <3>3. row # None => row.remaining = row.remaining + d
      BY <2>2, <3>2
    <3>4. QED
      BY <2>1, <3>1, <3>2, <3>3
  <2>3. CASE d # 0
    <3>1. row \in LotRow /\ row # None /\ row.remaining + d \in Nat
      BY <2>1, <2>3 DEF RowsFit, LotRow
    <3>2. PICK n : n = row.remaining + d
      OBVIOUS
    <3>3. lot'[l] = [row EXCEPT !.remaining = n]
      BY <2>1, <2>3, <3>2
    <3>4. /\ lot'[l] \in LotRow /\ lot'[l].item = row.item /\ lot'[l].received = row.received
          /\ lot'[l].remaining = n
      BY <3>1, <3>2, <3>3 DEF LotRow
    <3>5. QED
      BY <2>1, <3>1, <3>2, <3>4, Numbers
  <2>4. QED
    BY <2>2, <2>3
<1>2. lot' \in [Lots -> LotRow \cup { None }]
  BY <1>1
<1>3. LotsStay /\ \A j : LotsOf(j)' = LotsOf(j)
  BY <1>1 DEF LotsStay, LotsOf
<1>4. QED
  BY <1>1, <1>2, <1>3

LEMMA RemainingAfter ==
  ASSUME RowsFit, RowsFit', NEW ds \in [Lots -> Int], NEW i \in Items,
         \A l \in Lots : ds[l] # 0 => lot[l] # None /\ lot[l].item = i,
         \A l \in Lots : /\ lot'[l] # None <=> lot[l] # None
                         /\ lot[l] # None => /\ lot'[l].item = lot[l].item
                                             /\ lot'[l].remaining = lot[l].remaining + ds[l]
  PROVE  /\ SumFunctionOnSet(ds, Lots) \in Int
         /\ Remaining(i)' = Remaining(i) + SumFunctionOnSet(ds, Lots)
         /\ \A j : j # i => Remaining(j)' = Remaining(j)
<1>1. ASSUME NEW j
      PROVE  \E f, g : /\ Remaining(j) = SumFunctionOnSet(f, Lots) /\ Remaining(j)' = SumFunctionOnSet(g, Lots)
                       /\ \A l \in Lots : /\ f[l] \in Int /\ g[l] \in Int
                                          /\ g[l] = IF j = i THEN f[l] + ds[l] ELSE f[l]
  <2>1. PICK f, g : f = [l \in Lots |-> Left(j, l)] /\ g = [l \in Lots |-> Left(j, l)']
    OBVIOUS
  <2>2. Remaining(j) = SumFunctionOnSet(f, Lots) /\ Remaining(j)' = SumFunctionOnSet(g, Lots)
    BY <2>1, SumsBeforeAndAfter DEF SumsFit
  <2>3. \A l \in Lots : /\ f[l] \in Int /\ g[l] \in Int /\ f[l] = Left(j, l) /\ g[l] = Left(j, l)'
    BY <2>1, SumsBeforeAndAfter DEF SummandsFit
  <2>4. ASSUME NEW l \in Lots PROVE Left(j, l)' = IF j = i THEN Left(j, l) + ds[l] ELSE Left(j, l)
    <3>1. CASE lot[l] # None /\ lot[l].item = j
      <4>1. Left(j, l) = lot[l].remaining /\ Left(j, l)' = lot'[l].remaining /\ lot[l].remaining \in Int
        BY <2>3, <3>1 DEF Left, LotsOf
      <4>2. lot'[l].remaining = lot[l].remaining + ds[l] /\ (j # i => ds[l] = 0)
        BY <3>1
      <4>3. QED
        BY <4>1, <4>2
    <3>2. CASE ~(lot[l] # None /\ lot[l].item = j)
      <4>1. Left(j, l) = 0 /\ Left(j, l)' = 0
        BY <3>2 DEF Left, LotsOf
      <4>2. j = i => ds[l] = 0
        BY <3>2
      <4>3. QED
        BY <4>1, <4>2
    <3>3. QED
      BY <3>1, <3>2
  <2>5. QED
    BY <2>2, <2>3, <2>4
<1>2. SumFunctionOnSet(ds, Lots) \in Int
  BY ResourceKinds, SumInt
<1>3. Remaining(i)' = Remaining(i) + SumFunctionOnSet(ds, Lots)
  <2>1. PICK f, g : /\ Remaining(i) = SumFunctionOnSet(f, Lots) /\ Remaining(i)' = SumFunctionOnSet(g, Lots)
                    /\ \A l \in Lots : f[l] \in Int /\ g[l] \in Int /\ g[l] = f[l] + ds[l]
    BY <1>1
  <2>2. SumFunctionOnSet(g, Lots) = SumFunctionOnSet(f, Lots) + SumFunctionOnSet(ds, Lots)
    BY <2>1, ResourceKinds, SumPlus
  <2>3. QED
    BY <2>1, <2>2
<1>4. ASSUME NEW j, j # i PROVE Remaining(j)' = Remaining(j)
  <2>1. PICK f, g : /\ Remaining(j) = SumFunctionOnSet(f, Lots) /\ Remaining(j)' = SumFunctionOnSet(g, Lots)
                    /\ \A l \in Lots : f[l] \in Int /\ g[l] = f[l]
    BY <1>1, <1>4
  <2>2. SumFunctionOnSet(g, Lots) = SumFunctionOnSet(f, Lots)
    BY <2>1, ResourceKinds, SumAgree
  <2>3. QED
    BY <2>1, <2>2
<1>5. QED
  BY <1>2, <1>3, <1>4

\* One order changes.
LEMMA OrdersMove ==
  ASSUME RowsFit, RowsFit', NEW o \in Orders, \A p \in Orders \ { o } : held'[p] = held[p]
  PROVE  /\ \A r : InOrders(r)' = InOrders(r) + Part(r, o)' - Part(r, o)
         /\ \A l \in Lots : GivenTo(l)' = GivenTo(l) + Share(l, o)' - Share(l, o)
<1>1. ASSUME NEW r PROVE InOrders(r)' = InOrders(r) + Part(r, o)' - Part(r, o)
  <2>1. PICK f, g : f = [p \in Orders |-> Part(r, p)] /\ g = [p \in Orders |-> Part(r, p)']
    OBVIOUS
  <2>2. InOrders(r) = SumFunctionOnSet(f, Orders) /\ InOrders(r)' = SumFunctionOnSet(g, Orders)
    BY <2>1, SumsBeforeAndAfter DEF SumsFit
  <2>3. \A p \in Orders : f[p] \in Int /\ g[p] \in Int /\ f[p] = Part(r, p) /\ g[p] = Part(r, p)'
    BY <2>1, SumsBeforeAndAfter DEF SummandsFit
  <2>4. \A p \in Orders \ { o } : g[p] = f[p]
    BY <2>3 DEF Part, Holding
  <2>5. SumFunctionOnSet(g, Orders) = SumFunctionOnSet(f, Orders) + g[o] - f[o]
    BY <2>3, <2>4, ResourceKinds, SumChange
  <2>6. QED
    BY <2>2, <2>3, <2>5
<1>2. ASSUME NEW l \in Lots PROVE GivenTo(l)' = GivenTo(l) + Share(l, o)' - Share(l, o)
  <2>1. PICK f, g : f = [p \in Orders |-> Share(l, p)] /\ g = [p \in Orders |-> Share(l, p)']
    OBVIOUS
  <2>2. GivenTo(l) = SumFunctionOnSet(f, Orders) /\ GivenTo(l)' = SumFunctionOnSet(g, Orders)
    BY <2>1, SumsBeforeAndAfter DEF SumsFit
  <2>3. \A p \in Orders : f[p] \in Int /\ g[p] \in Int /\ f[p] = Share(l, p) /\ g[p] = Share(l, p)'
    BY <2>1, SumsBeforeAndAfter DEF SummandsFit
  <2>4. \A p \in Orders \ { o } : g[p] = f[p]
    BY <2>3 DEF Share
  <2>5. SumFunctionOnSet(g, Orders) = SumFunctionOnSet(f, Orders) + g[o] - f[o]
    BY <2>3, <2>4, ResourceKinds, SumChange
  <2>6. QED
    BY <2>2, <2>3, <2>5
<1>3. QED
  BY <1>1, <1>2

\* What was taken from lots is nothing or all of it.
LEMMA TakenAll ==
  ASSUME NEW i, NEW rs, NEW ls, NEW q, LotsFit(i, rs, ls, q), NEW l \in Lots, ls[l] # 0
  PROVE  SumFunctionOnSet(ls, Lots) = q
<1>1. ls \in [Lots -> Nat] /\ SumFunctionOnSet(ls, Lots) \in { 0, q }
  BY DEF LotsFit
<1>2. SumFunctionOnSet(ls, Lots) = ls[l] + SumFunctionOnSet(ls, Lots \ { l })
  BY <1>1, ResourceKinds, SumTake
<1>3. SumFunctionOnSet(ls, Lots \ { l }) \in Nat
  <2>1. IsFiniteSet(Lots \ { l }) /\ \A k \in Lots \ { l } : ls[k] \in Nat
    BY <1>1, ResourceKinds, PartIsFinite
  <2>2. QED
    BY <2>1, SumNat
<1>4. SumFunctionOnSet(ls, Lots) # 0
  BY <1>1, <1>2, <1>3
<1>5. QED
  BY <1>1, <1>4

LEMMA TakenNone ==
  ASSUME NEW ls \in [Lots -> Nat], \A l \in Lots : ls[l] = 0
  PROVE  SumFunctionOnSet(ls, Lots) = 0
BY ResourceKinds, SumZero

LEMMA SumNegated ==
  ASSUME NEW ls \in [Lots -> Nat]
  PROVE  SumFunctionOnSet([l \in Lots |-> -ls[l]], Lots) = -SumFunctionOnSet(ls, Lots)
<1>1. PICK ds, zero : ds = [l \in Lots |-> -ls[l]] /\ zero = [l \in Lots |-> 0]
  OBVIOUS
<1>2. \A l \in Lots : ds[l] \in Int /\ ls[l] \in Int /\ zero[l] = ds[l] + ls[l]
  BY <1>1
<1>3. SumFunctionOnSet(zero, Lots) = SumFunctionOnSet(ds, Lots) + SumFunctionOnSet(ls, Lots)
  BY <1>2, ResourceKinds, SumPlus
<1>4. SumFunctionOnSet(zero, Lots) = 0
  BY <1>1, ResourceKinds, SumZero
<1>5. SumFunctionOnSet(ds, Lots) \in Int /\ SumFunctionOnSet(ls, Lots) \in Int
  BY <1>2, ResourceKinds, SumInt
<1>6. QED
  BY <1>1, <1>3, <1>4, <1>5


LEMMA Reserves ==
  ASSUME StockInv, NEW h \in Hands, Reserve(h)
  PROVE  StockInv'
<1>1. WorkFits(hand[h]) /\ hand[h] # Idle /\ hand[h].op = "reserve"
  BY NotIdle DEF StockInv, HandsFit, Reserve
<1>2. PICK o, i, q, ls, rs : o = hand[h].order /\ i = hand[h].item /\ q = hand[h].quantity /\ ls = hand[h].lots
                              /\ rs = DOMAIN hand[h].seen
  OBVIOUS
<1>3. RowsFit
  BY DEF StockInv
<1>4. /\ o \in Orders /\ i \in Items /\ i \in Resources /\ q \in Amounts /\ q \in Nat /\ q > 0 /\ -q \in Int
      /\ rs \subseteq Resources /\ LotsFit(i, rs, ls, q)
  BY <1>1, <1>2, Numbers, ResourceKinds DEF WorkFits
<1>5. held[o] = None
  BY <1>1, <1>2 DEF StockInv, OrdersFit
<1>6. /\ ls \in [Lots -> Nat] /\ rs \cap Items \subseteq { i }
      /\ \A l \in Lots : ls[l] > 0 => lot[l] # None /\ lot[l].item = i /\ i \in rs
  BY <1>4 DEF LotsFit
<1>7. PICK rows : rows = [r \in rs |-> Changed(r, -q)]
  OBVIOUS
<1>8. PICK shown : shown = [r \in rs \ Combinations |-> rows[r]]
  OBVIOUS
<1>9. PICK taken : taken = [item |-> i, quantity |-> q, resources |-> rs, lots |-> ls]
  OBVIOUS
<1>10. /\ \A r \in rs : CanChange(r, -q)
       /\ \A l \in Lots : ls[l] > 0 => lot[l].remaining >= ls[l]
       /\ held' = [held EXCEPT ![o] = taken]
       /\ lot' = [l \in Lots |-> IF ls[l] > 0 THEN [lot[l] EXCEPT !.remaining = @ - ls[l]] ELSE lot[l]]
       /\ apart' = IF LotsOf(i) # {} /\ i \in rs /\ \A l \in Lots : ls[l] = 0 THEN apart \cup { i } ELSE apart
       /\ UNCHANGED books
  BY <1>2, <1>9 DEF Reserve
<1>11. Write(h, rows) /\ Announce(h, shown)
  BY <1>2, <1>7, <1>8 DEF Reserve
<1>12. taken \in Taken /\ taken # None /\ taken.item = i /\ taken.quantity = q /\ taken.resources = rs /\ taken.lots = ls
  BY <1>4, <1>6, <1>9, Numbers DEF Taken
<1>13. DOMAIN rows = rs /\ \A r \in rs : rows[r] = Changed(r, -q)
  BY <1>7
<1>14. \A r \in rs : rows[r] \in StockRow /\ Or0(shelf[r].quantity) \in Nat /\ Or0(rows[r].quantity) = Or0(shelf[r].quantity) + -q
  BY <1>3, <1>4, <1>10, <1>13, ChangedRow
<1>15. /\ shelf' \in [Resources -> StockRow] /\ HandsAfter(h, rs)
       /\ \A r \in rs : shelf'[r] = rows[r]
       /\ \A r \in Resources \ rs : shelf'[r] = shelf[r]
  BY <1>3, <1>4, <1>11, <1>13, <1>14, Written DEF RowsFit
<1>16. told' \in [Resources -> 0..2] /\ unheard' \subseteq Resources /\ ToldRises /\ FallsAreAnnounced'
  <2>1. /\ DOMAIN shown \subseteq DOMAIN hand[h].seen
        /\ \A r \in DOMAIN shown : shown[r] = shelf'[r]
        /\ \A r \in (Items \cup Options) \ DOMAIN shown : shelf'[r] = shelf[r]
    <3>1. DOMAIN shown = rs \ Combinations /\ \A r \in DOMAIN shown : shown[r] = rows[r]
      BY <1>8
    <3>2. \A r \in Items \cup Options : r \in Resources /\ r \notin Combinations
      BY ResourceKinds
    <3>3. QED
      BY <1>2, <1>15, <3>1, <3>2
  <2>2. QED
    BY <1>1, <1>3, <1>11, <1>15, <2>1, AnnouncedAll DEF StockInv
<1>17. PICK ds : ds = [l \in Lots |-> -ls[l]]
  OBVIOUS
<1>18. /\ ds \in [Lots -> Int] /\ \A l \in Lots : ds[l] = -ls[l] /\ (ds[l] # 0 <=> ls[l] > 0)
  BY <1>6, <1>17
<1>19. /\ lot' \in [Lots -> LotRow \cup { None }] /\ LotsStay
       /\ \A l \in Lots : /\ lot'[l] # None <=> lot[l] # None
                          /\ lot[l] # None => /\ lot'[l].item = lot[l].item /\ lot'[l].received = lot[l].received
                                              /\ lot'[l].remaining = lot[l].remaining + ds[l]
       /\ \A j : LotsOf(j)' = LotsOf(j)
  <2>1. \A l \in Lots : lot[l] # None => lot[l].remaining \in Nat
    BY <1>3 DEF RowsFit, LotRow
  <2>2. \A l \in Lots : ds[l] # 0 => lot[l] # None /\ lot[l].item = i /\ lot[l].remaining + ds[l] >= 0
    BY <1>6, <1>10, <1>18, <2>1
  <2>3. lot' = [l \in Lots |-> IF ds[l] # 0 THEN [lot[l] EXCEPT !.remaining = @ + ds[l]] ELSE lot[l]]
    <3>1. \A l \in Lots : ls[l] > 0 => lot[l].remaining - ls[l] = lot[l].remaining + ds[l]
      BY <1>6, <1>18, <2>1
    <3>2. \A l \in Lots : ls[l] > 0 => [lot[l] EXCEPT !.remaining = @ - ls[l]] = [lot[l] EXCEPT !.remaining = @ + ds[l]]
      BY <3>1
    <3>3. QED
      BY <1>10, <1>18, <3>2
  <2>4. QED
    BY <1>3, <1>4, <1>18, <2>2, <2>3, LotsMove
<1>20. HandsFit' /\ DOMAIN hand' = Hands /\ SeensFit'
  BY <1>3, <1>4, <1>15, <1>16, <1>19, HandsAfterFit, SeensAfterWrite DEF StockInv
<1>21. held' \in [Orders -> Taken \cup { None }] /\ held'[o] = taken /\ \A p \in Orders \ { o } : held'[p] = held[p]
  BY <1>3, <1>4, <1>10, <1>12 DEF RowsFit
<1>22. RowsFit'
  <2>1. apart' \subseteq Items
    BY <1>3, <1>4, <1>10 DEF RowsFit
  <2>2. QED
    BY <1>3, <1>10, <1>15, <1>16, <1>19, <1>20, <1>21, <2>1 DEF RowsFit
<1>23. OrdersFit'
  <2>1. /\ \A g \in Hands : hand'[g].op = "reserve" =>
              g # h /\ hand[g].op = "reserve" /\ hand'[g].order = hand[g].order /\ held[hand[g].order] = None
        /\ \A f, g \in Hands : hand'[f].op = "reserve" /\ hand'[g].op = "reserve" /\ hand'[f].order = hand'[g].order
              => f = g
    BY <1>4, <1>15, <1>19, HandsAfterOrders DEF StockInv
  <2>2. \A g \in Hands : hand'[g].op = "reserve" => held'[hand'[g].order] = None
    <3> SUFFICES ASSUME NEW g \in Hands, hand'[g].op = "reserve" PROVE held'[hand'[g].order] = None
      OBVIOUS
    <3>1. g # h /\ hand[g].op = "reserve" /\ hand'[g].order = hand[g].order /\ held[hand[g].order] = None
      BY <2>1
    <3>2. hand[g].order # o
      BY <1>1, <1>2, <3>1 DEF StockInv, OrdersFit
    <3>3. hand[g].order \in Orders
      BY <3>1, NotIdle DEF StockInv, HandsFit, WorkFits
    <3>4. QED
      BY <1>21, <3>1, <3>2, <3>3
  <2>3. ASSUME NEW p \in Orders, held'[p] # None
        PROVE  LotsFit(held[p].item, held[p].resources, held[p].lots, held[p].quantity)'
    <3>1. PICK j, us, ks, m : j = held'[p].item /\ us = held'[p].resources /\ ks = held'[p].lots /\ m = held'[p].quantity
      OBVIOUS
    <3>2. LotsFit(j, us, ks, m)
      <4>1. CASE p = o
        BY <1>4, <1>12, <1>21, <3>1, <4>1
      <4>2. CASE p # o
        BY <1>21, <2>3, <3>1, <4>2 DEF StockInv, OrdersFit
      <4>3. QED
        BY <4>1, <4>2
    <3>3. LotsFit(j, us, ks, m)'
      BY <1>19, <3>2, LotsFitStays
    <3>4. QED
      BY <3>1, <3>3
  <2>4. QED
    BY <2>1, <2>2, <2>3 DEF OrdersFit
<1>24. /\ \A r : InOrders(r)' = InOrders(r) + Part(r, o)' - Part(r, o)
       /\ \A l \in Lots : GivenTo(l)' = GivenTo(l) + Share(l, o)' - Share(l, o)
  BY <1>3, <1>4, <1>21, <1>22, OrdersMove
<1>25. /\ \A r : Part(r, o) = 0 /\ Part(r, o)' = IF r \in rs THEN q ELSE 0
       /\ \A l \in Lots : Share(l, o) = 0 /\ Share(l, o)' = ls[l]
  BY <1>4, <1>5, <1>12, <1>21 DEF Part, Holding, Share
<1>26. /\ \A r : InOrders(r) \in Nat
       /\ \A j : Remaining(j) \in Nat
       /\ \A l \in Lots : GivenTo(l) \in Nat
  BY <1>3, SumsBeforeAndAfter DEF SumsFit
<1>27. NothingFromNowhere'
  <2> SUFFICES ASSUME NEW r \in Resources PROVE Or0(shelf'[r].quantity) + InOrders(r)' = books[r]
    BY <1>10 DEF NothingFromNowhere
  <2>1. Or0(shelf[r].quantity) + InOrders(r) = books[r]
    BY DEF StockInv, NothingFromNowhere
  <2>2. CASE r \in rs
    <3>1. InOrders(r)' = InOrders(r) + q
      BY <1>4, <1>24, <1>25, <1>26, <2>2
    <3>2. Or0(shelf[r].quantity) \in Nat /\ Or0(shelf'[r].quantity) = Or0(shelf[r].quantity) + -q
      BY <1>14, <1>15, <2>2
    <3>3. InOrders(r) \in Nat
      BY <1>26
    <3>4. QED
      BY <1>4, <2>1, <3>1, <3>2, <3>3
  <2>3. CASE r \notin rs
    <3>1. InOrders(r)' = InOrders(r)
      BY <1>24, <1>25, <1>26, <2>3
    <3>2. QED
      BY <1>15, <2>1, <2>3, <3>1
  <2>4. QED
    BY <2>2, <2>3
<1>28. LotsHold'
  <2> SUFFICES ASSUME NEW l \in Lots, lot'[l] # None PROVE lot'[l].remaining + GivenTo(l)' <= lot'[l].received
    BY DEF LotsHold
  <2>1. GivenTo(l)' = GivenTo(l) + ls[l] /\ ls[l] \in Nat /\ GivenTo(l) \in Nat
    BY <1>6, <1>24, <1>25, <1>26
  <2>2. lot[l] # None /\ lot[l].remaining \in Nat /\ lot[l].received \in Nat
    BY <1>3, <1>19 DEF RowsFit, LotRow
  <2>3. lot'[l].received = lot[l].received /\ lot'[l].remaining = lot[l].remaining + -ls[l]
    BY <1>18, <1>19, <2>2
  <2>4. lot[l].remaining + GivenTo(l) <= lot[l].received
    BY <2>2 DEF StockInv, LotsHold
  <2>5. QED
    BY <2>1, <2>2, <2>3, <2>4
<1>29. LotsCoverStock'
  <2> SUFFICES ASSUME NEW j \in Items \ apart', LotsOf(j) # {} PROVE Or0(shelf'[j].quantity) = Remaining(j)'
    BY <1>19 DEF LotsCoverStock
  <2>1. Or0(shelf[j].quantity) = Remaining(j)
    BY <1>10 DEF StockInv, LotsCoverStock
  <2>2. /\ SumFunctionOnSet(ds, Lots) \in Int
        /\ Remaining(i)' = Remaining(i) + SumFunctionOnSet(ds, Lots)
        /\ \A k : k # i => Remaining(k)' = Remaining(k)
    BY <1>3, <1>4, <1>6, <1>18, <1>19, <1>22, RemainingAfter
  <2>3. SumFunctionOnSet(ds, Lots) = -SumFunctionOnSet(ls, Lots)
    BY <1>6, <1>17, SumNegated
  <2>4. CASE j # i
    <3>1. j \notin rs /\ j \in Resources
      BY <1>6, <2>4, ResourceKinds
    <3>2. QED
      BY <1>15, <2>1, <2>2, <2>4, <3>1
  <2>5. CASE j = i /\ i \notin rs
    <3>1. \A l \in Lots : ls[l] = 0
      BY <1>6, <2>5
    <3>2. SumFunctionOnSet(ls, Lots) = 0
      BY <1>6, <3>1, TakenNone
    <3>3. Remaining(i)' = Remaining(i)
      BY <1>26, <2>2, <2>3, <3>2
    <3>4. QED
      BY <1>4, <1>15, <2>1, <2>5, <3>3
  <2>6. CASE j = i /\ i \in rs
    <3>1. PICK l \in Lots : ls[l] # 0
      BY <1>10, <2>6
    <3>2. SumFunctionOnSet(ls, Lots) = q
      BY <1>4, <3>1, TakenAll
    <3>3. Or0(shelf'[i].quantity) = Or0(shelf[i].quantity) + -q
      BY <1>14, <1>15, <2>6
    <3>4. QED
      BY <2>1, <2>2, <2>3, <2>6, <3>2, <3>3
  <2>7. QED
    BY <2>4, <2>5, <2>6
<1>30. QED
  BY <1>16, <1>20, <1>22, <1>23, <1>27, <1>28, <1>29 DEF StockInv


LEMMA Restores ==
  ASSUME StockInv, NEW o \in Orders, Restore(o)
  PROVE  StockInv'
<1>1. RowsFit
  BY DEF StockInv
<1>2. held[o] # None /\ held[o] \in Taken
  BY <1>1 DEF Restore, RowsFit
<1>3. PICK i, q, ls, rs : i = held[o].item /\ q = held[o].quantity /\ ls = held[o].lots /\ rs = held[o].resources
  OBVIOUS
<1>4. /\ i \in Items /\ i \in Resources /\ q \in Nat /\ rs \subseteq Resources /\ LotsFit(i, rs, ls, q)
  <2>1. LotsFit(i, rs, ls, q)
    BY <1>2, <1>3 DEF StockInv, OrdersFit
  <2>2. QED
    BY <1>2, <1>3, <2>1, Numbers, ResourceKinds DEF Taken
<1>5. /\ ls \in [Lots -> Nat] /\ rs \cap Items \subseteq { i }
      /\ \A l \in Lots : ls[l] > 0 => lot[l] # None /\ lot[l].item = i /\ i \in rs
  BY <1>4 DEF LotsFit
<1>6. PICK rows : rows = [r \in rs |-> Plus(r, q)]
  OBVIOUS
<1>7. Write(None, rows) /\ Quietly(rows, FALSE)
  BY <1>3, <1>6 DEF Restore, BackTo
<1>8. \A l \in Lots : GivesLotsBack(o)[l] = ls[l]
  BY <1>3 DEF GivesLotsBack
<1>9. /\ held' = [held EXCEPT ![o] = None]
      /\ lot' = [l \in Lots |-> IF ls[l] > 0 THEN [lot[l] EXCEPT !.remaining = @ + ls[l]] ELSE lot[l]]
      /\ apart' = IF LotsOf(i) # {} /\ i \in rs /\ \A l \in Lots : ls[l] = 0 THEN apart \cup { i } ELSE apart
      /\ UNCHANGED books
  <2>1. lot' = [l \in Lots |-> IF GivesLotsBack(o)[l] > 0 THEN [lot[l] EXCEPT !.remaining = @ + GivesLotsBack(o)[l]] ELSE lot[l]]
    BY DEF Restore
  <2>2. lot' = [l \in Lots |-> IF ls[l] > 0 THEN [lot[l] EXCEPT !.remaining = @ + ls[l]] ELSE lot[l]]
    BY <1>8, <2>1
  <2>3. QED
    BY <1>3, <2>2 DEF Restore
<1>10. DOMAIN rows = rs /\ \A r \in rs : rows[r] = [shelf[r] EXCEPT !.quantity = Or0(@) + q]
  BY <1>6 DEF Plus
<1>11. ASSUME NEW r \in rs
       PROVE  /\ rows[r] \in StockRow /\ Level(rows[r]) <= Level(shelf[r])
              /\ Or0(shelf[r].quantity) \in Nat /\ Or0(rows[r].quantity) = Or0(shelf[r].quantity) + q
  <2>1. PICK row : row = shelf[r]
    OBVIOUS
  <2>2. row \in StockRow
    BY <1>1, <1>4, <2>1 DEF RowsFit
  <2>3. LET more == [row EXCEPT !.quantity = Or0(@) + q] IN more \in StockRow /\ Level(more) <= Level(row)
    BY <1>4, <2>2, LevelOfMore
  <2>4. PICK n : n = Or0(row.quantity)
    OBVIOUS
  <2>5. n \in Nat
    BY <2>2, <2>4 DEF StockRow, Or0
  <2>6. rows[r].quantity = n + q
    BY <1>10, <2>1, <2>2, <2>4 DEF StockRow
  <2>7. n + q \in Nat /\ n + q # None
    BY <1>4, <2>5, Numbers
  <2>8. Or0(rows[r].quantity) = n + q
    BY <2>6, <2>7 DEF Or0
  <2>9. QED
    BY <1>10, <2>1, <2>3, <2>4, <2>5, <2>8
<1>12. /\ shelf' \in [Resources -> StockRow] /\ HandsAfter(None, rs)
       /\ \A r \in rs : shelf'[r] = rows[r]
       /\ \A r \in Resources \ rs : shelf'[r] = shelf[r]
  BY <1>1, <1>4, <1>7, <1>10, <1>11, Written DEF RowsFit
<1>13. told' \in [Resources -> 0..2] /\ unheard' \subseteq Resources /\ ToldRises /\ FallsAreAnnounced'
  <2>1. /\ \A r \in DOMAIN rows : rows[r] = shelf'[r] /\ Level(shelf'[r]) <= Level(shelf[r])
        /\ \A r \in Resources \ DOMAIN rows : shelf'[r] = shelf[r]
        /\ DOMAIN rows \subseteq Resources
    BY <1>4, <1>10, <1>11, <1>12
  <2>2. QED
    BY <1>1, <1>7, <1>12, <2>1, QuietAll DEF StockInv
<1>14. /\ ls \in [Lots -> Int] /\ \A l \in Lots : ls[l] # 0 <=> ls[l] > 0
  BY <1>5
<1>15. /\ lot' \in [Lots -> LotRow \cup { None }] /\ LotsStay
       /\ \A l \in Lots : /\ lot'[l] # None <=> lot[l] # None
                          /\ lot[l] # None => /\ lot'[l].item = lot[l].item /\ lot'[l].received = lot[l].received
                                              /\ lot'[l].remaining = lot[l].remaining + ls[l]
       /\ \A j : LotsOf(j)' = LotsOf(j)
  <2>1. \A l \in Lots : lot[l] # None => lot[l].remaining \in Nat
    BY <1>1 DEF RowsFit, LotRow
  <2>2. \A l \in Lots : ls[l] # 0 => lot[l] # None /\ lot[l].item = i /\ lot[l].remaining + ls[l] >= 0
    BY <1>5, <1>14, <2>1
  <2>3. lot' = [l \in Lots |-> IF ls[l] # 0 THEN [lot[l] EXCEPT !.remaining = @ + ls[l]] ELSE lot[l]]
    BY <1>9, <1>14
  <2>4. QED
    BY <1>1, <1>4, <1>14, <2>2, <2>3, LotsMove
<1>16. HandsFit' /\ DOMAIN hand' = Hands /\ SeensFit'
  BY <1>1, <1>4, <1>12, <1>13, <1>15, HandsAfterFit, SeensAfterWrite DEF StockInv
<1>17. held' \in [Orders -> Taken \cup { None }] /\ held'[o] = None /\ \A p \in Orders \ { o } : held'[p] = held[p]
  BY <1>1, <1>9 DEF RowsFit
<1>18. RowsFit'
  <2>1. apart' \subseteq Items
    BY <1>1, <1>4, <1>9 DEF RowsFit
  <2>2. QED
    BY <1>1, <1>9, <1>12, <1>13, <1>15, <1>16, <1>17, <2>1 DEF RowsFit
<1>19. OrdersFit'
  <2>1. /\ \A g \in Hands : hand'[g].op = "reserve" =>
              hand[g].op = "reserve" /\ hand'[g].order = hand[g].order /\ held[hand[g].order] = None
        /\ \A f, g \in Hands : hand'[f].op = "reserve" /\ hand'[g].op = "reserve" /\ hand'[f].order = hand'[g].order
              => f = g
    BY <1>4, <1>12, <1>15, HandsAfterOrders DEF StockInv
  <2>2. \A g \in Hands : hand'[g].op = "reserve" => held'[hand'[g].order] = None
    BY <1>9, <2>1, <1>2
  <2>3. ASSUME NEW p \in Orders, held'[p] # None
        PROVE  LotsFit(held[p].item, held[p].resources, held[p].lots, held[p].quantity)'
    <3>1. PICK j, us, ks, m : j = held'[p].item /\ us = held'[p].resources /\ ks = held'[p].lots /\ m = held'[p].quantity
      OBVIOUS
    <3>2. LotsFit(j, us, ks, m)
      BY <1>17, <2>3, <3>1 DEF StockInv, OrdersFit
    <3>3. LotsFit(j, us, ks, m)'
      BY <1>15, <3>2, LotsFitStays
    <3>4. QED
      BY <3>1, <3>3
  <2>4. QED
    BY <2>1, <2>2, <2>3 DEF OrdersFit
<1>20. /\ \A r : InOrders(r)' = InOrders(r) + Part(r, o)' - Part(r, o)
       /\ \A l \in Lots : GivenTo(l)' = GivenTo(l) + Share(l, o)' - Share(l, o)
  BY <1>1, <1>17, <1>18, OrdersMove
<1>21. /\ \A r : Part(r, o)' = 0 /\ Part(r, o) = IF r \in rs THEN q ELSE 0
       /\ \A l \in Lots : Share(l, o)' = 0 /\ Share(l, o) = ls[l]
  BY <1>2, <1>3, <1>17 DEF Part, Holding, Share
<1>22. /\ \A r : InOrders(r) \in Nat
       /\ \A j : Remaining(j) \in Nat
       /\ \A l \in Lots : GivenTo(l) \in Nat
  BY <1>1, SumsBeforeAndAfter DEF SumsFit
<1>23. NothingFromNowhere'
  <2> SUFFICES ASSUME NEW r \in Resources PROVE Or0(shelf'[r].quantity) + InOrders(r)' = books[r]
    BY <1>9 DEF NothingFromNowhere
  <2>1. Or0(shelf[r].quantity) + InOrders(r) = books[r] /\ InOrders(r) \in Nat
    BY <1>22 DEF StockInv, NothingFromNowhere
  <2>2. CASE r \in rs
    <3>1. InOrders(r)' = InOrders(r) - q
      BY <1>4, <1>20, <1>21, <2>1, <2>2
    <3>2. Or0(shelf[r].quantity) \in Nat /\ Or0(shelf'[r].quantity) = Or0(shelf[r].quantity) + q
      BY <1>11, <1>12, <2>2
    <3>3. QED
      BY <1>4, <2>1, <3>1, <3>2
  <2>3. CASE r \notin rs
    <3>1. InOrders(r)' = InOrders(r)
      BY <1>20, <1>21, <2>1, <2>3
    <3>2. QED
      BY <1>12, <2>1, <2>3, <3>1
  <2>4. QED
    BY <2>2, <2>3
<1>24. LotsHold'
  <2> SUFFICES ASSUME NEW l \in Lots, lot'[l] # None PROVE lot'[l].remaining + GivenTo(l)' <= lot'[l].received
    BY DEF LotsHold
  <2>1. GivenTo(l)' = GivenTo(l) - ls[l] /\ ls[l] \in Nat /\ GivenTo(l) \in Nat
    BY <1>5, <1>20, <1>21, <1>22
  <2>2. lot[l] # None /\ lot[l].remaining \in Nat /\ lot[l].received \in Nat
    BY <1>1, <1>15 DEF RowsFit, LotRow
  <2>3. lot'[l].received = lot[l].received /\ lot'[l].remaining = lot[l].remaining + ls[l]
    BY <1>15, <2>2
  <2>4. lot[l].remaining + GivenTo(l) <= lot[l].received
    BY <2>2 DEF StockInv, LotsHold
  <2>5. QED
    BY <2>1, <2>2, <2>3, <2>4
<1>25. LotsCoverStock'
  <2> SUFFICES ASSUME NEW j \in Items \ apart', LotsOf(j) # {} PROVE Or0(shelf'[j].quantity) = Remaining(j)'
    BY <1>15 DEF LotsCoverStock
  <2>1. Or0(shelf[j].quantity) = Remaining(j)
    BY <1>9 DEF StockInv, LotsCoverStock
  <2>2. /\ SumFunctionOnSet(ls, Lots) \in Int
        /\ Remaining(i)' = Remaining(i) + SumFunctionOnSet(ls, Lots)
        /\ \A k : k # i => Remaining(k)' = Remaining(k)
    BY <1>1, <1>4, <1>5, <1>14, <1>15, <1>18, RemainingAfter
  <2>3. CASE j # i
    <3>1. j \notin rs /\ j \in Resources
      BY <1>5, <2>3, ResourceKinds
    <3>2. QED
      BY <1>12, <2>1, <2>2, <2>3, <3>1
  <2>4. CASE j = i /\ i \notin rs
    <3>1. \A l \in Lots : ls[l] = 0
      BY <1>5, <2>4
    <3>2. SumFunctionOnSet(ls, Lots) = 0
      BY <1>5, <3>1, TakenNone
    <3>3. Remaining(i)' = Remaining(i)
      BY <1>22, <2>2, <3>2
    <3>4. QED
      BY <1>4, <1>12, <2>1, <2>4, <3>3
  <2>5. CASE j = i /\ i \in rs
    <3>1. PICK l \in Lots : ls[l] # 0
      BY <1>9, <2>5
    <3>2. SumFunctionOnSet(ls, Lots) = q
      BY <1>4, <3>1, TakenAll
    <3>3. Or0(shelf'[i].quantity) = Or0(shelf[i].quantity) + q
      BY <1>11, <1>12, <2>5
    <3>4. QED
      BY <2>1, <2>2, <2>5, <3>2, <3>3
  <2>6. QED
    BY <2>3, <2>4, <2>5
<1>26. QED
  BY <1>13, <1>16, <1>18, <1>19, <1>23, <1>24, <1>25 DEF StockInv

-----------------------------------------------------------------------------
LEMMA StockStarts ==
  ASSUME StockInit
  PROVE  StockInv
<1>1. RowsFit
  BY DEF StockInit, RowsFit, StockRow
<1>2. HandsFit /\ SeensFit
  BY DEF StockInit, HandsFit, SeensFit
<1>3. \A h \in Hands : hand[h].op # "reserve"
  BY NotIdle DEF StockInit
<1>4. \A o \in Orders : held[o] = None
  BY DEF StockInit
<1>5. OrdersFit
  BY <1>3, <1>4 DEF OrdersFit
<1>6. ASSUME NEW r PROVE InOrders(r) = 0
  <2>1. PICK f : f = [o \in Orders |-> Part(r, o)]
    OBVIOUS
  <2>2. \A o \in Orders : f[o] = 0
    BY <1>4, <2>1 DEF Part, Holding
  <2>3. SumFunctionOnSet(f, Orders) = 0
    BY <2>2, ResourceKinds, SumZero
  <2>4. QED
    BY <1>1, <2>1, <2>3, SumsBeforeAndAfter DEF SumsFit
<1>7. NothingFromNowhere
  BY <1>6, Numbers DEF StockInit, NothingFromNowhere, Or0
<1>8. LotsCoverStock /\ LotsHold
  BY DEF StockInit, LotsCoverStock, LotsOf, LotsHold
<1>9. FallsAreAnnounced
  <2>1. \A r \in Resources : Level(shelf[r]) = 0 /\ told[r] = 0
    BY DEF StockInit, Level
  <2>2. QED
    BY <2>1, ResourceKinds DEF FallsAreAnnounced
<1>10. QED
  BY <1>1, <1>2, <1>5, <1>7, <1>8, <1>9 DEF StockInv

LEMMA StockSteps ==
  ASSUME StockInv, [StockNext]_stockVars
  PROVE  StockInv'
<1>1. CASE UNCHANGED stockVars
  <2>1. UNCHANGED <<shelf, lot, held, told, books, apart, unheard>> /\ UNCHANGED hand /\ DOMAIN hand' = Hands
    BY <1>1 DEF stockVars, StockInv, RowsFit
  <2>2. /\ RowsFit' /\ NothingFromNowhere' /\ LotsCoverStock' /\ LotsHold' /\ FallsAreAnnounced'
        /\ LotsStay
        /\ \A o \in Orders : held'[o] # None => LotsFit(held[o].item, held[o].resources, held[o].lots, held[o].quantity)'
    BY <2>1, RowsAlone
  <2>3. HandsFit'
    <3>1. ASSUME NEW g \in Hands PROVE hand'[g] = Idle \/ WorkFits(hand[g])'
      <4>1. PICK v : v = hand'[g]
        OBVIOUS
      <4>2. v = Idle \/ WorkFits(v)
        BY <2>1, <4>1 DEF StockInv, HandsFit
      <4>3. v = Idle \/ WorkFits(v)'
        BY <2>2, <4>2, WorkStays
      <4>4. QED
        BY <4>1, <4>3
    <3>2. QED
      BY <3>1 DEF HandsFit, Idle
  <2>4. OrdersFit' /\ SeensFit'
    BY <2>1, <2>2 DEF StockInv, OrdersFit, SeensFit, SeenFits
  <2>5. QED
    BY <2>2, <2>3, <2>4 DEF StockInv
<1>2. ASSUME NEW h \in Hands, RunLots(h) PROVE StockInv'
  <2>1. \A q \in Amounts : q \in Int /\ -q \in Int
    BY Numbers
  <2>2. QED
    BY <1>2, <2>1, BeginsReceive, BeginsAdjustLot, Receives, AdjustsLot DEF RunLots
<1>3. ASSUME NEW h \in Hands, RunCounts(h) PROVE StockInv'
  <2>1. \A q \in Amounts : q \in Int /\ -q \in Int
    BY Numbers
  <2>2. QED
    BY <1>3, <2>1, BeginsAdjust, BeginsUpdate, Adjusts, Updates DEF RunCounts
<1>4. ASSUME NEW h \in Hands, RunOrders(h) PROVE StockInv'
  BY <1>4, BeginsReserve, Reserves DEF RunOrders
<1>5. ASSUME NEW h \in Hands, HandFails(h) PROVE StockInv'
  BY <1>5, GivesUp
<1>6. ASSUME NEW l \in Lots, UpdateLot(l) PROVE StockInv'
  BY <1>6, UpdatesLot
<1>7. ASSUME NEW o \in Orders, Restore(o) PROVE StockInv'
  BY <1>7, Restores
<1>8. QED
  BY <1>1, <1>2, <1>3, <1>4, <1>5, <1>6, <1>7 DEF StockNext

LEMMA StockHolds == StockSpec => []StockInv
<1>1. StockInit => StockInv
  BY StockStarts
<1>2. StockInv /\ [StockNext]_stockVars => StockInv'
  BY StockSteps
<1>3. QED
  BY <1>1, <1>2, PTL DEF StockSpec

(* The stock is kept (menu-inventory-lifecycle.service.ts): whatever is    *)
(* read and overtaken, the units on the shelf and with the orders are what *)
(* the books say, the number of an item is what its lots hold unless a     *)
(* named gap set the two apart, and no lot gives more than came in.        *)
THEOREM StockIsRight == StockSpec => []StockIsKept
<1>1. StockInv => StockIsKept
  <2> SUFFICES ASSUME StockInv PROVE StockIsKept
    OBVIOUS
  <2>1. StockTypeOK
    BY DEF StockInv, RowsFit, StockTypeOK
  <2>2. LotsKeepTheirUnits
    BY DEF StockInv, LotsHold, OrdersFit, LotsFit, LotsKeepTheirUnits
  <2>3. QED
    BY <2>1, <2>2 DEF StockInv, StockIsKept
<1>2. QED
  BY <1>1, StockHolds, PTL

(* No fall goes by unannounced (shouldEmitAlert of                         *)
(* menu-inventory-lifecycle.service.ts): an item or an option that is low  *)
(* or out was announced as such since it last had enough, unless it        *)
(* recovered while the handler was at work or the merchant set it so.      *)
THEOREM FallsAreHeard == StockSpec => []FallsAreAnnounced
<1>1. StockInv => FallsAreAnnounced
  BY DEF StockInv
<1>2. QED
  BY <1>1, StockHolds, PTL
=============================================================================
