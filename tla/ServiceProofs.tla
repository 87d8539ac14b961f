---------------------------- MODULE ServiceProofs ----------------------------
(***************************************************************************)
(* Proofs about the services around the orders.  Jobs: work is neither     *)
(* lost nor doubled between the queue and its dead letters, and a payment  *)
(* is finished once whatever its provider reports.  Accounts: the cached   *)
(* copy of a session agrees with its row or is soon gone, whoever is in a  *)
(* conversation gets and reads its messages, a merchant's clients know     *)
(* what push is in, a customer has one default address, and a support      *)
(* ticket's history leads to where it is.  For any number of rows, jobs,   *)
(* requests, workers, instances and restarts, any retries, lifetimes and   *)
(* hours, and whatever dies.                                               *)
(***************************************************************************)
EXTENDS DeadLetters, PaymentEvents, Sessions, Messaging, QuietHours, Addresses, SupportTickets,
        Sums, FiniteSetTheorems, SequenceTheorems, TLAPS

-----------------------------------------------------------------------------
(***************************************************************************)
(* The proof that work is neither lost nor doubled between the queue and   *)
(* its dead letters, for any number of jobs, attempts, stalls and admins   *)
(* and whatever dies.                                                      *)
(*                                                                         *)
(* The argument: a letter whose retry has added its job is as good as      *)
(* gone.  Of the other copies there is one as long as the work is neither  *)
(* done nor given up, and at most one as long as nobody retried a letter   *)
(* that somebody else was retrying.                                        *)
(***************************************************************************)
Busy(j) == InState(j, "waiting") \/ InState(j, "active") \/ InState(j, "exhausted")

Going(j) == \E a \in DeskAdmins : Retries(a, "remove") /\ retrying[a].letter = j

\* A copy that counts.
IsCopy(j) == (Busy(j) \/ j \in letters) /\ ~Going(j)

LetterType ==
  /\ jobs \in [JobNumbers -> JobRow \cup { None }]
  /\ retrying \in [DeskAdmins -> [letter : JobNumbers, step : { "add", "remove" }] \cup { None }]
  /\ letters \subseteq JobNumbers
  /\ registered \in BOOLEAN /\ worked \in BOOLEAN /\ givenUp \in BOOLEAN /\ forgotten \in BOOLEAN /\ doubled \in BOOLEAN

\* A letter is of a failed job, and so is what an admin retries.
LettersFailed ==
  /\ \A j \in letters : InState(j, "failed")
  /\ \A a \in DeskAdmins : retrying[a] # None => InState(retrying[a].letter, "failed")

NotLost == worked \/ givenUp \/ forgotten \/ \E j \in JobNumbers : IsCopy(j)

\* Without doubled work nobody is removing a letter of the other's.
Single ==
  ~doubled => /\ \A i, j \in JobNumbers : IsCopy(i) /\ IsCopy(j) => i = j
              /\ \A a, b \in DeskAdmins :
                   Retries(a, "remove") /\ Retries(b, "remove") /\ retrying[a].letter = retrying[b].letter => a = b

LetterInv == LetterType /\ LettersFailed /\ NotLost /\ Single
-----------------------------------------------------------------------------
LEMMA LettersInit == DeadLetterInit => LetterInv
<1> SUFFICES ASSUME DeadLetterInit PROVE LetterInv
  OBVIOUS
<1>1. 1 \in JobNumbers /\ NewJob \in JobRow /\ NewJob # None
  BY DeadLetterAssumption DEF JobNumbers, NewJob, JobRow
<1>2. LetterType
  BY <1>1 DEF DeadLetterInit, LetterType
<1>3. LettersFailed /\ Single
  BY DEF DeadLetterInit, LettersFailed, Single, IsCopy, Busy, InState, Going, Retries
<1>4. NotLost
  BY <1>1 DEF DeadLetterInit, NotLost, IsCopy, Busy, InState, Going, Retries, NewJob
<1>5. QED
  BY <1>2, <1>3, <1>4 DEF LetterInv

JobStates == { "waiting", "active", "exhausted", "completed", "failed" }

LEMMA Restated ==
  ASSUME NEW row \in JobRow, NEW s \in JobStates, NEW f \in Nat
  PROVE  [row EXCEPT !.state = s] \in JobRow /\ [row EXCEPT !.fails = f, !.state = s] \in JobRow
BY DEF JobRow, JobStates

LEMMA Stalled ==
  ASSUME NEW row \in JobRow
  PROVE  [row EXCEPT !.state = "waiting", !.stalls = @ + 1] \in JobRow
<1>1. row.stalls + 1 \in Nat
  BY DEF JobRow
<1>2. QED
  BY <1>1 DEF JobRow

LEMMA LetterTypeStep ==
  ASSUME LetterType, DeadLetterNext PROVE LetterType'
<1> USE DEF LetterType
<1>0. NewJob \in JobRow
  BY DEF NewJob, JobRow
<1>1. ASSUME NEW j \in JobNumbers, TakeJob(j) \/ JobSucceeds(j) \/ JobFails(j) \/ PushLetter(j) \/ PushLetterFails(j)
      PROVE  LetterType'
  <2>1. jobs[j] \in JobRow
    BY <1>1 DEF TakeJob, JobSucceeds, JobFails, PushLetter, PushLetterFails, InState
  <2>2. CASE TakeJob(j) \/ JobSucceeds(j) \/ PushLetter(j) \/ PushLetterFails(j)
    <3>1. PICK s \in JobStates : jobs' = [jobs EXCEPT ![j].state = s]
      BY <2>2 DEF TakeJob, JobSucceeds, PushLetter, PushLetterFails, JobStates
    <3>2. jobs' = [jobs EXCEPT ![j] = [jobs[j] EXCEPT !.state = s]]
      BY <3>1
    <3>3. jobs' \in [JobNumbers -> JobRow \cup { None }]
      BY <2>1, <3>2, Restated, 0 \in Nat
    <3>4. QED
      BY <2>2, <3>3 DEF TakeJob, JobSucceeds, PushLetter, PushLetterFails
  <2>3. CASE JobFails(j)
    <3>1. PICK s \in JobStates : jobs' = [jobs EXCEPT ![j] = [jobs[j] EXCEPT !.fails = jobs[j].fails + 1, !.state = s]]
      BY <2>3 DEF JobFails, JobStates
    <3>2. jobs[j].fails + 1 \in Nat
      BY <2>1 DEF JobRow
    <3>3. jobs' \in [JobNumbers -> JobRow \cup { None }]
      BY <2>1, <3>1, <3>2, Restated
    <3>4. QED
      BY <2>3, <3>3 DEF JobFails
  <2>4. QED
    BY <1>1, <2>2, <2>3
<1>2. CASE RegisterHandler
  BY <1>2 DEF RegisterHandler
<1>3. CASE WorkerDies
  <2>1. \A j \in JobNumbers : jobs[j] \in JobRow =>
          /\ [jobs[j] EXCEPT !.state = "waiting", !.stalls = @ + 1] \in JobRow
          /\ [jobs[j] EXCEPT !.state = "failed"] \in JobRow
    BY Stalled, Restated, 0 \in Nat DEF JobStates
  <2>2. jobs' \in [JobNumbers -> JobRow \cup { None }]
    BY <1>3, <2>1 DEF WorkerDies, InState
  <2>3. QED
    BY <1>3, <2>2 DEF WorkerDies
<1>4. ASSUME NEW j \in JobNumbers, RemoveLetter(j) PROVE LetterType'
  BY <1>4 DEF RemoveLetter
<1>5. ASSUME NEW a \in DeskAdmins, NEW j \in JobNumbers, BeginRetry(a, j) PROVE LetterType'
  BY <1>5 DEF BeginRetry
<1>6. ASSUME NEW a \in DeskAdmins, AddAgain(a) PROVE LetterType'
  BY <1>0, <1>6 DEF AddAgain, Retries
<1>7. ASSUME NEW a \in DeskAdmins, RemoveRetried(a) \/ RetryDies(a) PROVE LetterType'
  BY <1>7 DEF RemoveRetried, RetryDies, AfterRetry, Retries
<1>8. QED
  BY <1>1, <1>2, <1>3, <1>4, <1>5, <1>6, <1>7 DEF DeadLetterNext
-----------------------------------------------------------------------------
\* A step that adds no copy, and takes the last one away only when it leaves a mark.
LEMMA NoMoreCopies ==
  ASSUME LetterType, LettersFailed, NotLost, Single,
         UNCHANGED <<retrying, doubled>>,
         \A k \in JobNumbers : InState(k, "failed") => InState(k, "failed")',
         \A k \in letters' : InState(k, "failed")',
         \A k \in JobNumbers : IsCopy(k)' => IsCopy(k),
         (worked \/ givenUp \/ forgotten) => (worked \/ givenUp \/ forgotten)',
         (worked \/ givenUp \/ forgotten)' \/ \A k \in JobNumbers : IsCopy(k) => IsCopy(k)'
  PROVE  LettersFailed' /\ NotLost' /\ Single'
<1>1. LettersFailed'
  BY DEF LettersFailed, LetterType
<1>2. NotLost'
  BY DEF NotLost
<1>3. Single'
  BY DEF Single, Retries
<1>4. QED
  BY <1>1, <1>2, <1>3

\* What a step does to the states when it replaces one row.
LEMMA StatesAfter ==
  ASSUME LetterType, NEW j \in JobNumbers, NEW row \in JobRow, jobs' = [jobs EXCEPT ![j] = row]
  PROVE  /\ \A k \in JobNumbers, x \in JobStates : InState(k, x)' <=> IF k = j THEN row.state = x ELSE InState(k, x)
         /\ \A k \in JobNumbers : Busy(k)' <=> IF k = j THEN row.state \in { "waiting", "active", "exhausted" } ELSE Busy(k)
<1>1. row # None
  BY DeadLetterAssumption
<1>2. QED
  BY <1>1 DEF LetterType, InState, Busy

\* A job's own steps: it keeps its place among the copies, or leaves a mark.
LEMMA JobSteps ==
  ASSUME LetterInv, NEW j \in JobNumbers,
         TakeJob(j) \/ JobSucceeds(j) \/ JobFails(j) \/ PushLetter(j) \/ PushLetterFails(j)
  PROVE  LettersFailed' /\ NotLost' /\ Single'
<1> USE DEF LetterInv
<1>1. Busy(j) /\ ~InState(j, "failed") /\ jobs[j] \in JobRow
  BY DEF TakeJob, JobSucceeds, JobFails, PushLetter, PushLetterFails, InState, Busy, LetterType
<1>2. PICK row \in JobRow : /\ jobs' = [jobs EXCEPT ![j] = row]
                            /\ \/ row.state \in { "waiting", "active", "exhausted" } /\ letters' = letters
                               \/ row.state = "completed" /\ (worked' \/ forgotten') /\ letters' = letters
                               \/ row.state = "failed" /\ letters' = letters \cup { j }
                               \/ row.state = "failed" /\ letters' = letters /\ forgotten'
  <2>1. \A x \in JobStates : [jobs[j] EXCEPT !.state = x] \in JobRow /\ [jobs[j] EXCEPT !.state = x].state = x
    BY <1>1, Restated, 0 \in Nat DEF JobRow
  <2>2. CASE TakeJob(j)
    BY <2>1, <2>2 DEF TakeJob, JobStates, LetterType
  <2>3. CASE JobSucceeds(j)
    BY <2>1, <2>3 DEF JobSucceeds, JobStates
  <2>4. CASE PushLetter(j) \/ PushLetterFails(j)
    BY <2>1, <2>4 DEF PushLetter, PushLetterFails, JobStates
  <2>5. CASE JobFails(j)
    <3>1. jobs[j].fails + 1 \in Nat
      BY <1>1 DEF JobRow
    <3>2. ~(jobs[j].fails + 1 < JobAttempts) => IsExhausted(jobs[j].fails + 1)
      BY <3>1, DeadLetterAssumption DEF IsExhausted
    <3>3. PICK x \in { "waiting", "exhausted" } :
             jobs' = [jobs EXCEPT ![j] = [jobs[j] EXCEPT !.fails = jobs[j].fails + 1, !.state = x]]
      BY <2>5, <3>2 DEF JobFails
    <3>4. [jobs[j] EXCEPT !.fails = jobs[j].fails + 1, !.state = x] \in JobRow
      BY <1>1, <3>1, Restated DEF JobStates
    <3>5. [jobs[j] EXCEPT !.fails = jobs[j].fails + 1, !.state = x].state = x
      BY <1>1 DEF JobRow
    <3>6. QED
      BY <2>5, <3>3, <3>4, <3>5 DEF JobFails
  <2>6. QED
    BY <2>2, <2>3, <2>4, <2>5
<1>3. UNCHANGED <<retrying, doubled>>
  BY DEF TakeJob, JobSucceeds, JobFails, PushLetter, PushLetterFails
<1>a. (worked => worked') /\ (givenUp => givenUp') /\ (forgotten => forgotten')
  <2>1. CASE TakeJob(j)
    BY <2>1, Zenon DEF TakeJob
  <2>2. CASE JobSucceeds(j)
    BY <2>2, Zenon DEF JobSucceeds
  <2>3. CASE JobFails(j) \/ PushLetter(j)
    <3>1. UNCHANGED <<worked, givenUp, forgotten>>
      BY <2>3 DEF JobFails, PushLetter
    <3>2. QED
      BY <3>1, Zenon
  <2>4. CASE PushLetterFails(j)
    BY <2>4, Zenon DEF PushLetterFails
  <2>5. QED
    BY <2>1, <2>2, <2>3, <2>4
<1>4. /\ \A k \in JobNumbers, x \in JobStates : InState(k, x)' <=> IF k = j THEN row.state = x ELSE InState(k, x)
      /\ \A k \in JobNumbers : Busy(k)' <=> IF k = j THEN row.state \in { "waiting", "active", "exhausted" } ELSE Busy(k)
  BY <1>2, StatesAfter
<1>5. \A k \in JobNumbers : InState(k, "failed") => InState(k, "failed")'
  BY <1>1, <1>4 DEF JobStates
<1>6. j \notin letters
  BY <1>1 DEF LettersFailed
<1>7. \A k \in letters' : InState(k, "failed")'
  BY <1>2, <1>4, <1>5, <1>6 DEF LettersFailed, LetterType, JobStates
<1>8. \A k \in JobNumbers : Going(k)' <=> Going(k)
  BY <1>3 DEF Going, Retries
<1>9. \A k \in JobNumbers : IsCopy(k)' => IsCopy(k)
  BY <1>1, <1>2, <1>4, <1>8 DEF IsCopy
<1>10. (worked \/ givenUp \/ forgotten)' \/ \A k \in JobNumbers : IsCopy(k) => IsCopy(k)'
  BY <1>1, <1>2, <1>4, <1>8 DEF IsCopy
<1>11. QED
  BY <1>3, <1>a, <1>5, <1>7, <1>9, <1>10, NoMoreCopies

LEMMA WorkerDiesStep ==
  ASSUME LetterInv, WorkerDies PROVE LettersFailed' /\ NotLost' /\ Single'
<1> USE DEF LetterInv
<1>1. UNCHANGED <<retrying, doubled, letters, worked, givenUp>> /\ (forgotten => forgotten')
  BY Zenon DEF WorkerDies
<1>2. \A k \in JobNumbers : \/ jobs'[k] = jobs[k] /\ ~InState(k, "active") /\ ~InState(k, "exhausted")
                            \/ InState(k, "active") /\ jobs'[k] = [jobs[k] EXCEPT !.state = "waiting", !.stalls = @ + 1]
                            \/ /\ InState(k, "active") \/ InState(k, "exhausted")
                               /\ jobs'[k] = [jobs[k] EXCEPT !.state = "failed"] /\ forgotten'
  BY DEF WorkerDies, LetterType
<1>3. \A k \in JobNumbers : \/ (\A x \in JobStates : InState(k, x)' <=> InState(k, x)) /\ ~InState(k, "active") /\ ~InState(k, "exhausted")
                            \/ InState(k, "active") /\ InState(k, "waiting")' /\ ~InState(k, "failed")
                            \/ /\ InState(k, "active") \/ InState(k, "exhausted")
                               /\ ~InState(k, "failed") /\ ~Busy(k)' /\ forgotten'
  <2> TAKE k \in JobNumbers
  <2>1. CASE jobs'[k] = jobs[k] /\ ~InState(k, "active") /\ ~InState(k, "exhausted")
    BY <2>1 DEF InState
  <2>2. CASE InState(k, "active") /\ jobs'[k] = [jobs[k] EXCEPT !.state = "waiting", !.stalls = @ + 1]
    <3>1. jobs[k] \in JobRow
      BY <2>2 DEF InState, LetterType
    <3>2. jobs'[k] \in JobRow
      BY <2>2, <3>1, Stalled
    <3>3. jobs'[k].state = "waiting"
      BY <2>2, <3>1 DEF JobRow
    <3>4. QED
      BY <2>2, <3>2, <3>3, DeadLetterAssumption DEF InState
  <2>3. CASE /\ InState(k, "active") \/ InState(k, "exhausted")
             /\ jobs'[k] = [jobs[k] EXCEPT !.state = "failed"] /\ forgotten'
    <3>1. jobs[k] \in JobRow
      BY <2>3 DEF InState, LetterType
    <3>2. jobs'[k].state = "failed"
      BY <2>3, <3>1 DEF JobRow
    <3>3. QED
      BY <2>3, <3>2 DEF InState, Busy
  <2>4. QED
    BY <1>2, <2>1, <2>2, <2>3
<1>4. \A k \in JobNumbers : InState(k, "failed") => InState(k, "failed")'
  BY <1>3 DEF JobStates, InState
<1>5. \A k \in letters' : InState(k, "failed")'
  BY <1>1, <1>4 DEF LettersFailed, LetterType
<1>6. \A k \in JobNumbers : Going(k)' <=> Going(k)
  BY <1>1 DEF Going, Retries
<1>7. \A k \in JobNumbers : (Busy(k)' => Busy(k)) /\ (forgotten' \/ (Busy(k) => Busy(k)'))
  BY <1>3 DEF Busy, JobStates
<1>8. \A k \in JobNumbers : IsCopy(k)' => IsCopy(k)
  BY <1>1, <1>6, <1>7 DEF IsCopy
<1>9. (worked \/ givenUp \/ forgotten)' \/ \A k \in JobNumbers : IsCopy(k) => IsCopy(k)'
  BY <1>1, <1>6, <1>7 DEF IsCopy
<1>10. QED
  BY <1>1, <1>4, <1>5, <1>8, <1>9, NoMoreCopies

LEMMA PlainSteps ==
  ASSUME LetterInv, RegisterHandler \/ \E j \in JobNumbers : RemoveLetter(j)
  PROVE  LettersFailed' /\ NotLost' /\ Single'
<1> USE DEF LetterInv
<1>1. UNCHANGED <<jobs, retrying, doubled, worked, forgotten>> /\ letters' \subseteq letters
  BY DEF RegisterHandler, RemoveLetter
<1>2. (givenUp => givenUp') /\ (givenUp' \/ letters' = letters)
  BY DEF RegisterHandler, RemoveLetter
<1>3. \A k \in JobNumbers, x \in JobStates : InState(k, x)' <=> InState(k, x)
  BY <1>1 DEF InState
<1>4. \A k \in JobNumbers : (Busy(k)' <=> Busy(k)) /\ (Going(k)' <=> Going(k))
  BY <1>1 DEF Busy, InState, Going, Retries
<1>5. \A k \in letters' : InState(k, "failed")'
  BY <1>1, <1>3 DEF LettersFailed, LetterType, JobStates
<1>6. \A k \in JobNumbers : (IsCopy(k)' => IsCopy(k)) /\ (givenUp' \/ (IsCopy(k) => IsCopy(k)'))
  BY <1>1, <1>2, <1>4 DEF IsCopy
<1>7. \A k \in JobNumbers : InState(k, "failed") => InState(k, "failed")'
  BY <1>3 DEF JobStates
<1>8. QED
  BY <1>1, <1>2, <1>5, <1>6, <1>7, NoMoreCopies

LEMMA BeginRetryStep ==
  ASSUME LetterInv, NEW a \in DeskAdmins, NEW j \in JobNumbers, BeginRetry(a, j)
  PROVE  LettersFailed' /\ NotLost' /\ Single'
<1> USE DEF LetterInv
<1>1. /\ UNCHANGED <<jobs, letters, worked, givenUp, forgotten, doubled>> /\ retrying[a] = None /\ j \in letters
      /\ retrying' = [retrying EXCEPT ![a] = [letter |-> j, step |-> "add"]]
  BY DEF BeginRetry
<1>2. \A b \in DeskAdmins : b # a => retrying'[b] = retrying[b]
  BY <1>1 DEF LetterType
<1>3. retrying'[a] = [letter |-> j, step |-> "add"]
  BY <1>1 DEF LetterType
<1>4. \A b \in DeskAdmins : Retries(b, "remove")' <=> Retries(b, "remove")
  BY <1>1, <1>2, <1>3 DEF Retries
<1>5. \A b \in DeskAdmins : Retries(b, "remove") => retrying'[b] = retrying[b]
  BY <1>1, <1>2 DEF Retries
<1>6. \A k \in JobNumbers : Going(k)' <=> Going(k)
  BY <1>4, <1>5 DEF Going
<1>7. \A k \in JobNumbers : IsCopy(k)' <=> IsCopy(k)
  BY <1>1, <1>6 DEF IsCopy, Busy, InState
<1>8. LettersFailed'
  <2>1. \A k \in letters' : InState(k, "failed")'
    BY <1>1 DEF LettersFailed, InState
  <2>2. \A b \in DeskAdmins : b # a /\ retrying'[b] # None => InState(retrying[b].letter, "failed")'
    BY <1>1, <1>2 DEF LettersFailed, InState
  <2>3. InState(j, "failed")'
    BY <1>1, <2>1
  <2>4. retrying'[a].letter = j
    BY <1>3
  <2>5. QED
    BY <1>2, <2>1, <2>2, <2>3, <2>4 DEF LettersFailed
<1>9. NotLost'
  BY <1>1, <1>7 DEF NotLost
<1>10. Single'
  BY <1>1, <1>4, <1>5, <1>7 DEF Single
<1>11. QED
  BY <1>8, <1>9, <1>10

LEMMA AddAgainStep ==
  ASSUME LetterInv, NEW a \in DeskAdmins, AddAgain(a)
  PROVE  LettersFailed' /\ NotLost' /\ Single'
<1> USE DEF LetterInv
<1> DEFINE j == retrying[a].letter
<1>1. PICK new \in JobNumbers \ Added : jobs' = [jobs EXCEPT ![new] = NewJob]
  BY DEF AddAgain
<1>2. /\ UNCHANGED <<letters, worked, givenUp, forgotten>> /\ Retries(a, "add")
      /\ retrying' = [retrying EXCEPT ![a].step = "remove"]
      /\ doubled' = (doubled \/ j \notin letters \/ \E b \in DeskAdmins \ { a } : Retries(b, "remove") /\ retrying[b].letter = j)
  BY DEF AddAgain
<1>3. /\ \A b \in DeskAdmins : b # a => retrying'[b] = retrying[b]
      /\ retrying'[a] # None /\ retrying'[a].step = "remove" /\ retrying'[a].letter = j /\ j \in JobNumbers
  <2>1. retrying[a] \in [letter : JobNumbers, step : { "add", "remove" }]
    BY <1>2 DEF LetterType, Retries
  <2>2. retrying'[a] = [retrying[a] EXCEPT !.step = "remove"]
    BY <1>2 DEF LetterType
  <2>3. [retrying[a] EXCEPT !.step = "remove"] \in [letter : JobNumbers, step : { "add", "remove" }]
    BY <2>1
  <2>4. QED
    BY <1>2, <2>1, <2>2, <2>3, DeadLetterAssumption DEF LetterType, JobNumbers
<1>4. NewJob \in JobRow /\ NewJob.state = "waiting"
  BY DEF NewJob, JobRow
<1>5. /\ \A k \in JobNumbers, x \in JobStates : InState(k, x)' <=> IF k = new THEN x = "waiting" ELSE InState(k, x)
      /\ \A k \in JobNumbers : Busy(k)' <=> (k = new \/ Busy(k))
  BY <1>1, <1>4, StatesAfter
<1>6. ~InState(new, "failed") /\ new \notin letters
  BY <1>1 DEF Added, InState, LettersFailed
<1>7. \A k \in JobNumbers : Going(k)' <=> (Going(k) \/ k = j)
  BY <1>2, <1>3 DEF Going, Retries
<1>8. InState(j, "failed") /\ new # j /\ ~Going(new)
  BY <1>2, <1>6 DEF LettersFailed, Retries, Going
<1> HIDE DEF j
<1>9. LettersFailed'
  <2>1. \A k \in JobNumbers : InState(k, "failed") => InState(k, "failed")'
    BY <1>5, <1>6 DEF JobStates
  <2>2. \A k \in letters' : InState(k, "failed")'
    BY <1>2, <2>1 DEF LettersFailed, LetterType
  <2>3. ASSUME NEW b \in DeskAdmins, retrying'[b] # None PROVE InState(retrying[b].letter, "failed")'
    <3>1. CASE b = a
      BY <1>3, <1>8, <2>1, <3>1
    <3>2. CASE b # a
      BY <1>3, <2>1, <2>3, <3>2 DEF LettersFailed, LetterType
    <3>3. QED
      BY <3>1, <3>2
  <2>4. QED
    BY <2>2, <2>3 DEF LettersFailed
<1>10. \A k \in JobNumbers : IsCopy(k)' <=> k = new \/ (IsCopy(k) /\ k # j)
  BY <1>2, <1>5, <1>7, <1>8 DEF IsCopy
<1>11. NotLost'
  BY <1>10 DEF NotLost
<1>12. Single'
  <2> SUFFICES ASSUME ~doubled' PROVE /\ \A i, k \in JobNumbers : IsCopy(i)' /\ IsCopy(k)' => i = k
                                     /\ \A b, c \in DeskAdmins : Retries(b, "remove")' /\ Retries(c, "remove")'
                                          /\ retrying'[b].letter = retrying'[c].letter => b = c
    BY DEF Single
  <2>1. ~doubled /\ j \in letters /\ \A b \in DeskAdmins \ { a } : ~(Retries(b, "remove") /\ retrying[b].letter = j)
    BY <1>2
  <2>2. ~Retries(a, "remove")
    BY <1>2 DEF Retries
  <2>3. IsCopy(j)
    BY <2>1, <2>2 DEF IsCopy, Going
  <2>4. \A i, k \in JobNumbers : IsCopy(i)' /\ IsCopy(k)' => i = k
    BY <1>3, <1>10, <2>1, <2>3 DEF Single
  <2>5. \A b \in DeskAdmins : b # a => (Retries(b, "remove")' <=> Retries(b, "remove"))
    BY <1>3 DEF Retries
  <2>6. \A b, c \in DeskAdmins : Retries(b, "remove")' /\ Retries(c, "remove")'
                                   /\ retrying'[b].letter = retrying'[c].letter => b = c
    BY <1>3, <2>1, <2>5 DEF Single
  <2>7. QED
    BY <2>4, <2>6
<1>13. QED
  BY <1>9, <1>11, <1>12

LEMMA RemoveRetriedStep ==
  ASSUME LetterInv, NEW a \in DeskAdmins, RemoveRetried(a)
  PROVE  LettersFailed' /\ NotLost' /\ Single'
<1> USE DEF LetterInv
<1> DEFINE j == retrying[a].letter
<1>1. /\ UNCHANGED <<jobs, worked, givenUp, forgotten, doubled>> /\ Retries(a, "remove")
      /\ letters' = letters \ { j } /\ retrying' = [retrying EXCEPT ![a] = None]
  BY DEF RemoveRetried, AfterRetry
<1>2. retrying'[a] = None /\ \A b \in DeskAdmins : b # a => retrying'[b] = retrying[b]
  BY <1>1 DEF LetterType
<1>3. j \in JobNumbers /\ InState(j, "failed")
  BY <1>1 DEF LetterType, LettersFailed, Retries
<1>4. \A k \in JobNumbers : (Busy(k)' <=> Busy(k)) /\ (InState(k, "failed")' <=> InState(k, "failed"))
  BY <1>1 DEF Busy, InState
<1>5. \A b \in DeskAdmins : Retries(b, "remove")' <=> Retries(b, "remove") /\ b # a
  BY <1>2 DEF Retries
<1>6. \A k \in JobNumbers : k # j => (Going(k)' <=> Going(k))
  BY <1>2, <1>5 DEF Going
<1>7. Going(j) /\ ~Busy(j)
  BY <1>1, <1>3 DEF Going, Busy, InState
<1> HIDE DEF j
<1>8. \A k \in JobNumbers : IsCopy(k)' <=> IsCopy(k)
  BY <1>1, <1>4, <1>6, <1>7 DEF IsCopy
<1>9. LettersFailed'
  <2>1. \A k \in letters' : InState(k, "failed")'
    BY <1>1, <1>4 DEF LettersFailed, LetterType
  <2>2. \A b \in DeskAdmins : retrying'[b] # None => InState(retrying[b].letter, "failed")'
    BY <1>2, <1>4 DEF LettersFailed, LetterType
  <2>3. QED
    BY <2>1, <2>2 DEF LettersFailed
<1>10. NotLost'
  BY <1>1, <1>8 DEF NotLost
<1>11. Single'
  BY <1>1, <1>2, <1>5, <1>8 DEF Single
<1>12. QED
  BY <1>9, <1>10, <1>11

LEMMA RetryDiesStep ==
  ASSUME LetterInv, NEW a \in DeskAdmins, RetryDies(a)
  PROVE  LettersFailed' /\ NotLost' /\ Single'
<1> USE DEF LetterInv
<1>1. /\ UNCHANGED <<jobs, letters, worked, givenUp, forgotten>>
      /\ retrying' = [retrying EXCEPT ![a] = None] /\ doubled' = (doubled \/ Retries(a, "remove"))
  BY DEF RetryDies
<1>2. retrying'[a] = None /\ \A b \in DeskAdmins : b # a => retrying'[b] = retrying[b]
  BY <1>1 DEF LetterType
<1>3. \A k \in JobNumbers : (Busy(k)' <=> Busy(k)) /\ (InState(k, "failed")' <=> InState(k, "failed"))
  BY <1>1 DEF Busy, InState
<1>4. \A b \in DeskAdmins : Retries(b, "remove")' <=> Retries(b, "remove") /\ b # a
  BY <1>2 DEF Retries
<1>5. \A k \in JobNumbers : Going(k)' => Going(k)
  BY <1>2, <1>4 DEF Going
<1>6. ~Retries(a, "remove") => \A k \in JobNumbers : Going(k) => Going(k)'
  BY <1>2, <1>4 DEF Going
<1>7. \A k \in JobNumbers : IsCopy(k) => IsCopy(k)'
  BY <1>1, <1>3, <1>5 DEF IsCopy
<1>8. ~doubled' => \A k \in JobNumbers : IsCopy(k)' => IsCopy(k)
  BY <1>1, <1>3, <1>6 DEF IsCopy
<1>9. LettersFailed'
  <2>1. \A k \in letters' : InState(k, "failed")'
    BY <1>1, <1>3 DEF LettersFailed, LetterType
  <2>2. \A b \in DeskAdmins : retrying'[b] # None => InState(retrying[b].letter, "failed")'
    BY <1>2, <1>3 DEF LettersFailed, LetterType
  <2>3. QED
    BY <2>1, <2>2 DEF LettersFailed
<1>10. NotLost'
  BY <1>1, <1>7 DEF NotLost
<1>11. Single'
  BY <1>1, <1>2, <1>4, <1>8 DEF Single
<1>12. QED
  BY <1>9, <1>10, <1>11
-----------------------------------------------------------------------------
LEMMA LetterInvStep ==
  ASSUME LetterInv, [DeadLetterNext]_deadLetterVars PROVE LetterInv'
<1>1. CASE DeadLetterNext
  <2>1. LetterType'
    BY <1>1, LetterTypeStep DEF LetterInv
  <2>2. LettersFailed' /\ NotLost' /\ Single'
    BY <1>1, JobSteps, WorkerDiesStep, PlainSteps, BeginRetryStep, AddAgainStep, RemoveRetriedStep, RetryDiesStep DEF DeadLetterNext
  <2>3. QED
    BY <2>1, <2>2 DEF LetterInv
<1>2. CASE UNCHANGED deadLetterVars
  BY <1>2 DEF deadLetterVars, LetterInv, LetterType, LettersFailed, NotLost, Single, IsCopy, Busy, Going, InState, Retries
<1>3. QED
  BY <1>1, <1>2

LEMMA CopiesAreEnough == ASSUME LetterInv PROVE LetterAgrees
<1> USE DEF LetterInv
<1>1. \A j \in JobNumbers : Busy(j) <=> j \in Live
  BY DEF Busy, InState, Live, Added
<1>2. WorkIsKept
  BY <1>1 DEF WorkIsKept, NotLost, IsCopy
<1>3. ASSUME \A a \in DeskAdmins : retrying[a] = None, ~doubled, NEW i \in Live \cup letters, NEW k \in Live \cup letters
      PROVE  i = k
  <2>1. i \in JobNumbers /\ k \in JobNumbers
    BY DEF Live, Added, LetterType
  <2>2. IsCopy(i) /\ IsCopy(k)
    BY <1>1, <1>3, <2>1 DEF IsCopy, Going, Retries
  <2>3. QED
    BY <1>3, <2>1, <2>2 DEF Single
<1>4. QED
  BY <1>2, <1>3 DEF LetterAgrees, OneCopy

\* Between the queue and its dead letters work is neither lost nor doubled,
\* but in the ways the flags name (queue.service.ts:281-300,
\* admin-dlq.controller.ts:81-88).
THEOREM NothingLostOrDoubled == DeadLetterSpec => []LetterAgrees
<1>1. DeadLetterInit => LetterInv
  BY LettersInit
<1>2. LetterInv /\ [DeadLetterNext]_deadLetterVars => LetterInv'
  BY LetterInvStep
<1>3. LetterInv => LetterAgrees
  BY CopiesAreEnough
<1>4. QED
  BY <1>1, <1>2, <1>3, PTL DEF DeadLetterSpec
-----------------------------------------------------------------------------
(***************************************************************************)
(* The proof that a payment is finished once, for any number of reports,   *)
(* workers and admins, any retries, and whatever dies.                     *)
(*                                                                         *)
(* The argument: whoever is about to write an outcome found the payment    *)
(* unfinished, and it still is, or somebody has written meanwhile and the  *)
(* writer counts as overtaken.  An order leaves PLACED for good, so its    *)
(* stock comes back at most once whoever overtakes whom.                   *)
(***************************************************************************)
People == Clerks \cup Admins
Outcomes == { "SUCCEEDED" } \cup Abandoned
HandFields == { "job", "target", "step", "ref", "old" }

\* What h holds fits a payment in this status.
Fits(h, status) ==
  /\ DOMAIN h = HandFields
  /\ h.step \in { "call", "commit" } => h.target \in Outcomes
  /\ h.step = "commit" /\ ~h.old => status = "REQUIRES_ACTION"

HandsFit == DOMAIN hand = People /\ \A p \in People : hand[p] # None => Fits(hand[p], charge.status)

ChargeFits ==
  /\ DOMAIN charge = { "status", "reference", "attempts" } /\ charge.attempts \in Nat
  /\ charge.status \in { "REQUIRES_ACTION" } \cup Outcomes
  /\ ~overwritten => charge.attempts <= 1 /\ (charge.status = "REQUIRES_ACTION" => charge.attempts = 0)

StockFits == released \in Nat /\ released <= 1 /\ (order = "PLACED" => released = 0)

PaymentInv == HandsFit /\ ChargeFits /\ StockFits
-----------------------------------------------------------------------------
LEMMA PaymentBegins == PaymentInit => PaymentInv
BY DEF PaymentInit, PaymentInv, HandsFit, ChargeFits, StockFits, People

\* One person's hand changes and the payment does not.
LEMMA HandChanges ==
  ASSUME HandsFit, NEW p \in People, NEW h, hand' = [hand EXCEPT ![p] = h],
         h # None => Fits(h, charge.status), charge' = charge
  PROVE  HandsFit'
<1>1. DOMAIN hand' = People /\ hand'[p] = h /\ \A q \in People : q # p => hand'[q] = hand[q]
  BY DEF HandsFit
<1>2. QED
  BY <1>1 DEF HandsFit

\* A person goes on to a step that is neither a call nor a commit, or stops.
LEMMA PaymentUntouched ==
  ASSUME PaymentInv, UNCHANGED <<charge, overwritten>>,
         UNCHANGED <<order, released>> \/ (order = "PLACED" /\ order' = "MERCHANT_ACCEPTED" /\ released' = released),
         \/ hand' = hand
         \/ \E p \in People : hand' = [hand EXCEPT ![p] = None]
         \/ \E p \in People, s \in { "publish", "processed", "failed" } :
              hand[p] # None /\ hand' = [hand EXCEPT ![p].step = s]
  PROVE  PaymentInv'
<1> USE DEF PaymentInv
<1>1. ChargeFits' /\ StockFits'
  BY DEF ChargeFits, StockFits
<1>2. CASE hand' = hand
  BY <1>1, <1>2 DEF HandsFit
<1>3. CASE \E p \in People : hand' = [hand EXCEPT ![p] = None]
  BY <1>1, <1>3, HandChanges
<1>4. CASE \E p \in People, s \in { "publish", "processed", "failed" } :
             hand[p] # None /\ hand' = [hand EXCEPT ![p].step = s]
  <2>1. PICK p \in People, s \in { "publish", "processed", "failed" } :
          hand[p] # None /\ hand' = [hand EXCEPT ![p] = [hand[p] EXCEPT !.step = s]]
    BY <1>4
  <2>2. Fits([hand[p] EXCEPT !.step = s], charge.status)
    BY <2>1 DEF HandsFit, Fits, HandFields
  <2>3. QED
    BY <1>1, <2>1, <2>2, HandChanges
<1>5. QED
  BY <1>2, <1>3, <1>4

LEMMA Taken ==
  ASSUME PaymentInv, NEW p \in People, NEW h, hand' = [hand EXCEPT ![p] = h],
         h # None => Fits(h, charge.status), UNCHANGED <<charge, order, released, overwritten>>
  PROVE  PaymentInv'
BY HandChanges DEF PaymentInv, ChargeFits, StockFits

LEMMA Committed ==
  ASSUME PaymentInv, NEW p \in People, CommitOutcome(p)
  PROVE  PaymentInv'
<1> USE DEF PaymentInv
<1>1. /\ hand[p] # None /\ hand[p].step = "commit" /\ hand[p].target \in Outcomes /\ DOMAIN hand[p] = HandFields
      /\ ~hand[p].old => charge.status = "REQUIRES_ACTION"
  BY DEF CommitOutcome, At, HandsFit, Fits
<1>2. /\ charge' = [status |-> hand[p].target, reference |-> hand[p].ref, attempts |-> charge.attempts + 1]
      /\ overwritten' = (overwritten \/ hand[p].old)
      /\ (order = "PLACED" /\ order' = "CANCELLED" /\ released' = released + 1) \/ UNCHANGED <<order, released>>
      /\ hand' = [q \in DOMAIN hand |->
           IF q = p THEN [hand[p] EXCEPT !.step = "publish"]
           ELSE IF At(q, { "commit" }) THEN [hand[q] EXCEPT !.old = TRUE] ELSE hand[q]]
  BY DEF CommitOutcome, BacksOut
<1>3. ChargeFits'
  <2>1. charge'.status = hand[p].target /\ charge'.attempts = charge.attempts + 1
        /\ DOMAIN charge' = { "status", "reference", "attempts" }
    BY <1>2
  <2>2. ~overwritten' => ~overwritten /\ charge.status = "REQUIRES_ACTION"
    BY <1>1, <1>2
  <2>3. QED
    BY <1>1, <2>1, <2>2 DEF ChargeFits, Outcomes, Abandoned
<1>4. StockFits'
  BY <1>2 DEF StockFits
<1>5. HandsFit'
  <2>1. DOMAIN hand' = People
    BY <1>2 DEF HandsFit
  <2>2. ASSUME NEW q \in People, hand'[q] # None PROVE Fits(hand'[q], charge'.status)
    <3>1. CASE q = p
      <4>1. hand'[q] = [hand[p] EXCEPT !.step = "publish"]
        BY <1>2, <3>1 DEF HandsFit
      <4>2. QED
        BY <1>1, <4>1 DEF Fits, HandFields
    <3>2. CASE q # p /\ At(q, { "commit" })
      <4>1. hand'[q] = [hand[q] EXCEPT !.old = TRUE] /\ hand[q] # None /\ Fits(hand[q], charge.status)
        BY <1>2, <3>2 DEF HandsFit, At
      <4>2. QED
        BY <4>1 DEF Fits, HandFields
    <3>3. CASE q # p /\ ~At(q, { "commit" })
      <4>1. hand'[q] = hand[q] /\ hand[q] # None /\ hand[q].step # "commit"
        BY <1>2, <2>2, <3>3 DEF HandsFit, At
      <4>2. QED
        BY <4>1 DEF HandsFit, Fits
    <3>4. QED
      BY <3>1, <3>2, <3>3
  <2>3. QED
    BY <2>1, <2>2 DEF HandsFit
<1>6. QED
  BY <1>3, <1>4, <1>5
-----------------------------------------------------------------------------
LEMMA Begins ==
  ASSUME PaymentInv,
         \/ \E c \in Clerks, j \in ReportJobs : TakeReport(c, j)
         \/ \E a \in Admins, t \in { "SUCCEEDED" } \cup Abandoned, ref \in { None, "ref2" } : AdminActs(a, t, ref)
  PROVE  PaymentInv'
<1>1. ASSUME NEW c \in Clerks, NEW j \in ReportJobs, TakeReport(c, j) PROVE PaymentInv'
  <2> DEFINE h == [job |-> j, target |-> Normalized(KindOf(j.row).words), step |-> Disposition(KindOf(j.row)),
                   ref |-> KindOf(j.row).ref, old |-> FALSE]
  <2>1. hand' = [hand EXCEPT ![c] = None] \/ hand' = [hand EXCEPT ![c] = h]
    BY <1>1 DEF TakeReport
  <2>2. UNCHANGED <<charge, order, released, overwritten>>
    BY <1>1 DEF TakeReport
  <2>3. h.step # "commit" /\ (h.step = "call" => h.target \in Outcomes)
    BY DEF Disposition, Normalized, Outcomes, Abandoned
  <2>4. Fits(h, charge.status)
    BY <2>3 DEF Fits, HandFields
  <2> HIDE DEF h
  <2>5. QED
    BY <2>1, <2>2, <2>4, Taken, c \in People DEF People
<1>2. ASSUME NEW a \in Admins, NEW t \in { "SUCCEEDED" } \cup Abandoned, NEW ref \in { None, "ref2" }, AdminActs(a, t, ref)
      PROVE  PaymentInv'
  <2> DEFINE h == [job |-> None, target |-> t, step |-> "call", ref |-> ref, old |-> FALSE]
  <2>1. hand' = [hand EXCEPT ![a] = h] /\ UNCHANGED <<charge, order, released, overwritten>>
    BY <1>2 DEF AdminActs
  <2>2. Fits(h, charge.status)
    BY DEF Fits, HandFields, Outcomes
  <2> HIDE DEF h
  <2>3. QED
    BY <2>1, <2>2, Taken, a \in People DEF People
<1>3. QED
  BY <1>1, <1>2

LEMMA Called ==
  ASSUME PaymentInv, NEW p \in People, Call(p) PROVE PaymentInv'
<1>1. hand[p] # None /\ hand[p].step = "call" /\ Fits(hand[p], charge.status)
  BY DEF Call, At, PaymentInv, HandsFit
<1>2. UNCHANGED <<charge, order, released, overwritten>>
  BY DEF Call
<1>3. AllowedFrom(charge.status) => charge.status = "REQUIRES_ACTION"
  BY DEF AllowedFrom, PaymentInv, ChargeFits, Outcomes, Abandoned
<1>4. QED
  <2>1. CASE IsThere(hand[p].target)
    <3> DEFINE h == [hand[p] EXCEPT !.step = "processed"]
    <3>1. hand' = [hand EXCEPT ![p] = h]
      BY <1>1, <2>1 DEF Call, PaymentInv, HandsFit
    <3>2. Fits(h, charge.status)
      BY <1>1, <1>3, <2>1 DEF Fits, HandFields
    <3> HIDE DEF h
    <3>3. QED
      BY <1>2, <3>1, <3>2, Taken
  <2>2. CASE ~IsThere(hand[p].target) /\ ~AllowedFrom(charge.status)
    <3> DEFINE h == [hand[p] EXCEPT !.step = "failed"]
    <3>1. hand' = [hand EXCEPT ![p] = h]
      BY <1>1, <2>2 DEF Call, PaymentInv, HandsFit
    <3>2. Fits(h, charge.status)
      BY <1>1, <1>3, <2>2 DEF Fits, HandFields
    <3> HIDE DEF h
    <3>3. QED
      BY <1>2, <3>1, <3>2, Taken
  <2>3. CASE ~IsThere(hand[p].target) /\ AllowedFrom(charge.status)
    <3>0. PICK x : hand' = [hand EXCEPT ![p] = [hand[p] EXCEPT !.step = "commit", !.ref = x]]
      BY <1>1, <2>3 DEF Call, PaymentInv, HandsFit
    <3> DEFINE h == [hand[p] EXCEPT !.step = "commit", !.ref = x]
    <3>1. hand' = [hand EXCEPT ![p] = h]
      BY <3>0
    <3>2. Fits(h, charge.status)
      BY <1>1, <1>3, <2>3 DEF Fits, HandFields
    <3> HIDE DEF h
    <3>3. QED
      BY <1>2, <3>1, <3>2, Taken
  <2>4. QED
    BY <2>1, <2>2, <2>3

LEMMA PaymentStays == ASSUME PaymentInv, [PaymentNext]_paymentVars PROVE PaymentInv'
<1>1. ASSUME NEW e \in Reports, Ingest(e) PROVE PaymentInv'
  BY <1>1, PaymentUntouched DEF Ingest
<1>2. ASSUME NEW r \in RowIds, QueueReport(r) \/ WebhookDies(r) PROVE PaymentInv'
  BY <1>2, PaymentUntouched DEF QueueReport, WebhookDies
<1>3. ASSUME NEW c \in Clerks, MarkReport(c) \/ MarkFailedReport(c) \/ ClerkDies(c) PROVE PaymentInv'
  <2>1. hand' = [hand EXCEPT ![c] = None] /\ UNCHANGED <<charge, order, released, overwritten>>
    BY <1>3 DEF MarkReport, MarkFailedReport, ClerkDies, Lays
  <2>2. QED
    BY <2>1, PaymentUntouched, c \in People DEF People
<1>4. ASSUME NEW p \in People, PublishOutcome(p) \/ LifecycleFails(p) PROVE PaymentInv'
  <2>1. /\ UNCHANGED <<charge, order, released, overwritten>> /\ hand[p] # None
        /\ \E s \in { "processed", "failed" } : hand' = [hand EXCEPT ![p].step = s]
    BY <1>4 DEF PublishOutcome, LifecycleFails, Turn, At
  <2>2. QED
    BY <2>1, PaymentUntouched
<1>5. ASSUME NEW a \in Admins, Leaves(a) PROVE PaymentInv'
  <2>1. hand' = [hand EXCEPT ![a] = None] /\ UNCHANGED <<charge, order, released, overwritten>>
    BY <1>5 DEF Leaves, Lays
  <2>2. QED
    BY <2>1, PaymentUntouched, a \in People DEF People
<1>6. CASE MerchantAccepts
  BY <1>6, PaymentUntouched DEF MerchantAccepts
<1>7. CASE UNCHANGED paymentVars
  BY <1>7, PaymentUntouched DEF paymentVars
<1>8. QED
  BY <1>1, <1>2, <1>3, <1>4, <1>5, <1>6, <1>7, Begins, Called, Committed DEF PaymentNext, People

\* Whose step changes the payment.
LEMMA OnlyCommitsWrite ==
  ASSUME PaymentNext, charge' # charge PROVE \E p \in People : CommitOutcome(p)
BY DEF PaymentNext, Ingest, QueueReport, WebhookDies, TakeReport, MarkReport, MarkFailedReport, ClerkDies, Call,
       PublishOutcome, LifecycleFails, Leaves, AdminActs, MerchantAccepts, People

LEMMA OverwrittenByOldReads ==
  ASSUME PaymentInv, [PaymentNext]_paymentVars, charge.status # "REQUIRES_ACTION", charge'.status # charge.status
  PROVE  \E p \in Clerks \cup Admins : At(p, { "commit" }) /\ hand[p].old /\ hand'[p] # hand[p]
<1>1. PaymentNext /\ charge' # charge
  BY DEF paymentVars
<1>2. PICK p \in People : CommitOutcome(p)
  BY <1>1, OnlyCommitsWrite
<1>3. At(p, { "commit" }) /\ hand[p] # None /\ hand[p].step = "commit" /\ Fits(hand[p], charge.status)
  BY <1>2 DEF CommitOutcome, At, PaymentInv, HandsFit
<1>4. hand'[p] = [hand[p] EXCEPT !.step = "publish"]
  BY <1>2 DEF CommitOutcome, PaymentInv, HandsFit
<1>5. hand'[p].step = "publish"
  BY <1>3, <1>4 DEF Fits, HandFields
<1>6. QED
  BY <1>3, <1>5 DEF Fits, People

\* The outcome of a payment is changed by nobody but who read the payment
\* before the outcome was there, whoever reports and decides
\* (payment-lifecycle.service.ts:170).
THEOREM OutcomeStays == PaymentSpec => OutcomeIsFinal
<1>1. PaymentInv /\ [PaymentNext]_paymentVars => PaymentInv'
  BY PaymentStays
<1>2. PaymentInv /\ [PaymentNext]_paymentVars =>
        [charge.status # "REQUIRES_ACTION" /\ charge'.status # charge.status =>
           \E p \in Clerks \cup Admins : At(p, { "commit" }) /\ hand[p].old /\ hand'[p] # hand[p]]_paymentVars
  BY OverwrittenByOldReads
<1>3. QED
  BY PaymentBegins, <1>1, <1>2, PTL DEF PaymentSpec, OutcomeIsFinal

\* A payment is finished by one attempt and the stock of its order comes back
\* at most once, unless two attempts overlapped, whatever is delivered, run
\* again or lost.
THEOREM EffectHappensOnce == PaymentSpec => []EffectOnce
<1>1. PaymentInv /\ [PaymentNext]_paymentVars => PaymentInv'
  BY PaymentStays
<1>2. PaymentInv => EffectOnce
  BY DEF PaymentInv, ChargeFits, StockFits, EffectOnce
<1>3. QED
  BY PaymentBegins, <1>1, <1>2, PTL DEF PaymentSpec
-----------------------------------------------------------------------------
(***************************************************************************)
(* The proof that reports, payment and order agree.  What a clerk makes of *)
(* a report is decided by the report's kind and by what the payment was    *)
(* when it was asked; a row says the same once the clerk has gone.  A      *)
(* report of an outcome is under way until there is an outcome: every way  *)
(* of laying it down leads through the payment, or through a failure.      *)
(***************************************************************************)
RowsFit ==
  /\ report \in [Reports -> Kinds] /\ event \in [RowIds -> EventRow \cup { None }]
  /\ \E n \in 0..MaxRows : Stored = 1..n
  /\ owed \in [RowIds -> 0..1] /\ reportQueue \in [ReportJobs -> Nat]
  /\ \A r \in RowIds : owed[r] > 0 => r \in Stored
  /\ \A j \in ReportJobs : reportQueue[j] > 0 => j.row \in Stored
  /\ charge.reference \in { None, "ref1", "ref2" }
  /\ hand \in [People -> HandRow \cup { None }]
  /\ \A c \in Clerks : hand[c] # None => hand[c].job \in ReportJobs /\ hand[c].job.row \in Stored

\* A report of an outcome that names its payment.
Acts(k) == k.named /\ k.own /\ Normalized(k.words) \notin { None, "PENDING" }

\* What a clerk makes of a report of kind k while the payment has this status.
TurnFits(h, k, status, over, damaged) ==
  /\ h.target = Normalized(k.words)
  /\ h.step \in { "call", "commit", "publish", "processed", "failed" } => k.own /\ h.target \in Outcomes
  /\ h.step \in { "publish", "processed" } => status \in Outcomes /\ (~over => status = h.target)
  /\ h.step = "failed" /\ ~damaged => status \in Outcomes /\ (~over => status # h.target)
  /\ h.step = "ignore" => ~Acts(k)
  /\ h.step = "mismatch" => ~k.own

ClerksFit ==
  \A c \in Clerks : hand[c] # None =>
    TurnFits(hand[c], KindOf(hand[c].job.row), charge.status, overwritten, hand[c].job.row \in hurt)

MarkFits(mark, k, status, over) ==
  /\ mark = "PROCESSED" => status \in Outcomes /\ (~over => status = Normalized(k.words))
  /\ mark = "FAILED" /\ k.own => status \in Outcomes /\ (~over => status # Normalized(k.words))
  /\ mark = "IGNORED" => ~Acts(k)

MarksFit == \A r \in Stored \ hurt : MarkFits(event[r].status, KindOf(r), charge.status, overwritten)

AwaitedFit ==
  \A r \in Stored \ hurt : Acts(KindOf(r)) /\ charge.status = "REQUIRES_ACTION" => UnderwayReport(r)

OrderFits ==
  order \in { "PLACED", "MERCHANT_ACCEPTED", "CANCELLED" } /\ OrderFollowsPayment

ReportsInv == RowsFit /\ ClerksFit /\ MarksFit /\ AwaitedFit /\ OrderFits
-----------------------------------------------------------------------------
LEMMA ReportsBegin == PaymentInit => ReportsInv
<1> SUFFICES ASSUME PaymentInit PROVE ReportsInv
  OBVIOUS
<1>1. Stored = {}
  BY DEF PaymentInit, Stored
<1>2. RowsFit
  <2>1. Stored = 1..0 /\ 0 \in 0..MaxRows
    BY <1>1, PaymentAssumption
  <2>2. QED
    BY <2>1 DEF PaymentInit, RowsFit, People
<1>3. ClerksFit /\ MarksFit /\ AwaitedFit
  BY <1>1 DEF PaymentInit, ClerksFit, MarksFit, AwaitedFit
<1>4. OrderFits
  BY DEF PaymentInit, OrderFits, OrderFollowsPayment, Abandoned
<1>5. QED
  BY <1>2, <1>3, <1>4 DEF ReportsInv

\* The reports and rows that there are stay, and so does an outcome: it is
\* written over one only by somebody who is overtaken.
ReportsStay ==
  /\ report' = report /\ \A r \in Stored : r \in Stored' /\ event'[r].report = event[r].report
  /\ hurt \subseteq hurt'
  /\ \/ charge'.status = charge.status /\ overwritten' = overwritten
     \/ charge'.status \in Outcomes /\ (~overwritten' => charge.status = "REQUIRES_ACTION")

LEMMA TurnStillFits ==
  ASSUME ReportsStay, NEW h, NEW k, NEW b \in BOOLEAN, NEW d \in BOOLEAN, b => d,
         TurnFits(h, k, charge.status, overwritten, b)
  PROVE  TurnFits(h, k, charge'.status, overwritten', d)
<1>1. CASE charge'.status = charge.status /\ overwritten' = overwritten
  BY <1>1 DEF TurnFits
<1>2. CASE charge'.status \in Outcomes /\ (~overwritten' => charge.status = "REQUIRES_ACTION")
  BY <1>2 DEF TurnFits, Outcomes, Abandoned
<1>3. QED
  BY <1>1, <1>2 DEF ReportsStay

LEMMA MarkStillFits ==
  ASSUME ReportsStay, NEW m, NEW k, MarkFits(m, k, charge.status, overwritten)
  PROVE  MarkFits(m, k, charge'.status, overwritten')
<1>1. CASE charge'.status = charge.status /\ overwritten' = overwritten
  BY <1>1 DEF MarkFits
<1>2. CASE charge'.status \in Outcomes /\ (~overwritten' => charge.status = "REQUIRES_ACTION")
  BY <1>2 DEF MarkFits, Outcomes, Abandoned
<1>3. QED
  BY <1>1, <1>2 DEF ReportsStay

LEMMA KindsStay ==
  ASSUME ReportsStay, NEW r \in Stored PROVE KindOf(r)' = KindOf(r)
BY DEF ReportsStay, KindOf

\* A clerk's turn fits if it did, or if it is a new one that does.
LEMMA ClerksStay ==
  ASSUME ReportsInv, ReportsStay,
         \A c \in Clerks : hand'[c] # None =>
           \/ hand[c] # None /\ hand'[c] = hand[c]
           \/ /\ hand'[c].job \in ReportJobs /\ hand'[c].job.row \in Stored
              /\ TurnFits(hand'[c], KindOf(hand'[c].job.row), charge'.status, overwritten', hand'[c].job.row \in hurt')
  PROVE  ClerksFit'
<1> SUFFICES ASSUME NEW c \in Clerks, hand'[c] # None
             PROVE  TurnFits(hand'[c], KindOf(hand[c].job.row)', charge'.status, overwritten', hand'[c].job.row \in hurt')
  BY DEF ClerksFit, KindOf
<1>1. CASE hand[c] # None /\ hand'[c] = hand[c]
  <2>1. hand[c].job.row \in Stored /\ TurnFits(hand[c], KindOf(hand[c].job.row), charge.status, overwritten, hand[c].job.row \in hurt)
    BY <1>1 DEF ReportsInv, ClerksFit, RowsFit
  <2>2. TurnFits(hand[c], KindOf(hand[c].job.row), charge'.status, overwritten', hand[c].job.row \in hurt')
    <3> DEFINE b == hand[c].job.row \in hurt   d == hand[c].job.row \in hurt'
    <3>1. b \in BOOLEAN /\ d \in BOOLEAN /\ (b => d)
      BY DEF ReportsStay
    <3>2. TurnFits(hand[c], KindOf(hand[c].job.row), charge.status, overwritten, b)
      BY <2>1
    <3> HIDE DEF b, d
    <3>3. TurnFits(hand[c], KindOf(hand[c].job.row), charge'.status, overwritten', d)
      BY <3>1, <3>2, TurnStillFits
    <3>4. QED
      BY <3>3 DEF d
  <2>3. event'[hand[c].job.row].report = event[hand[c].job.row].report /\ report' = report
    BY <2>1 DEF ReportsStay
  <2>4. QED
    BY <1>1, <2>2, <2>3 DEF KindOf
<1>2. CASE /\ hand'[c].job \in ReportJobs /\ hand'[c].job.row \in Stored
           /\ TurnFits(hand'[c], KindOf(hand'[c].job.row), charge'.status, overwritten', hand'[c].job.row \in hurt')
  <2>1. event'[hand'[c].job.row].report = event[hand'[c].job.row].report /\ report' = report
    BY <1>2 DEF ReportsStay
  <2>2. QED
    BY <1>2, <2>1 DEF KindOf
<1>3. QED
  BY <1>1, <1>2

LEMMA MarksStay ==
  ASSUME ReportsInv, ReportsStay,
         \A r \in Stored' \ hurt' :
           \/ r \in Stored /\ event'[r].status = event[r].status
           \/ MarkFits(event'[r].status, KindOf(r)', charge'.status, overwritten')
  PROVE  MarksFit'
<1> SUFFICES ASSUME NEW r \in Stored' \ hurt' PROVE MarkFits(event'[r].status, KindOf(r)', charge'.status, overwritten')
  BY DEF MarksFit
<1>1. CASE r \in Stored /\ event'[r].status = event[r].status
  <2>1. r \in Stored \ hurt
    BY <1>1 DEF ReportsStay
  <2>2. MarkFits(event[r].status, KindOf(r), charge.status, overwritten)
    BY <2>1 DEF ReportsInv, MarksFit
  <2>3. MarkFits(event[r].status, KindOf(r), charge'.status, overwritten')
    BY <2>2, MarkStillFits
  <2>4. KindOf(r)' = KindOf(r)
    BY <1>1, KindsStay
  <2>5. QED
    BY <1>1, <2>3, <2>4
<1>2. QED
  BY <1>1

\* A report that awaits its effect is still under way.
LEMMA AwaitedStays ==
  ASSUME ReportsInv, ReportsStay,
         \A r \in Stored' \ hurt' :
           Acts(KindOf(r)') /\ charge'.status = "REQUIRES_ACTION" =>
             UnderwayReport(r)' \/ (r \in Stored /\ (UnderwayReport(r) => UnderwayReport(r)'))
  PROVE  AwaitedFit'
<1> SUFFICES ASSUME NEW r \in Stored' \ hurt', Acts(KindOf(r)'), charge'.status = "REQUIRES_ACTION", r \in Stored,
                    UnderwayReport(r) => UnderwayReport(r)'
             PROVE  UnderwayReport(r)'
  BY DEF AwaitedFit
<1>1. r \in Stored \ hurt /\ charge.status = "REQUIRES_ACTION"
  BY DEF ReportsStay, Outcomes, Abandoned
<1>2. Acts(KindOf(r))
  BY KindsStay
<1>3. QED
  BY <1>1, <1>2 DEF ReportsInv, AwaitedFit

\* One person's turn changes and the rows do not.
LEMMA TurnMoves ==
  ASSUME ReportsInv, NEW p \in People, NEW h \in HandRow \cup { None }, hand' = [hand EXCEPT ![p] = h],
         UNCHANGED <<report, event, owed, charge, order, overwritten>>, hurt \subseteq hurt',
         reportQueue' \in [ReportJobs -> Nat], \A j \in ReportJobs : reportQueue'[j] > 0 => j.row \in Stored,
         p \in Clerks /\ h # None =>
           /\ h.job \in ReportJobs /\ h.job.row \in Stored
           /\ TurnFits(h, KindOf(h.job.row), charge.status, overwritten, h.job.row \in hurt'),
         \A r \in Stored \ hurt' :
           Acts(KindOf(r)) /\ charge.status = "REQUIRES_ACTION" /\ UnderwayReport(r) => UnderwayReport(r)'
  PROVE  ReportsInv'
<1> USE DEF ReportsInv
<1>1. Stored' = Stored /\ \A r \in Stored : KindOf(r)' = KindOf(r)
  BY DEF Stored, KindOf
<1>2. ReportsStay
  BY <1>1 DEF ReportsStay
<1>3. \A q \in People : (q = p => hand'[q] = h) /\ (q # p => hand'[q] = hand[q])
  BY DEF RowsFit
<1>4. RowsFit'
  <2>1. hand' \in [People -> HandRow \cup { None }]
    BY DEF RowsFit
  <2>2. \A c \in Clerks : hand'[c] # None => hand'[c].job \in ReportJobs /\ hand'[c].job.row \in Stored
    BY <1>3 DEF RowsFit, People
  <2>3. QED
    BY <1>1, <2>1, <2>2 DEF RowsFit
<1>5. ClerksFit'
  <2>1. \A c \in Clerks : hand'[c] # None =>
           \/ hand[c] # None /\ hand'[c] = hand[c]
           \/ /\ hand'[c].job \in ReportJobs /\ hand'[c].job.row \in Stored
              /\ TurnFits(hand'[c], KindOf(hand'[c].job.row), charge'.status, overwritten', hand'[c].job.row \in hurt')
    BY <1>3 DEF People
  <2>2. QED
    BY <1>2, <2>1, ClerksStay
<1>6. MarksFit'
  BY <1>1, <1>2, MarksStay
<1>7. AwaitedFit'
  <2>1. \A r \in Stored' \ hurt' :
           Acts(KindOf(r)') /\ charge'.status = "REQUIRES_ACTION" =>
             UnderwayReport(r)' \/ (r \in Stored /\ (UnderwayReport(r) => UnderwayReport(r)'))
    BY <1>1
  <2>2. QED
    BY <1>2, <2>1, AwaitedStays
<1>8. OrderFits'
  BY DEF OrderFits, OrderFollowsPayment
<1>9. QED
  BY <1>4, <1>5, <1>6, <1>7, <1>8

LEMMA ReportTaken ==
  ASSUME ReportsInv, NEW c \in Clerks, NEW j \in ReportJobs, TakeReport(c, j) PROVE ReportsInv'
<1> USE DEF ReportsInv
<1> DEFINE k == KindOf(j.row)
           h == [job |-> j, target |-> Normalized(k.words), step |-> Disposition(k), ref |-> k.ref, old |-> FALSE]
<1>1. /\ hand[c] = None /\ reportQueue[j] > 0 /\ reportQueue' = [reportQueue EXCEPT ![j] = reportQueue[j] - 1]
      /\ IF event[j.row].status # "RECEIVED" THEN hand' = [hand EXCEPT ![c] = None] ELSE hand' = [hand EXCEPT ![c] = h]
      /\ UNCHANGED <<report, event, owed, charge, order, overwritten, hurt>>
  BY DEF TakeReport
<1>2. /\ reportQueue' \in [ReportJobs -> Nat] /\ \A i \in ReportJobs : reportQueue'[i] > 0 => i.row \in Stored
      /\ j.row \in Stored /\ j.row \in RowIds /\ c \in People
      /\ \A i \in ReportJobs : i # j => reportQueue'[i] = reportQueue[i]
  <2>1. reportQueue \in [ReportJobs -> Nat] /\ reportQueue[j] \in Nat
    BY DEF RowsFit
  <2>2. \A i \in ReportJobs : reportQueue'[i] = IF i = j THEN reportQueue[j] - 1 ELSE reportQueue[i]
    BY <1>1, <2>1
  <2>3. reportQueue' \in [ReportJobs -> Nat]
    BY <1>1, <2>1
  <2>4. j.row \in Stored /\ \A i \in ReportJobs : reportQueue[i] > 0 => i.row \in Stored
    BY <1>1 DEF RowsFit
  <2>5. j.row \in RowIds
    BY DEF ReportJobs
  <2>6. \A i \in ReportJobs : reportQueue'[i] > 0 => i.row \in Stored
    BY <2>2, <2>4
  <2>7. QED
    BY <2>2, <2>3, <2>4, <2>5, <2>6 DEF People
<1>3. k \in ReportKind /\ event[j.row] \in EventRow
  BY <1>2, PaymentAssumption DEF RowsFit, Stored, KindOf, EventRow
<1>4. h \in HandRow
  BY <1>3 DEF HandRow, ReportKind, Normalized, Disposition
<1>5. TurnFits(h, k, charge.status, overwritten, j.row \in hurt')
  BY <1>3 DEF TurnFits, Disposition, Normalized, Acts, Outcomes, Abandoned, Resolves
<1>6. \A q \in People : q # c => hand'[q] = hand[q]
  BY <1>1 DEF RowsFit
<1>7. \A r \in RowIds : r # j.row /\ UnderwayReport(r) => UnderwayReport(r)'
  BY <1>1, <1>2, <1>6 DEF UnderwayReport, People
<1>8. CASE event[j.row].status # "RECEIVED"
  <2>1. PICK x \in HandRow \cup { None } : x = None
    OBVIOUS
  <2>2. hand' = [hand EXCEPT ![c] = x]
    BY <1>1, <1>8, <2>1
  <2>3. j.row \notin hurt /\ Acts(k) => charge.status # "REQUIRES_ACTION"
    <3>1. j.row \notin hurt => MarkFits(event[j.row].status, k, charge.status, overwritten)
      BY <1>2 DEF MarksFit
    <3>2. QED
      BY <1>3, <1>8, <3>1 DEF MarkFits, EventRow, Acts, Outcomes, Abandoned
  <2>4. \A r \in Stored \ hurt' :
           Acts(KindOf(r)) /\ charge.status = "REQUIRES_ACTION" /\ UnderwayReport(r) => UnderwayReport(r)'
    BY <1>1, <1>7, <2>3 DEF Stored
  <2>5. QED
    BY <1>1, <1>2, <2>1, <2>2, <2>4, TurnMoves
<1>9. CASE event[j.row].status = "RECEIVED"
  <2>1. hand' = [hand EXCEPT ![c] = h] /\ h.job = j
    BY <1>1, <1>9
  <2>2. h # None
    BY <1>4, PaymentAssumption
  <2>3. hand'[c] = h
    BY <2>1, <1>2 DEF RowsFit
  <2>4. UnderwayReport(j.row)'
    BY <2>1, <2>2, <2>3 DEF UnderwayReport
  <2>5. \A r \in Stored \ hurt' :
           Acts(KindOf(r)) /\ charge.status = "REQUIRES_ACTION" /\ UnderwayReport(r) => UnderwayReport(r)'
    BY <1>7, <2>4 DEF Stored
  <2> HIDE DEF h
  <2>6. QED
    BY <1>1, <1>2, <1>4, <1>5, <2>1, <2>5, TurnMoves
<1>10. QED
  BY <1>8, <1>9

LEMMA AdminBegins ==
  ASSUME ReportsInv, NEW a \in Admins, NEW t \in { "SUCCEEDED" } \cup Abandoned, NEW ref \in { None, "ref2" }, AdminActs(a, t, ref)
  PROVE  ReportsInv'
<1> USE DEF ReportsInv
<1> DEFINE h == [job |-> None, target |-> t, step |-> "call", ref |-> ref, old |-> FALSE]
<1>1. hand' = [hand EXCEPT ![a] = h] /\ UNCHANGED <<report, event, owed, reportQueue, charge, order, overwritten, hurt>>
  BY DEF AdminActs
<1>2. h \in HandRow /\ a \in People /\ a \notin Clerks
  BY PaymentAssumption DEF HandRow, People, Abandoned
<1> HIDE DEF h
<1>3. \A c \in Clerks : hand'[c] = hand[c]
  BY <1>1, <1>2 DEF RowsFit, People
<1>4. \A r \in Stored : UnderwayReport(r) => UnderwayReport(r)'
  BY <1>1, <1>3 DEF UnderwayReport
<1>5. reportQueue' \in [ReportJobs -> Nat] /\ \A j \in ReportJobs : reportQueue'[j] > 0 => j.row \in Stored
  BY <1>1 DEF RowsFit
<1>6. QED
  BY <1>1, <1>2, <1>4, <1>5, TurnMoves

\* Somebody goes on with what is in hand.
LEMMA GoesOn ==
  ASSUME ReportsInv, NEW p \in People, hand[p] # None, NEW h \in HandRow, h.job = hand[p].job,
         hand' = [hand EXCEPT ![p] = h], UNCHANGED <<report, event, owed, reportQueue, charge, order, overwritten>>,
         hurt \subseteq hurt',
         p \in Clerks => TurnFits(h, KindOf(hand[p].job.row), charge.status, overwritten, hand[p].job.row \in hurt')
  PROVE  ReportsInv'
<1> USE DEF ReportsInv
<1>1. p \in Clerks => h.job \in ReportJobs /\ h.job.row \in Stored
  BY DEF RowsFit
<1>2. h # None /\ \A q \in People : (q = p => hand'[q] = h) /\ (q # p => hand'[q] = hand[q])
  BY PaymentAssumption DEF RowsFit
<1>3. \A c \in Clerks : hand[c] # None => hand'[c] # None /\ hand'[c].job = hand[c].job
  BY <1>2 DEF People
<1>4. \A r \in Stored : UnderwayReport(r) => UnderwayReport(r)'
  BY <1>3 DEF UnderwayReport
<1>5. reportQueue' \in [ReportJobs -> Nat] /\ \A j \in ReportJobs : reportQueue'[j] > 0 => j.row \in Stored
  BY DEF RowsFit
<1>6. QED
  BY <1>1, <1>4, <1>5, TurnMoves

LEMMA CallMade ==
  ASSUME ReportsInv, PaymentInv, NEW p \in People, Call(p) PROVE ReportsInv'
<1>1. /\ hand[p] # None /\ hand[p].step = "call" /\ hand[p] \in HandRow
      /\ UNCHANGED <<report, event, owed, reportQueue, charge, order, overwritten, hurt>>
  BY DEF Call, At, ReportsInv, RowsFit
<1>2. p \in Clerks => TurnFits(hand[p], KindOf(hand[p].job.row), charge.status, overwritten, hand[p].job.row \in hurt)
  BY <1>1 DEF ReportsInv, ClerksFit
<1>3. ~AllowedFrom(charge.status) => charge.status \in Outcomes
  BY DEF AllowedFrom, PaymentInv, ChargeFits
<1>4. charge.reference \in { None, "ref1", "ref2" }
  BY DEF ReportsInv, RowsFit
<1>5. CASE IsThere(hand[p].target)
  <2> DEFINE h == [hand[p] EXCEPT !.step = "processed"]
  <2>1. hand' = [hand EXCEPT ![p] = h]
    BY <1>1, <1>5 DEF Call, ReportsInv, RowsFit
  <2>2. h \in HandRow /\ h.job = hand[p].job
    BY <1>1 DEF HandRow
  <2>3. p \in Clerks => TurnFits(h, KindOf(hand[p].job.row), charge.status, overwritten, hand[p].job.row \in hurt')
    BY <1>1, <1>2, <1>5 DEF TurnFits, IsThere, HandRow
  <2> HIDE DEF h
  <2>4. QED
    BY <1>1, <2>1, <2>2, <2>3, GoesOn
<1>6. CASE ~IsThere(hand[p].target) /\ AllowedFrom(charge.status)
  <2>1. PICK x \in { charge.reference, hand[p].ref } :
          hand' = [hand EXCEPT ![p] = [hand[p] EXCEPT !.step = "commit", !.ref = x]]
    BY <1>1, <1>6 DEF Call, HandRow
  <2>2. x \in { None, "ref1", "ref2" }
    BY <1>1, <1>4 DEF HandRow
  <2> DEFINE h == [hand[p] EXCEPT !.step = "commit", !.ref = x]
  <2>3. hand' = [hand EXCEPT ![p] = h]
    BY <2>1
  <2>4. h \in HandRow /\ h.job = hand[p].job
    BY <1>1, <2>2 DEF HandRow
  <2>5. p \in Clerks => TurnFits(h, KindOf(hand[p].job.row), charge.status, overwritten, hand[p].job.row \in hurt')
    BY <1>1, <1>2 DEF TurnFits, HandRow
  <2> HIDE DEF h
  <2>6. QED
    BY <1>1, <2>3, <2>4, <2>5, GoesOn
<1>7. CASE ~IsThere(hand[p].target) /\ ~AllowedFrom(charge.status)
  <2> DEFINE h == [hand[p] EXCEPT !.step = "failed"]
  <2>1. hand' = [hand EXCEPT ![p] = h]
    BY <1>1, <1>7 DEF Call, ReportsInv, RowsFit
  <2>2. h \in HandRow /\ h.job = hand[p].job
    BY <1>1 DEF HandRow
  <2>3. p \in Clerks => TurnFits(h, KindOf(hand[p].job.row), charge.status, overwritten, hand[p].job.row \in hurt')
    BY <1>1, <1>2, <1>3, <1>7 DEF TurnFits, IsThere, HandRow
  <2> HIDE DEF h
  <2>4. QED
    BY <1>1, <2>1, <2>2, <2>3, GoesOn
<1>8. QED
  BY <1>5, <1>6, <1>7

LEMMA OutcomePublished ==
  ASSUME ReportsInv, NEW p \in People, PublishOutcome(p) PROVE ReportsInv'
<1> DEFINE h == [hand[p] EXCEPT !.step = "processed"]
<1>1. /\ hand[p] # None /\ hand[p].step = "publish" /\ hand[p] \in HandRow
      /\ UNCHANGED <<report, event, owed, reportQueue, charge, order, overwritten, hurt>>
  BY DEF PublishOutcome, At, ReportsInv, RowsFit
<1>2. hand' = [hand EXCEPT ![p] = h]
  BY <1>1 DEF PublishOutcome, Turn, ReportsInv, RowsFit
<1>3. h \in HandRow /\ h.job = hand[p].job
  BY <1>1 DEF HandRow
<1>4. p \in Clerks => TurnFits(h, KindOf(hand[p].job.row), charge.status, overwritten, hand[p].job.row \in hurt')
  BY <1>1 DEF ReportsInv, ClerksFit, TurnFits, HandRow
<1> HIDE DEF h
<1>5. QED
  BY <1>1, <1>2, <1>3, <1>4, GoesOn

LEMMA TurnFails ==
  ASSUME ReportsInv, NEW p \in People, LifecycleFails(p) PROVE ReportsInv'
<1> DEFINE h == [hand[p] EXCEPT !.step = "failed"]
<1>1. /\ hand[p] # None /\ hand[p].step \in { "call", "commit", "publish" } /\ hand[p] \in HandRow
      /\ UNCHANGED <<report, event, owed, reportQueue, charge, order, overwritten>>
      /\ hurt' = IF p \in Clerks THEN hurt \cup { hand[p].job.row } ELSE hurt
  BY DEF LifecycleFails, At, ReportsInv, RowsFit
<1>2. hand' = [hand EXCEPT ![p] = h]
  BY <1>1 DEF LifecycleFails, Turn, ReportsInv, RowsFit
<1>3. h \in HandRow /\ h.job = hand[p].job
  BY <1>1 DEF HandRow
<1>4. p \in Clerks => TurnFits(h, KindOf(hand[p].job.row), charge.status, overwritten, hand[p].job.row \in hurt')
  BY <1>1 DEF ReportsInv, ClerksFit, TurnFits, HandRow
<1>5. hurt \subseteq hurt'
  BY <1>1
<1> HIDE DEF h
<1>6. QED
  BY <1>1, <1>2, <1>3, <1>4, <1>5, GoesOn

LEMMA AdminLeaves ==
  ASSUME ReportsInv, NEW a \in Admins, Leaves(a) PROVE ReportsInv'
<1> USE DEF ReportsInv
<1>1. hand' = [hand EXCEPT ![a] = None] /\ UNCHANGED <<report, event, owed, reportQueue, charge, order, overwritten, hurt>>
  BY DEF Leaves, Lays
<1>2. PICK x \in HandRow \cup { None } : x = None
  OBVIOUS
<1>3. a \in People /\ a \notin Clerks
  BY PaymentAssumption DEF People
<1>4. \A c \in Clerks : hand'[c] = hand[c]
  BY <1>1, <1>3 DEF RowsFit, People
<1>5. \A r \in Stored : UnderwayReport(r) => UnderwayReport(r)'
  BY <1>1, <1>4 DEF UnderwayReport
<1>6. reportQueue' \in [ReportJobs -> Nat] /\ \A j \in ReportJobs : reportQueue'[j] > 0 => j.row \in Stored
  BY <1>1 DEF RowsFit
<1>7. QED
  BY <1>1, <1>2, <1>3, <1>5, <1>6, TurnMoves

\* The queue takes a job for its next attempt.
LEMMA QueuedAgain ==
  ASSUME ReportsInv, NEW j \in ReportJobs, j.row \in Stored, Again(j)
  PROVE  /\ reportQueue' \in [ReportJobs -> Nat]
         /\ \A i \in ReportJobs : reportQueue'[i] >= reportQueue[i] /\ (reportQueue'[i] > 0 => i.row \in Stored)
<1>1. reportQueue \in [ReportJobs -> Nat] /\ \A i \in ReportJobs : reportQueue[i] > 0 => i.row \in Stored
  BY DEF ReportsInv, RowsFit
<1>2. CASE j.attempt < MaxReportTries
  <2> DEFINE k == [j EXCEPT !.attempt = j.attempt + 1]
  <2>1. k \in ReportJobs /\ k.row = j.row
    BY <1>2, PaymentAssumption DEF ReportJobs
  <2>2. reportQueue' = [reportQueue EXCEPT ![k] = reportQueue[k] + 1]
    BY <1>2 DEF Again
  <2> HIDE DEF k
  <2>3. QED
    BY <1>1, <2>1, <2>2
<1>3. CASE ~(j.attempt < MaxReportTries)
  BY <1>1, <1>3 DEF Again
<1>4. QED
  BY <1>2, <1>3

LEMMA ClerkGoes ==
  ASSUME ReportsInv, NEW c \in Clerks, ClerkDies(c) PROVE ReportsInv'
<1> USE DEF ReportsInv
<1>1. /\ hand[c] # None /\ hand' = [hand EXCEPT ![c] = None] /\ Again(hand[c].job)
      /\ hurt' = hurt \cup { hand[c].job.row } /\ UNCHANGED <<report, event, owed, charge, order, overwritten>>
  BY DEF ClerkDies, Lays
<1>2. hand[c].job \in ReportJobs /\ hand[c].job.row \in Stored /\ c \in People
  BY <1>1 DEF RowsFit, People
<1>3. /\ reportQueue' \in [ReportJobs -> Nat]
      /\ \A i \in ReportJobs : reportQueue'[i] >= reportQueue[i] /\ (reportQueue'[i] > 0 => i.row \in Stored)
  BY <1>1, <1>2, QueuedAgain
<1>4. PICK x \in HandRow \cup { None } : x = None
  OBVIOUS
<1>5. \A q \in People : q # c => hand'[q] = hand[q]
  BY <1>1 DEF RowsFit
<1>6. \A i \in ReportJobs : reportQueue[i] > 0 => reportQueue'[i] > 0
  BY <1>3 DEF RowsFit
<1>7. \A r \in Stored \ hurt' : UnderwayReport(r) => UnderwayReport(r)'
  BY <1>1, <1>5, <1>6 DEF UnderwayReport, People
<1>8. QED
  BY <1>1, <1>2, <1>3, <1>4, <1>7, TurnMoves

\* A clerk marks the report and goes.
LEMMA MarkedAndGone ==
  ASSUME ReportsInv, NEW c \in Clerks, hand[c] # None, NEW m \in { "PROCESSED", "FAILED", "IGNORED" },
         MarkEvent(c, m), hand' = [hand EXCEPT ![c] = None], UNCHANGED <<report, owed, charge, order, overwritten, hurt>>,
         reportQueue' = reportQueue \/ Again(hand[c].job),
         LET k == KindOf(hand[c].job.row) IN
           hand[c].job.row \notin hurt =>
             MarkFits(m, k, charge.status, overwritten) /\ (Acts(k) => charge.status # "REQUIRES_ACTION")
  PROVE  ReportsInv'
<1> USE DEF ReportsInv
<1> DEFINE n == hand[c].job.row
<1>1. hand[c].job \in ReportJobs /\ n \in Stored /\ n \in RowIds /\ event[n] \in EventRow /\ c \in People
  BY DEF RowsFit, People, Stored
<1>2. event' = [event EXCEPT ![n].status = m]
  BY DEF MarkEvent
<1> DEFINE row == [event[n] EXCEPT !.status = m]
<1>3. row \in EventRow /\ row.report = event[n].report /\ row.status = m
  BY <1>1 DEF EventRow
<1>4. row # None
  BY <1>3, PaymentAssumption
<1>5. event' \in [RowIds -> EventRow \cup { None }] /\ \A r \in RowIds : event'[r] = IF r = n THEN row ELSE event[r]
  BY <1>1, <1>2, <1>3 DEF RowsFit
<1> HIDE DEF row
<1>6. Stored' = Stored
  BY <1>1, <1>4, <1>5 DEF Stored
<1>7. \A r \in Stored : event'[r].report = event[r].report /\ KindOf(r)' = KindOf(r)
  BY <1>3, <1>5 DEF Stored, KindOf
<1>8. ReportsStay
  BY <1>6, <1>7 DEF ReportsStay
<1>9. /\ reportQueue' \in [ReportJobs -> Nat]
      /\ \A i \in ReportJobs : reportQueue'[i] >= reportQueue[i] /\ (reportQueue'[i] > 0 => i.row \in Stored)
  <2>1. CASE reportQueue' = reportQueue
    BY <2>1 DEF RowsFit
  <2>2. CASE Again(hand[c].job)
    BY <1>1, <2>2, QueuedAgain
  <2>3. QED
    BY <2>1, <2>2
<1>10. hand' \in [People -> HandRow \cup { None }] /\ \A q \in People : hand'[q] = IF q = c THEN None ELSE hand[q]
  <2>1. hand \in [People -> HandRow \cup { None }]
    BY DEF RowsFit
  <2>2. QED
    BY <1>1, <2>1
<1>11. RowsFit'
  <2>1. \A d \in Clerks : hand'[d] # None => hand'[d].job \in ReportJobs /\ hand'[d].job.row \in Stored
    BY <1>10 DEF RowsFit, People
  <2>2. QED
    BY <1>5, <1>6, <1>9, <1>10, <2>1 DEF RowsFit
<1>12. ClerksFit'
  <2>1. \A d \in Clerks : hand'[d] # None => hand[d] # None /\ hand'[d] = hand[d]
    BY <1>10 DEF People
  <2>2. QED
    BY <1>8, <2>1, ClerksStay
<1>13. MarksFit'
  <2>1. \A r \in Stored' \ hurt' :
           \/ r \in Stored /\ event'[r].status = event[r].status
           \/ MarkFits(event'[r].status, KindOf(r)', charge'.status, overwritten')
    BY <1>3, <1>5, <1>6, <1>7 DEF Stored
  <2>2. QED
    BY <1>8, <2>1, MarksStay
<1>14. AwaitedFit'
  <2>1. \A r \in Stored \ hurt : r # n /\ UnderwayReport(r) => UnderwayReport(r)'
    <3>1. \A i \in ReportJobs : reportQueue[i] > 0 => reportQueue'[i] > 0
      BY <1>9 DEF RowsFit
    <3>2. QED
      BY <1>10, <3>1 DEF UnderwayReport, People
  <2>2. \A r \in Stored' \ hurt' :
           Acts(KindOf(r)') /\ charge'.status = "REQUIRES_ACTION" =>
             UnderwayReport(r)' \/ (r \in Stored /\ (UnderwayReport(r) => UnderwayReport(r)'))
    BY <1>6, <1>7, <2>1
  <2>3. QED
    BY <1>8, <2>2, AwaitedStays
<1>15. OrderFits'
  BY DEF OrderFits, OrderFollowsPayment
<1>16. QED
  BY <1>11, <1>12, <1>13, <1>14, <1>15

LEMMA ReportMarked ==
  ASSUME ReportsInv, NEW c \in Clerks, MarkReport(c) \/ MarkFailedReport(c) PROVE ReportsInv'
<1>1. hand[c] # None /\ hand[c] \in HandRow /\ c \in People
  BY DEF MarkReport, MarkFailedReport, At, ReportsInv, RowsFit, People
<1>2. TurnFits(hand[c], KindOf(hand[c].job.row), charge.status, overwritten, hand[c].job.row \in hurt)
  BY <1>1 DEF ReportsInv, ClerksFit
<1>3. /\ hand' = [hand EXCEPT ![c] = None]
      /\ UNCHANGED <<report, owed, charge, order, overwritten, hurt>>
  BY DEF MarkReport, MarkFailedReport, Lays
<1>4. CASE MarkReport(c)
  <2> DEFINE m == [processed |-> "PROCESSED", ignore |-> "IGNORED", mismatch |-> "FAILED"][hand[c].step]
  <2>1. MarkEvent(c, m) /\ hand[c].step \in { "processed", "ignore", "mismatch" } /\ reportQueue' = reportQueue
    BY <1>4 DEF MarkReport, At
  <2>2. m = IF hand[c].step = "processed" THEN "PROCESSED" ELSE IF hand[c].step = "ignore" THEN "IGNORED" ELSE "FAILED"
    BY <2>1
  <2> HIDE DEF m
  <2>3. m \in { "PROCESSED", "FAILED", "IGNORED" }
    BY <2>2
  <2>4. LET k == KindOf(hand[c].job.row) IN
          MarkFits(m, k, charge.status, overwritten) /\ (Acts(k) => charge.status # "REQUIRES_ACTION")
    BY <1>2, <2>1, <2>2 DEF TurnFits, MarkFits, Acts, Outcomes, Abandoned
  <2>5. QED
    BY <1>1, <1>3, <2>1, <2>3, <2>4, MarkedAndGone
<1>5. CASE MarkFailedReport(c)
  <2>1. MarkEvent(c, "FAILED") /\ hand[c].step = "failed" /\ Again(hand[c].job)
    BY <1>5 DEF MarkFailedReport, At
  <2>2. LET k == KindOf(hand[c].job.row) IN
          hand[c].job.row \notin hurt =>
            MarkFits("FAILED", k, charge.status, overwritten) /\ (Acts(k) => charge.status # "REQUIRES_ACTION")
    BY <1>2, <2>1 DEF TurnFits, MarkFits, Acts, Outcomes, Abandoned
  <2>3. QED
    BY <1>1, <1>3, <2>1, <2>2, MarkedAndGone
<1>6. QED
  BY <1>4, <1>5

LEMMA OutcomeCommitted ==
  ASSUME ReportsInv, PaymentInv, NEW p \in People, CommitOutcome(p) PROVE ReportsInv'
<1> USE DEF ReportsInv
<1>1. /\ hand[p] # None /\ hand[p].step = "commit" /\ hand[p] \in HandRow /\ hand[p].target \in Outcomes
      /\ ~hand[p].old => charge.status = "REQUIRES_ACTION"
  BY DEF CommitOutcome, At, PaymentInv, HandsFit, Fits, RowsFit
<1>2. /\ charge'.status = hand[p].target /\ charge'.reference = hand[p].ref
      /\ overwritten' = (overwritten \/ hand[p].old)
      /\ UNCHANGED <<report, event, owed, reportQueue, hurt>>
      /\ hand' = [q \in DOMAIN hand |->
           IF q = p THEN [hand[p] EXCEPT !.step = "publish"]
           ELSE IF At(q, { "commit" }) THEN [hand[q] EXCEPT !.old = TRUE] ELSE hand[q]]
  BY DEF CommitOutcome
<1>3. ~overwritten' => ~overwritten /\ charge.status = "REQUIRES_ACTION"
  BY <1>1, <1>2
<1>4. Stored' = Stored /\ \A r \in Stored : KindOf(r)' = KindOf(r)
  BY <1>2 DEF Stored, KindOf
<1>5. ReportsStay
  BY <1>1, <1>2, <1>3, <1>4 DEF ReportsStay
<1>6. \A q \in People :
        /\ hand[q] = None => hand'[q] = None
        /\ hand[q] # None =>
             /\ hand'[q] \in HandRow /\ hand'[q].job = hand[q].job /\ hand'[q].target = hand[q].target
             /\ hand'[q].step = IF q = p THEN "publish" ELSE hand[q].step
  <2> SUFFICES ASSUME NEW q \in People
               PROVE  /\ hand[q] = None => hand'[q] = None
                      /\ hand[q] # None =>
                           /\ hand'[q] \in HandRow /\ hand'[q].job = hand[q].job /\ hand'[q].target = hand[q].target
                           /\ hand'[q].step = IF q = p THEN "publish" ELSE hand[q].step
    OBVIOUS
  <2>1. hand[q] \in HandRow \cup { None } /\ DOMAIN hand = People
    BY DEF RowsFit
  <2>2. CASE q = p
    <3>1. hand'[q] = [hand[p] EXCEPT !.step = "publish"]
      BY <1>2, <2>1, <2>2
    <3>2. QED
      BY <1>1, <2>2, <3>1 DEF HandRow
  <2>3. CASE q # p /\ At(q, { "commit" })
    <3>1. hand'[q] = [hand[q] EXCEPT !.old = TRUE] /\ hand[q] # None
      BY <1>2, <2>1, <2>3 DEF At
    <3>2. QED
      BY <2>1, <2>3, <3>1 DEF HandRow
  <2>4. CASE q # p /\ ~At(q, { "commit" })
    BY <1>2, <2>1, <2>4
  <2>5. QED
    BY <2>2, <2>3, <2>4
<1>7. \A c \in Clerks : c \in People
  BY DEF People
<1>8. RowsFit'
  <2>1. DOMAIN hand' = People /\ hand' = [q \in People |-> hand'[q]]
    BY <1>2 DEF RowsFit
  <2>2. \A q \in People : hand'[q] \in HandRow \cup { None }
    BY <1>6
  <2>3. hand' \in [People -> HandRow \cup { None }]
    BY <2>1, <2>2
  <2>4. \A c \in Clerks : hand'[c] # None => hand'[c].job \in ReportJobs /\ hand'[c].job.row \in Stored
    BY <1>6, <1>7 DEF RowsFit
  <2>5. charge'.reference \in { None, "ref1", "ref2" }
    BY <1>1, <1>2 DEF HandRow
  <2>6. QED
    BY <1>2, <1>4, <2>3, <2>4, <2>5 DEF RowsFit
<1>9. ClerksFit'
  <2>1. ASSUME NEW c \in Clerks, hand'[c] # None
        PROVE  /\ hand'[c].job \in ReportJobs /\ hand'[c].job.row \in Stored
               /\ TurnFits(hand'[c], KindOf(hand'[c].job.row), charge'.status, overwritten', hand'[c].job.row \in hurt')
    <3>1. hand[c] # None /\ hand'[c].job = hand[c].job /\ hand'[c].target = hand[c].target
          /\ hand'[c].step = IF c = p THEN "publish" ELSE hand[c].step
      BY <1>6, <1>7, <2>1
    <3>2. hand[c].job \in ReportJobs /\ hand[c].job.row \in Stored
      BY <3>1 DEF RowsFit
    <3>3. TurnFits(hand[c], KindOf(hand[c].job.row), charge.status, overwritten, hand[c].job.row \in hurt)
      BY <3>1 DEF ClerksFit
    <3> DEFINE b == hand[c].job.row \in hurt
    <3>4. TurnFits(hand[c], KindOf(hand[c].job.row), charge'.status, overwritten', hand[c].job.row \in hurt)
      <4>1. b \in BOOLEAN /\ TurnFits(hand[c], KindOf(hand[c].job.row), charge.status, overwritten, b)
        BY <3>3
      <4> HIDE DEF b
      <4>2. TurnFits(hand[c], KindOf(hand[c].job.row), charge'.status, overwritten', b)
        BY <1>5, <4>1, TurnStillFits
      <4>3. QED
        BY <4>2 DEF b
    <3>5. TurnFits(hand'[c], KindOf(hand[c].job.row), charge'.status, overwritten', hand[c].job.row \in hurt)
      BY <1>1, <1>2, <3>1, <3>4 DEF TurnFits
    <3>6. QED
      BY <1>2, <3>1, <3>2, <3>5
  <2>2. QED
    BY <1>5, <2>1, ClerksStay
<1>10. MarksFit'
  BY <1>2, <1>4, <1>5, MarksStay
<1>11. AwaitedFit'
  <2>1. charge'.status # "REQUIRES_ACTION"
    BY <1>1, <1>2 DEF Outcomes, Abandoned
  <2>2. QED
    BY <2>1 DEF AwaitedFit
<1>12. OrderFits'
  <2>1. IF BacksOut(hand[p].target) THEN order' = "CANCELLED" ELSE order' = order
    BY DEF CommitOutcome
  <2>2. QED
    BY <1>1, <1>2, <1>3, <2>1 DEF OrderFits, OrderFollowsPayment, BacksOut, Outcomes, Abandoned
<1>13. QED
  BY <1>8, <1>9, <1>10, <1>11, <1>12
-----------------------------------------------------------------------------
(* The webhook and the merchant.                                            *)

\* A request of the webhook, or the merchant: what the clerks have in hand
\* does not change, and no outcome is written.
LEMMA OutsideStep ==
  ASSUME ReportsInv, UNCHANGED <<report, charge, hand, overwritten>>, hurt \subseteq hurt', RowsFit', OrderFits',
         \A r \in Stored : event'[r] = event[r] /\ r \in Stored',
         \A r \in Stored' \ Stored : event'[r].status = "RECEIVED" /\ UnderwayReport(r)',
         \A r \in Stored \ hurt' : UnderwayReport(r) => UnderwayReport(r)'
  PROVE  ReportsInv'
<1>1. ReportsStay
  BY DEF ReportsStay
<1>2. ClerksFit'
  BY <1>1, ClerksStay
<1>3. MarksFit'
  <2>1. \A r \in Stored' \ hurt' :
           \/ r \in Stored /\ event'[r].status = event[r].status
           \/ MarkFits(event'[r].status, KindOf(r)', charge'.status, overwritten')
    BY DEF MarkFits
  <2>2. QED
    BY <1>1, <2>1, MarksStay
<1>4. AwaitedFit'
  <2>1. \A r \in Stored' \ hurt' :
           Acts(KindOf(r)') /\ charge'.status = "REQUIRES_ACTION" =>
             UnderwayReport(r)' \/ (r \in Stored /\ (UnderwayReport(r) => UnderwayReport(r)'))
    OBVIOUS
  <2>2. QED
    BY <1>1, <2>1, AwaitedStays
<1>5. QED
  BY <1>2, <1>3, <1>4 DEF ReportsInv

LEMMA ReportIngested ==
  ASSUME ReportsInv, NEW e \in Reports, Ingest(e) PROVE ReportsInv'
<1> USE DEF ReportsInv
<1>1. PICK r \in RowIds :
        /\ IF Known(e) # {} THEN r \in Known(e) /\ UNCHANGED event
           ELSE /\ r = Cardinality(Stored) + 1
                /\ event' = [event EXCEPT ![r] = [report |-> e, status |-> "RECEIVED"]]
        /\ owed[r] = 0 /\ owed' = [owed EXCEPT ![r] = 1]
        /\ UNCHANGED <<report, reportQueue, charge, order, released, hand, overwritten, hurt, failures>>
  BY DEF Ingest
<1>2. PICK n \in 0..MaxRows : Stored = 1..n
  BY DEF RowsFit
<1>3. owed' \in [RowIds -> 0..1] /\ \A q \in RowIds : owed'[q] = IF q = r THEN 1 ELSE owed[q]
  BY <1>1 DEF RowsFit
<1>4. UnderwayReport(r)' /\ \A q \in RowIds : UnderwayReport(q) => UnderwayReport(q)'
  BY <1>1, <1>3 DEF UnderwayReport, RowsFit
<1>5. /\ event' \in [RowIds -> EventRow \cup { None }] /\ r \in Stored'
      /\ \A q \in Stored : event'[q] = event[q] /\ q \in Stored'
      /\ \A q \in Stored' \ Stored : q = r /\ event'[q].status = "RECEIVED"
      /\ \E m \in 0..MaxRows : Stored' = 1..m
  <2>1. CASE Known(e) # {}
    <3>1. event' = event /\ r \in Stored
      BY <1>1, <2>1 DEF Known
    <3>2. Stored' = Stored
      BY <3>1 DEF Stored
    <3>3. QED
      BY <3>1, <3>2 DEF RowsFit
  <2>2. CASE Known(e) = {}
    <3> DEFINE row == [report |-> e, status |-> "RECEIVED"]
    <3>1. row \in EventRow /\ row.status = "RECEIVED"
      BY DEF EventRow
    <3>2. event' = [event EXCEPT ![r] = row]
      BY <1>1, <2>2
    <3>3. r = n + 1
      <4>1. Cardinality(1..n) = n
        BY FS_Interval, PaymentAssumption
      <4>2. QED
        BY <1>1, <1>2, <2>2, <4>1
    <3>4. row # None
      BY <3>1, PaymentAssumption
    <3> HIDE DEF row
    <3>5. event' \in [RowIds -> EventRow \cup { None }] /\ \A q \in RowIds : event'[q] = IF q = r THEN row ELSE event[q]
      BY <3>1, <3>2 DEF RowsFit
    <3>6. r \notin Stored
      BY <1>2, <3>3, PaymentAssumption
    <3>7. Stored' = Stored \cup { r }
      BY <1>1, <3>4, <3>5 DEF Stored
    <3>8. n + 1 \in 0..MaxRows /\ Stored' = 1..(n + 1)
      BY <1>2, <3>3, <3>7, PaymentAssumption DEF RowIds
    <3>9. \A q \in Stored : q \in RowIds
      BY DEF Stored
    <3>10. QED
      BY <3>1, <3>5, <3>6, <3>7, <3>8, <3>9
  <2>3. QED
    BY <2>1, <2>2
<1>6. RowsFit'
  <2>1. /\ \A q \in RowIds : owed'[q] > 0 => q \in Stored'
        /\ \A j \in ReportJobs : reportQueue'[j] > 0 => j.row \in Stored'
        /\ \A c \in Clerks : hand'[c] # None => hand'[c].job \in ReportJobs /\ hand'[c].job.row \in Stored'
    BY <1>1, <1>3, <1>5 DEF RowsFit
  <2>2. QED
    BY <1>1, <1>3, <1>5, <2>1 DEF RowsFit
<1>7. OrderFits'
  BY <1>1 DEF OrderFits, OrderFollowsPayment
<1>8. \A q \in Stored : q \in RowIds
  BY DEF Stored
<1>9. QED
  BY <1>1, <1>4, <1>5, <1>6, <1>7, <1>8, OutsideStep

LEMMA ReportQueued ==
  ASSUME ReportsInv, NEW r \in RowIds, QueueReport(r) \/ WebhookDies(r) PROVE ReportsInv'
<1> USE DEF ReportsInv
<1>1. /\ owed[r] > 0 /\ owed' = [owed EXCEPT ![r] = 0] /\ UNCHANGED <<report, event, charge, order, hand, overwritten>>
      /\ hurt \subseteq hurt'
  BY DEF QueueReport, WebhookDies
<1>2. owed' \in [RowIds -> 0..1] /\ \A q \in RowIds : owed'[q] = IF q = r THEN 0 ELSE owed[q]
  BY <1>1 DEF RowsFit
<1>3. r \in Stored /\ Stored' = Stored
  BY <1>1 DEF RowsFit, Stored
<1>4. /\ reportQueue' \in [ReportJobs -> Nat]
      /\ \A j \in ReportJobs : reportQueue'[j] >= reportQueue[j] /\ (reportQueue'[j] > 0 => j.row \in Stored)
      /\ r \notin hurt' => \E j \in ReportJobs : j.row = r /\ reportQueue'[j] > 0
  <2>1. reportQueue \in [ReportJobs -> Nat] /\ \A j \in ReportJobs : reportQueue[j] > 0 => j.row \in Stored
    BY DEF RowsFit
  <2>2. CASE QueueReport(r)
    <3> DEFINE k == [row |-> r, attempt |-> 1]
    <3>1. reportQueue' = [reportQueue EXCEPT ![k] = reportQueue[k] + 1]
      BY <2>2 DEF QueueReport
    <3>2. k.row = r
      OBVIOUS
    <3>3. k \in ReportJobs
      BY PaymentAssumption DEF ReportJobs
    <3> HIDE DEF k
    <3>4. QED
      BY <1>3, <2>1, <3>1, <3>2, <3>3
  <2>3. CASE WebhookDies(r)
    BY <2>1, <2>3 DEF WebhookDies
  <2>4. QED
    BY <2>2, <2>3
<1>5. RowsFit'
  BY <1>1, <1>2, <1>3, <1>4 DEF RowsFit
<1>6. OrderFits'
  BY <1>1 DEF OrderFits, OrderFollowsPayment
<1>7. \A q \in Stored \ hurt' : UnderwayReport(q) => UnderwayReport(q)'
  <2>1. \A j \in ReportJobs : reportQueue[j] > 0 => reportQueue'[j] > 0
    BY <1>4 DEF RowsFit
  <2>2. QED
    BY <1>1, <1>2, <1>4, <2>1 DEF UnderwayReport, Stored
<1>8. QED
  BY <1>1, <1>3, <1>5, <1>6, <1>7, OutsideStep

LEMMA OrderAccepted == ASSUME ReportsInv, MerchantAccepts PROVE ReportsInv'
<1> USE DEF ReportsInv
<1>1. UNCHANGED <<report, event, owed, reportQueue, charge, hand, overwritten, hurt>>
      /\ order = "PLACED" /\ order' = "MERCHANT_ACCEPTED"
  BY DEF MerchantAccepts
<1>2. Stored' = Stored
  BY <1>1 DEF Stored
<1>3. RowsFit'
  BY <1>1, <1>2 DEF RowsFit
<1>4. OrderFits'
  BY <1>1 DEF OrderFits, OrderFollowsPayment
<1>5. \A r \in Stored \ hurt' : UnderwayReport(r) => UnderwayReport(r)'
  BY <1>1 DEF UnderwayReport
<1>6. QED
  BY <1>1, <1>2, <1>3, <1>4, <1>5, OutsideStep

LEMMA ReportsRest == ASSUME ReportsInv, UNCHANGED paymentVars PROVE ReportsInv'
<1> USE DEF ReportsInv
<1>1. UNCHANGED <<report, event, owed, reportQueue, charge, order, hand, overwritten, hurt>>
  BY DEF paymentVars
<1>2. Stored' = Stored
  BY <1>1 DEF Stored
<1>3. RowsFit' /\ OrderFits'
  BY <1>1, <1>2 DEF RowsFit, OrderFits, OrderFollowsPayment
<1>4. \A r \in Stored \ hurt' : UnderwayReport(r) => UnderwayReport(r)'
  BY <1>1 DEF UnderwayReport
<1>5. QED
  BY <1>1, <1>2, <1>3, <1>4, OutsideStep

LEMMA ReportsInvStep == ASSUME PaymentInv, ReportsInv, [PaymentNext]_paymentVars PROVE ReportsInv'
<1>1. CASE PaymentNext
  BY <1>1, ReportIngested, ReportQueued, ReportTaken, ReportMarked, ClerkGoes, CallMade, OutcomeCommitted,
     OutcomePublished, TurnFails, AdminLeaves, AdminBegins, OrderAccepted DEF PaymentNext, People
<1>2. QED
  BY <1>1, ReportsRest

LEMMA PaymentsFit == ASSUME PaymentInv, ReportsInv PROVE PaymentsAgree
<1> USE DEF ReportsInv
<1>1. PaymentsTypeOK
  <2>1. report \in [Reports -> ReportKind]
    BY PaymentAssumption DEF RowsFit
  <2>2. \A r \in Stored : event[r].status \in { "RECEIVED", "PROCESSED", "FAILED", "IGNORED" }
    <3>1. \A r \in Stored : event[r] \in EventRow
      BY DEF RowsFit, Stored
    <3>2. QED
      BY <3>1 DEF EventRow
  <2>3. charge.status \in { "REQUIRES_ACTION", "SUCCEEDED" } \cup Abandoned
    BY DEF PaymentInv, ChargeFits, Outcomes
  <2>4. QED
    BY <2>1, <2>2, <2>3 DEF PaymentsTypeOK, RowsFit, OrderFits
<1>2. EffectOnce
  BY DEF PaymentInv, ChargeFits, StockFits, EffectOnce
<1>3. ReportAgrees
  BY DEF ReportAgrees, MarksFit, MarkFits
<1>4. ReportsTakeEffect
  BY DEF ReportsTakeEffect, AwaitedFit, Acts
<1>5. OrderFollowsPayment
  BY DEF OrderFits
<1>6. QED
  BY <1>1, <1>2, <1>3, <1>4, <1>5 DEF PaymentsAgree

\* A report acts once, its mark tells what became of it, none of an outcome is
\* passed over, and the order follows the payment, for any reports however often
\* and in whatever order they come, whoever decides beside them and whatever
\* dies, unless two decisions overlapped
\* (payment-provider-event-processor.service.ts, payment-lifecycle.service.ts).
THEOREM ReportsTold == PaymentSpec => []PaymentsAgree
<1>1. PaymentInv /\ [PaymentNext]_paymentVars => PaymentInv'
  BY PaymentStays
<1>2. PaymentInv /\ ReportsInv /\ [PaymentNext]_paymentVars => ReportsInv'
  BY ReportsInvStep
<1>3. PaymentInv /\ ReportsInv => PaymentsAgree
  BY PaymentsFit
<1>4. QED
  BY PaymentBegins, ReportsBegin, <1>1, <1>2, <1>3, PTL DEF PaymentSpec

-----------------------------------------------------------------------------
(* Sessions.  A request that is filling the cache either knows what the    *)
(* row says or has been marked as overtaken, and it began before the row   *)
(* was revoked.  A request that has written the row and not yet deleted    *)
(* the key is the only excuse of a copy that disagrees.                    *)

\* Requests agree with the clock, with themselves and with there being a row.
CallsFit ==
  \A c \in Callers : call[c] # None =>
    /\ session[call[c].s] # None
    /\ call[c].at <= clock /\ clock <= call[c].at + MaxDelay
    /\ call[c].op \in { "fill", "rotate" } => call[c].expires \in Times
    /\ call[c].op = "fill" => call[c].todo = {}
    /\ call[c].wiped => call[c].todo = { "row" }
    /\ call[c].op # "fill" /\ ~call[c].wiped => "key" \in call[c].todo

FillsFit ==
  \A c \in Callers : call[c] # None /\ call[c].op = "fill" =>
    /\ ~call[c].old => session[call[c].s].revokedAt = None /\ session[call[c].s].expires = call[c].expires
    /\ session[call[c].s].revokedAt # None => call[c].at <= session[call[c].s].revokedAt

\* A request that has written the row and has yet to delete the key.
Behind(s) == \E c \in Callers : call[c] # None /\ call[c].s = s /\ call[c].todo = { "key" }

Agrees(s) == session[s].revokedAt = None /\ copy[s].expires = session[s].expires

CopiesFit ==
  \A s \in SessionIds : copy[s] # None =>
    /\ session[s] # None /\ copy[s].until <= clock + CacheTtl
    /\ session[s].revokedAt # None => copy[s].until <= session[s].revokedAt + MaxDelay + CacheTtl
    /\ s \notin raced /\ ~Behind(s) => Agrees(s)

SessionInv == SessionTypeOK /\ CallsFit /\ FillsFit /\ CopiesFit
-----------------------------------------------------------------------------
LEMMA SessionsInit == SessionInit => SessionInv
BY SessionAssumption DEF SessionInit, SessionInv, SessionTypeOK, CallsFit, FillsFit, CopiesFit

LEMMA SessionsStep1 ==
  ASSUME SessionInv, NEW c \in Callers, NEW s \in SessionIds, IssueSession(c, s)
  PROVE  SessionInv'
<1> USE DEF SessionInv
<1> DEFINE row == [revokedAt |-> None, expires |-> clock + RefreshLife]
<1>1. /\ session[s] = None /\ session' = [session EXCEPT ![s] = row]
      /\ UNCHANGED <<copy, clock, call, raced>>
  BY DEF IssueSession
<1>2. row \in SessionRow /\ row # None
  BY SessionAssumption DEF SessionTypeOK, SessionRow, Times
<1> HIDE DEF row
<1>3. /\ \A t \in SessionIds : session[t] # None => session'[t] = session[t]
      /\ session' \in [SessionIds -> SessionRow \cup { None }]
  BY <1>1, <1>2 DEF SessionTypeOK
<1>4. SessionTypeOK'
  BY <1>1, <1>3 DEF SessionTypeOK
<1>5. \A d \in Callers : call[d] # None => call[d].s \in SessionIds /\ session'[call[d].s] = session[call[d].s]
  BY <1>3 DEF CallsFit, SessionTypeOK, CallRow
<1>6. CallsFit' /\ FillsFit'
  BY <1>1, <1>5 DEF CallsFit, FillsFit
<1>7. CopiesFit'
  BY <1>1, <1>3 DEF CopiesFit, Behind, Agrees
<1>8. QED
  BY <1>4, <1>6, <1>7

\* A request begins.
LEMMA SessionsStep2 ==
  ASSUME SessionInv, NEW c \in Callers, NEW s \in SessionIds,
         ValidateFromDb(c, s) \/ BeginRefresh(c, s) \/ BeginLogout(c, s)
  PROVE  SessionInv'
<1> USE DEF SessionInv
<1>0. /\ call[c] = None /\ session[s] # None /\ UNCHANGED <<session, copy, clock, raced>>
  BY DEF ValidateFromDb, BeginRefresh, BeginLogout, Active
<1>1. PICK k \in CallRow : /\ call' = [call EXCEPT ![c] = k]
                           /\ k.s = s /\ k.at = clock /\ ~k.wiped
                           /\ \/ k.op = "fill" /\ k.todo = {} /\ k.expires \in Times
                                 /\ session[s].revokedAt = None /\ session[s].expires = k.expires
                              \/ k.op = "rotate" /\ k.todo = { "row", "key" } /\ k.expires \in Times
                              \/ k.op = "revoke" /\ k.todo = { "row", "key" }
  <2>1. session[s] \in SessionRow /\ clock \in 0..MaxClock
    BY <1>0 DEF SessionTypeOK
  <2>5. clock + RefreshLife \in Times /\ session[s].expires \in Times
    BY <2>1, SessionAssumption DEF Times, SessionRow
  <2>2. CASE ValidateFromDb(c, s)
    <3> DEFINE k == [op |-> "fill", s |-> s, todo |-> {}, expires |-> session[s].expires,
                     at |-> clock, old |-> FALSE, wiped |-> FALSE]
    <3>1. call' = [call EXCEPT ![c] = k] /\ session[s].revokedAt = None
      BY <2>2 DEF ValidateFromDb, Active, Writes
    <3>2. k \in CallRow
      BY <2>1, <2>5 DEF CallRow
    <3>3. QED
      BY <2>1, <2>5, <3>1, <3>2
  <2>3. CASE BeginRefresh(c, s)
    <3> DEFINE k == [op |-> "rotate", s |-> s, todo |-> { "row", "key" }, expires |-> clock + RefreshLife,
                     at |-> clock, old |-> FALSE, wiped |-> FALSE]
    <3>1. call' = [call EXCEPT ![c] = k]
      BY <2>3 DEF BeginRefresh, Active, Writes
    <3>2. k \in CallRow
      BY <2>1, <2>5 DEF CallRow
    <3>3. QED
      BY <2>1, <2>5, <3>1, <3>2
  <2>4. CASE BeginLogout(c, s)
    <3> DEFINE k == [op |-> "revoke", s |-> s, todo |-> { "row", "key" }, expires |-> None,
                     at |-> clock, old |-> FALSE, wiped |-> FALSE]
    <3>1. call' = [call EXCEPT ![c] = k]
      BY <2>4 DEF BeginLogout, Active, Writes
    <3>2. k \in CallRow
      BY <2>1, <2>5 DEF CallRow
    <3>3. QED
      BY <2>1, <2>5, <3>1, <3>2
  <2>6. QED
    BY <2>2, <2>3, <2>4
<1>2. call'[c] = k /\ \A d \in Callers : d # c => call'[d] = call[d]
  BY <1>1 DEF SessionTypeOK
<1>3. SessionTypeOK'
  BY <1>0, <1>1 DEF SessionTypeOK
<1>4. CallsFit'
  BY <1>0, <1>1, <1>2, SessionAssumption DEF CallsFit, SessionTypeOK
<1>5. FillsFit'
  BY <1>0, <1>1, <1>2 DEF FillsFit
<1>6. \A t \in SessionIds : Behind(t)' <=> Behind(t)
  BY <1>0, <1>1, <1>2 DEF Behind
<1>7. CopiesFit'
  BY <1>0, <1>6 DEF CopiesFit, Agrees
<1>8. QED
  BY <1>3, <1>4, <1>5, <1>7

LEMMA TtlIsShort ==
  ASSUME NEW left \in 1..AccessLife PROVE Ttl(left) \in Nat /\ Ttl(left) <= CacheTtl
<1>1. left \in Nat /\ CacheTtl \in Nat
  BY SessionAssumption
<1>2. \E x \in { left, CacheTtl } : \A y \in { left, CacheTtl } : x =< y
  BY <1>1
<1>3. Min({ left, CacheTtl }) \in { left, CacheTtl } /\ \A y \in { left, CacheTtl } : Min({ left, CacheTtl }) =< y
  BY <1>2 DEF Min
<1>4. QED
  BY <1>1, <1>3 DEF Ttl

LEMMA SessionsStep3 ==
  ASSUME SessionInv, NEW c \in Callers, NEW left \in 1..AccessLife, FillCopy(c, left)
  PROVE  SessionInv'
<1> USE DEF SessionInv
<1> DEFINE s == call[c].s
           new == [expires |-> call[c].expires, until |-> clock + Ttl(left)]
<1>1. /\ call[c] # None /\ call[c].op = "fill" /\ UNCHANGED <<session, clock>>
      /\ copy' = [copy EXCEPT ![s] = new] /\ call' = [call EXCEPT ![c] = None]
      /\ raced' = IF call[c].old THEN raced \cup { s } ELSE raced \ { s }
  BY DEF FillCopy
<1>2. s \in SessionIds /\ clock \in Nat /\ clock <= MaxClock /\ call[c].expires \in Times /\ call[c].at \in Nat /\ call[c].old \in BOOLEAN
  BY <1>1, SessionAssumption DEF SessionTypeOK, CallRow, CallsFit
<1>3. Ttl(left) \in Nat /\ Ttl(left) <= CacheTtl
  BY TtlIsShort
<1>4. /\ new \in CopyRow /\ new # None /\ new.expires = call[c].expires
      /\ new.until \in Nat /\ new.until <= clock + CacheTtl
  BY <1>2, <1>3, SessionAssumption DEF CopyRow
<1>5. /\ session[s] # None /\ clock <= call[c].at + MaxDelay
      /\ session[s].revokedAt # None => call[c].at <= session[s].revokedAt
      /\ ~call[c].old => session[s].revokedAt = None /\ session[s].expires = call[c].expires
      /\ session[s].revokedAt # None => session[s].revokedAt \in Nat
  BY <1>1, <1>2, SessionAssumption DEF CallsFit, FillsFit, SessionTypeOK, SessionRow, Times
<1> HIDE DEF s, new
<1>6. copy'[s] = new /\ \A t \in SessionIds : t # s => copy'[t] = copy[t]
  BY <1>1, <1>2 DEF SessionTypeOK
<1>7. call'[c] = None /\ \A d \in Callers : d # c => call'[d] = call[d]
  BY <1>1 DEF SessionTypeOK
<1>8. SessionTypeOK'
  BY <1>1, <1>2, <1>4 DEF SessionTypeOK
<1>9. CallsFit' /\ FillsFit'
  BY <1>1, <1>7 DEF CallsFit, FillsFit
<1>10. \A t \in SessionIds : Behind(t)' <=> Behind(t)
  BY <1>1, <1>7 DEF Behind, CallsFit
<1>11. ASSUME NEW t \in SessionIds, copy'[t] # None
       PROVE  /\ session[t] # None /\ copy'[t].until <= clock + CacheTtl
              /\ session[t].revokedAt # None => copy'[t].until <= session[t].revokedAt + MaxDelay + CacheTtl
              /\ t \notin raced' /\ ~Behind(t) => session[t].revokedAt = None /\ copy'[t].expires = session[t].expires
  <2>1. CASE t = s
    <3>1. session[s].revokedAt # None => new.until <= session[s].revokedAt + MaxDelay + CacheTtl
      BY <1>2, <1>4, <1>5, SessionAssumption
    <3>2. s \notin raced' => ~call[c].old
      BY <1>1, <1>2
    <3>3. QED
      BY <2>1, <3>1, <3>2, <1>4, <1>5, <1>6
  <2>2. CASE t # s
    BY <1>1, <1>6, <1>11, <2>2 DEF CopiesFit, Agrees
  <2>3. QED
    BY <2>1, <2>2
<1>12. CopiesFit'
  BY <1>1, <1>10, <1>11 DEF CopiesFit, Agrees
<1>13. QED
  BY <1>8, <1>9, <1>12

-----------------------------------------------------------------------------
LEMMA MarkedOld ==
  ASSUME NEW k \in CallRow
  PROVE  /\ [k EXCEPT !.old = TRUE] \in CallRow /\ [k EXCEPT !.old = TRUE].old
         /\ LET m == [k EXCEPT !.old = TRUE] IN
            m.s = k.s /\ m.op = k.op /\ m.todo = k.todo /\ m.expires = k.expires /\ m.at = k.at /\ m.wiped = k.wiped
BY DEF CallRow

LEMMA OneWriteDone ==
  ASSUME SessionTypeOK, NEW c \in Callers, call[c] # None, NEW w \in { "row", "key" }, call[c].todo # { w }
  PROVE  /\ After(c, w) \in CallRow
         /\ After(c, w).s = call[c].s /\ After(c, w).op = call[c].op /\ After(c, w).at = call[c].at
         /\ After(c, w).expires = call[c].expires /\ After(c, w).old = call[c].old
         /\ After(c, w).todo = call[c].todo \ { w }
         /\ w = "key" => After(c, w).wiped
         /\ w = "row" => After(c, w).wiped = call[c].wiped
<1> DEFINE k == call[c]
<1>1. k \in CallRow
  BY DEF SessionTypeOK
<1>2. After(c, w) = [k EXCEPT !.todo = k.todo \ { w }, !.wiped = (k.wiped \/ w = "key")]
  BY DEF After
<1>3. k.todo \ { w } \in SUBSET { "row", "key" } /\ k.wiped \in BOOLEAN
  BY <1>1 DEF CallRow
<1> DEFINE flag == k.wiped \/ w = "key"
<1>4. flag \in BOOLEAN /\ (w = "key" => flag = TRUE) /\ (w = "row" => flag = k.wiped)
  BY <1>3
<1>5. After(c, w) = [k EXCEPT !.todo = k.todo \ { w }, !.wiped = flag]
  BY <1>2
<1> HIDE DEF flag, k
<1>6. /\ After(c, w) \in CallRow
      /\ After(c, w).s = k.s /\ After(c, w).op = k.op /\ After(c, w).at = k.at
      /\ After(c, w).expires = k.expires /\ After(c, w).old = k.old
      /\ After(c, w).todo = k.todo \ { w } /\ After(c, w).wiped = flag
  BY <1>1, <1>3, <1>4, <1>5 DEF CallRow
<1>7. QED
  BY <1>4, <1>6 DEF k

LEMMA SessionsStep4 ==
  ASSUME SessionInv, NEW c \in Callers, WriteRow(c)
  PROVE  SessionInv'
<1> USE DEF SessionInv
<1>0. call[c] # None /\ call[c] \in CallRow
  BY DEF WriteRow, SessionTypeOK
<1>s. PICK s \in SessionIds : s = call[c].s
  BY <1>0 DEF CallRow
<1> DEFINE row == IF call[c].op = "rotate" THEN [session[s] EXCEPT !.expires = call[c].expires]
                  ELSE IF session[s].revokedAt = None THEN [session[s] EXCEPT !.revokedAt = clock] ELSE session[s]
<1>1. /\ call[c] # None /\ "row" \in call[c].todo /\ UNCHANGED <<copy, clock>>
      /\ session' = [session EXCEPT ![s] = row] /\ Outdated(c, s, After(c, "row"))
      /\ raced' = IF call[c].wiped /\ copy[s] # None THEN raced \cup { s } ELSE raced
  BY <1>s DEF WriteRow
<1>2. /\ call[c] \in CallRow /\ s \in SessionIds /\ call[c].op \in { "rotate", "revoke" }
      /\ session[s] # None /\ session[s] \in SessionRow /\ clock \in 0..MaxClock
  BY <1>1, <1>s DEF SessionTypeOK, CallsFit, CallRow
<1>3. /\ row \in SessionRow
      /\ row.revokedAt = session[s].revokedAt \/ (session[s].revokedAt = None /\ row.revokedAt = clock)
  <2>1. CASE call[c].op = "rotate"
    BY <1>1, <1>2, <1>s, <2>1 DEF CallsFit, SessionRow
  <2>2. CASE call[c].op # "rotate" /\ session[s].revokedAt = None
    <3>1. clock \in Times
      BY <1>2, SessionAssumption DEF Times
    <3>2. QED
      BY <1>2, <2>2, <3>1 DEF SessionRow
  <2>3. CASE call[c].op # "rotate" /\ session[s].revokedAt # None
    BY <1>2, <2>3
  <2>4. QED
    BY <2>1, <2>2, <2>3
<1> HIDE DEF row
<1>4. row # None /\ (row.revokedAt # None => row.revokedAt \in Nat)
  BY <1>3, SessionAssumption DEF SessionRow, Times
<1>5. session'[s] = row /\ \A t \in SessionIds : t # s => session'[t] = session[t]
  BY <1>1, <1>2 DEF SessionTypeOK
<1>6. call' = [d \in Callers |->
        IF d = c THEN After(c, "row")
        ELSE IF call[d] # None /\ call[d].s = s THEN [call[d] EXCEPT !.old = TRUE] ELSE call[d]]
  BY <1>1 DEF Outdated
<1>7. /\ call[c].todo = { "row" } => call'[c] = None
      /\ call[c].todo # { "row" } => /\ call'[c] \in CallRow /\ call'[c].s = s /\ call'[c].op = call[c].op
                                     /\ call'[c].at = call[c].at /\ call'[c].expires = call[c].expires
                                     /\ call'[c].todo = { "key" } /\ ~call'[c].wiped /\ ~call[c].wiped
  <2>1. call'[c] = After(c, "row")
    BY <1>6
  <2>2. CASE call[c].todo = { "row" }
    BY <2>1, <2>2 DEF After
  <2>3. CASE call[c].todo # { "row" }
    <3>1. call[c].todo = { "row", "key" } /\ ~call[c].wiped
      BY <1>1, <1>2, <2>3 DEF CallRow, CallsFit
    <3>2. QED
      BY <1>1, <1>s, <2>1, <2>3, <3>1, OneWriteDone
  <2>4. QED
    BY <2>2, <2>3
<1>8. \A d \in Callers : d # c /\ call[d] # None =>
        /\ call'[d] \in CallRow /\ call'[d] # None
        /\ call'[d].s = call[d].s /\ call'[d].op = call[d].op /\ call'[d].todo = call[d].todo
        /\ call'[d].expires = call[d].expires /\ call'[d].at = call[d].at /\ call'[d].wiped = call[d].wiped
        /\ call[d].s = s => call'[d].old
        /\ call[d].s # s => call'[d] = call[d]
  <2> SUFFICES ASSUME NEW d \in Callers, d # c, call[d] # None
               PROVE  /\ call'[d] \in CallRow /\ call'[d] # None
                      /\ call'[d].s = call[d].s /\ call'[d].op = call[d].op /\ call'[d].todo = call[d].todo
                      /\ call'[d].expires = call[d].expires /\ call'[d].at = call[d].at /\ call'[d].wiped = call[d].wiped
                      /\ call[d].s = s => call'[d].old
                      /\ call[d].s # s => call'[d] = call[d]
    OBVIOUS
  <2>1. call[d] \in CallRow
    BY DEF SessionTypeOK
  <2>2. CASE call[d].s = s
    <3>1. call'[d] = [call[d] EXCEPT !.old = TRUE]
      BY <1>6, <2>2
    <3>2. QED
      BY <2>1, <2>2, <3>1, MarkedOld, SessionAssumption
  <2>3. CASE call[d].s # s
    BY <1>6, <2>1, <2>3
  <2>4. QED
    BY <2>2, <2>3
<1>9. \A d \in Callers : d # c /\ call[d] = None => call'[d] = None
  BY <1>6
<1>10. SessionTypeOK'
  <2>1. session' \in [SessionIds -> SessionRow \cup { None }]
    BY <1>1, <1>3 DEF SessionTypeOK
  <2>2. \A d \in Callers : call'[d] \in CallRow \cup { None }
    BY <1>7, <1>8, <1>9
  <2>3. call' \in [Callers -> CallRow \cup { None }]
    BY <1>6, <2>2
  <2>4. QED
    BY <1>1, <1>2, <2>1, <2>3 DEF SessionTypeOK
<1>11. ASSUME NEW d \in Callers, call'[d] # None PROVE call[d] # None /\ call'[d].s = call[d].s /\ call'[d].s \in SessionIds
  BY <1>1, <1>2, <1>s, <1>7, <1>8, <1>9, <1>11 DEF SessionTypeOK, CallRow
<1>12. \A t \in SessionIds : session[t] # None => session'[t] # None
  BY <1>4, <1>5
<1>13. CallsFit'
  <2> SUFFICES ASSUME NEW d \in Callers, call'[d] # None
               PROVE  /\ session'[call'[d].s] # None
                      /\ call'[d].at <= clock /\ clock <= call'[d].at + MaxDelay
                      /\ call'[d].op \in { "fill", "rotate" } => call'[d].expires \in Times
                      /\ call'[d].op = "fill" => call'[d].todo = {}
                      /\ call'[d].wiped => call'[d].todo = { "row" }
                      /\ call'[d].op # "fill" /\ ~call'[d].wiped => "key" \in call'[d].todo
    BY <1>1 DEF CallsFit
  <2>1. session'[call'[d].s] # None
    BY <1>11, <1>12 DEF CallsFit
  <2>2. CASE d = c
    BY <1>2, <1>s, <1>7, <1>11, <2>1, <2>2 DEF CallsFit
  <2>3. CASE d # c
    BY <1>8, <1>11, <2>1, <2>3 DEF CallsFit
  <2>4. QED
    BY <2>2, <2>3
<1>14. FillsFit'
  <2> SUFFICES ASSUME NEW d \in Callers, call'[d] # None, call'[d].op = "fill"
               PROVE  /\ ~call'[d].old => session'[call'[d].s].revokedAt = None /\ session'[call'[d].s].expires = call'[d].expires
                      /\ session'[call'[d].s].revokedAt # None => call'[d].at <= session'[call'[d].s].revokedAt
    BY DEF FillsFit
  <2>1. d # c /\ call[d] # None /\ call[d].op = "fill"
    BY <1>2, <1>7, <1>8, <1>11
  <2>2. CASE call[d].s = s
    BY <1>3, <1>5, <1>8, <2>1, <2>2 DEF FillsFit, CallsFit
  <2>3. CASE call[d].s # s
    BY <1>5, <1>8, <1>11, <2>1, <2>3 DEF FillsFit
  <2>4. QED
    BY <2>2, <2>3
<1>15. \A t \in SessionIds : t # s => (Behind(t)' <=> Behind(t))
  BY <1>s, <1>7, <1>8, <1>9 DEF Behind
<1>16. s \notin raced' /\ ~Behind(s)' => copy[s] = None
  <2> SUFFICES ASSUME s \notin raced', ~Behind(s)' PROVE copy[s] = None
    OBVIOUS
  <2>1. call[c].todo = { "row" }
    BY <1>1, <1>7, SessionAssumption DEF Behind
  <2>2. call[c].wiped
    BY <1>1, <1>2, <2>1 DEF CallsFit
  <2>3. QED
    BY <1>1, <2>2
<1>17. ASSUME NEW t \in SessionIds, copy'[t] # None
       PROVE  /\ session'[t] # None /\ copy'[t].until <= clock + CacheTtl
              /\ session'[t].revokedAt # None => copy'[t].until <= session'[t].revokedAt + MaxDelay + CacheTtl
              /\ t \notin raced' /\ ~Behind(t)' => session'[t].revokedAt = None /\ copy'[t].expires = session'[t].expires
  <2>1. copy'[t] = copy[t] /\ copy[t] \in CopyRow
    BY <1>1, <1>17 DEF SessionTypeOK
  <2>2. CASE t = s
    <3>1. /\ copy[s].until <= clock + CacheTtl
          /\ session[s].revokedAt # None => copy[s].until <= session[s].revokedAt + MaxDelay + CacheTtl
      BY <1>17, <2>1, <2>2 DEF CopiesFit
    <3>2. copy[s].until \in Nat /\ clock \in Nat
      BY <1>2, <2>1, <2>2, SessionAssumption DEF CopyRow
    <3>3. row.revokedAt # None => copy[s].until <= row.revokedAt + MaxDelay + CacheTtl
      BY <1>3, <1>4, <3>1, <3>2, SessionAssumption
    <3>4. QED
      BY <1>4, <1>5, <1>16, <1>17, <2>1, <2>2, <3>1, <3>3
  <2>3. CASE t # s
    BY <1>1, <1>5, <1>15, <1>17, <2>1, <2>3 DEF CopiesFit, Agrees
  <2>4. QED
    BY <2>2, <2>3
<1>18. CopiesFit'
  BY <1>1, <1>17 DEF CopiesFit, Agrees
<1>19. QED
  BY <1>10, <1>13, <1>14, <1>18

LEMMA SessionsStep5 ==
  ASSUME SessionInv, NEW c \in Callers, DeleteKey(c) \/ KeySurvives(c)
  PROVE  SessionInv'
<1> USE DEF SessionInv
<1>0. call[c] # None /\ call[c] \in CallRow /\ "key" \in call[c].todo
  BY DEF DeleteKey, KeySurvives, SessionTypeOK
<1>1. PICK s \in SessionIds : s = call[c].s
  BY <1>0 DEF CallRow
<1>2. UNCHANGED <<session, clock>> /\ call' = [call EXCEPT ![c] = After(c, "key")]
  BY DEF DeleteKey, KeySurvives
<1>3. \/ copy' = [copy EXCEPT ![s] = None] /\ raced' = raced \ { s }
      \/ copy' = copy /\ raced' = raced \cup { s }
  BY <1>1 DEF DeleteKey, KeySurvives
<1>4. \A d \in Callers : d # c => call'[d] = call[d]
  BY <1>2 DEF SessionTypeOK
<1>5. \/ call'[c] = None
      \/ /\ call'[c] \in CallRow /\ call'[c].s = s /\ call'[c].op = call[c].op /\ call[c].op # "fill"
         /\ call'[c].at = call[c].at /\ call'[c].expires = call[c].expires
         /\ call'[c].todo = { "row" } /\ call'[c].wiped
  <2>1. call'[c] = After(c, "key")
    BY <1>2 DEF SessionTypeOK
  <2>2. CASE call[c].todo = { "key" }
    BY <2>1, <2>2 DEF After
  <2>3. CASE call[c].todo # { "key" }
    <3>1. call[c].todo = { "row", "key" } /\ call[c].op # "fill"
      BY <1>0, <2>3 DEF CallRow, CallsFit
    <3>2. QED
      BY <1>0, <1>1, <2>1, <2>3, <3>1, OneWriteDone
  <2>4. QED
    BY <2>2, <2>3
<1>6. SessionTypeOK'
  <2>1. call' \in [Callers -> CallRow \cup { None }]
    BY <1>2, <1>4, <1>5 DEF SessionTypeOK
  <2>2. copy' \in [SessionIds -> CopyRow \cup { None }] /\ raced' \subseteq SessionIds
    BY <1>3 DEF SessionTypeOK
  <2>3. QED
    BY <1>2, <2>1, <2>2 DEF SessionTypeOK
<1>7. CallsFit'
  <2> SUFFICES ASSUME NEW d \in Callers, call'[d] # None
               PROVE  /\ session[call'[d].s] # None
                      /\ call'[d].at <= clock /\ clock <= call'[d].at + MaxDelay
                      /\ call'[d].op \in { "fill", "rotate" } => call'[d].expires \in Times
                      /\ call'[d].op = "fill" => call'[d].todo = {}
                      /\ call'[d].wiped => call'[d].todo = { "row" }
                      /\ call'[d].op # "fill" /\ ~call'[d].wiped => "key" \in call'[d].todo
    BY <1>2 DEF CallsFit
  <2>1. CASE d = c
    BY <1>0, <1>1, <1>5, <2>1 DEF CallsFit
  <2>2. CASE d # c
    BY <1>4, <2>2 DEF CallsFit
  <2>3. QED
    BY <2>1, <2>2
<1>8. FillsFit'
  BY <1>2, <1>4, <1>5 DEF FillsFit
<1>9. \A t \in SessionIds : t # s => (Behind(t)' <=> Behind(t))
  BY <1>0, <1>1, <1>4, <1>5 DEF Behind
<1>10. ASSUME NEW t \in SessionIds, copy'[t] # None
       PROVE  copy'[t] = copy[t] /\ (t \notin raced' /\ ~Behind(t)' => t \notin raced /\ ~Behind(t))
  <2>1. CASE t = s
    BY <1>3, <1>10, <2>1 DEF SessionTypeOK
  <2>2. CASE t # s
    BY <1>3, <1>9, <2>2 DEF SessionTypeOK
  <2>3. QED
    BY <2>1, <2>2
<1>11. CopiesFit'
  BY <1>2, <1>10 DEF CopiesFit, Agrees
<1>12. QED
  BY <1>6, <1>7, <1>8, <1>11

LEMMA SessionsStep6 == ASSUME SessionInv, TimePasses PROVE SessionInv'
<1> USE DEF SessionInv
<1>1. /\ clock < MaxClock /\ clock' = clock + 1 /\ UNCHANGED <<session, call, raced>>
      /\ \A c \in Callers : call[c] # None => clock' <= call[c].at + MaxDelay
      /\ copy' = [s \in SessionIds |-> IF copy[s] # None /\ copy[s].until <= clock' THEN None ELSE copy[s]]
  BY DEF TimePasses
<1>2. clock \in 0..MaxClock /\ clock \in Nat
  BY SessionAssumption DEF SessionTypeOK
<1>3. \A s \in SessionIds : copy'[s] # None => copy'[s] = copy[s]
  BY <1>1
<1>4. SessionTypeOK'
  <2>1. clock' \in 0..MaxClock
    BY <1>1, <1>2, SessionAssumption
  <2>2. copy' \in [SessionIds -> CopyRow \cup { None }]
    BY <1>1 DEF SessionTypeOK
  <2>3. QED
    BY <1>1, <2>1, <2>2 DEF SessionTypeOK
<1>5. CallsFit'
  <2>1. \A c \in Callers : call[c] # None => call[c].at \in Nat
    BY SessionAssumption DEF SessionTypeOK, CallRow
  <2>2. QED
    BY <1>1, <1>2, <2>1 DEF CallsFit
<1>6. FillsFit'
  BY <1>1 DEF FillsFit
<1>7. \A s \in SessionIds : Behind(s)' <=> Behind(s)
  BY <1>1 DEF Behind
<1>8. \A s \in SessionIds : copy[s] # None /\ copy[s].until <= clock + CacheTtl => copy[s].until <= (clock + 1) + CacheTtl
  <2>1. \A s \in SessionIds : copy[s] # None => copy[s].until \in Nat
    BY SessionAssumption DEF SessionTypeOK, CopyRow
  <2>2. QED
    BY <1>2, <2>1, SessionAssumption
<1>9. CopiesFit'
  BY <1>1, <1>3, <1>7, <1>8 DEF CopiesFit, Agrees
<1>10. QED
  BY <1>4, <1>5, <1>6, <1>9
-----------------------------------------------------------------------------
LEMMA SessionInvStep == ASSUME SessionInv, [SessionNext]_sessionVars PROVE SessionInv'
<1>1. CASE SessionNext
  BY <1>1, SessionsStep1, SessionsStep2, SessionsStep3, SessionsStep4, SessionsStep5, SessionsStep6 DEF SessionNext
<1>2. CASE UNCHANGED sessionVars
  BY <1>2 DEF sessionVars, SessionInv, SessionTypeOK, CallsFit, FillsFit, CopiesFit, Behind, Agrees
<1>3. QED
  BY <1>1, <1>2

LEMMA InvariantIsEnough == ASSUME SessionInv PROVE SessionsAgree
<1> USE DEF SessionInv
<1>1. CopyAgrees
  <2> SUFFICES ASSUME NEW s \in SessionIds \ raced, copy[s] # None, ~Changing(s) PROVE Agrees(s)
    BY DEF CopyAgrees, Agrees
  <2>1. ~Behind(s)
    BY DEF Behind, Changing
  <2>2. QED
    BY <2>1 DEF CopiesFit
<1>2. CopyIsShortLived
  BY DEF CopyIsShortLived, CopiesFit
<1>3. QED
  BY <1>1, <1>2 DEF SessionsAgree

\* The copy of a session in the cache says what its row says, but for what the
\* races of filling it and a Redis that is away leave behind, and that is gone
\* after MAX_CACHE_TTL_SECONDS (auth.repository.ts:187-220,
\* jwt.strategy.ts:126-149).
THEOREM CopiesAgree == SessionSpec => []SessionsAgree
<1>1. SessionInit => SessionInv
  BY SessionsInit
<1>2. SessionInv /\ [SessionNext]_sessionVars => SessionInv'
  BY SessionInvStep
<1>3. SessionInv => SessionsAgree
  BY InvariantIsEnough
<1>4. QED
  BY <1>1, <1>2, <1>3, PTL DEF SessionSpec

-----------------------------------------------------------------------------
(* Conversations.  A message that is being sent knows who has joined since  *)
(* its sender looked; a request to read knows, or is told, of every message *)
(* up to its target; a page that is shown leaves what is older.             *)

DeskRow == SendRow \cup PruneRow \cup ReadRow \cup PageRow

MessagingTypeOK ==
  /\ lane \in Lanes /\ assigned \in RiderUsers \cup { None }
  /\ members \subseteq Users \cup { "system" } /\ posted \subseteq Messages
  /\ stamps \in 0..MaxMessages
  /\ receipt \in [Messages -> [Users -> { "READ", "DELIVERED", None }]]
  /\ lastRead \in [Users -> Messages \cup { 0 }] /\ lastMessage \in Messages \cup { 0 }
  /\ desk \in [Desks -> DeskRow \cup { None }]

\* Whoever a message is not sent to has come too late.
SendFits(r) == r.op = "send" => members \ { "system" } \subseteq r.to \cup r.late /\ r.to # {}

\* What a request to read does not know of has appeared meanwhile.
ReadFits(r) ==
  r.op = "read" => \A m \in posted : (r.target = 0 \/ m <= r.target) => m \in r.ids \/ <<m, r.user>> \in overtaken

\* What a page has not shown comes after it.
PageFits(r) ==
  r.op = "page" =>
    /\ r.cursor \in posted \cup { 0 } /\ r.since \subseteq posted
    /\ \A m \in r.since : m \in r.seen \/ m < r.cursor

RowFits(r) == SendFits(r) /\ ReadFits(r) /\ PageFits(r)

DesksFit == \A d \in Desks : desk[d] # None => RowFits(desk[d])

\* Every message has somebody's receipt, which keeps it from being pruned.
ReceiptsFit == \A m \in posted : \E u \in Users : receipt[m][u] # None

MessagingInv == MessagingTypeOK /\ DesksFit /\ ReceiptsFit /\ NobodyIsSkipped /\ PointerAgrees
-----------------------------------------------------------------------------
\* The pages of a history: a page is what is newest of it, it is not empty if
\* there is anything, and what is left is older.
LEMMA PageIsNewest ==
  ASSUME MessagingTypeOK, NEW before \in Nat, NEW older, older = { m \in posted : m < before }
  PROVE  /\ Page(before) \subseteq older
         /\ older # {} => Page(before) # {}
         /\ Page(before) # {} => Min(Page(before)) \in Page(before)
         /\ \A m \in older \ Page(before) : Page(before) # {} => m < Min(Page(before))
<1> DEFINE page == Page(before)
           newer(m) == { n \in older : n > m }
<1>1. page = { m \in older : Cardinality(newer(m)) < PageSize }
  BY DEF Page
<1>2. IsFiniteSet(Messages) /\ Messages \subseteq Nat
  BY FS_Interval, MessagingAssumption DEF Messages
<1>3. older \in SUBSET Messages /\ older \subseteq Nat
  BY <1>2 DEF MessagingTypeOK
<1>4. IsFiniteSet(older)
  BY <1>2, <1>3, PartIsFinite
<1>5. page \in SUBSET older /\ page \subseteq Nat
  BY <1>1, <1>3
<1>6. IsFiniteSet(page)
  BY <1>4, <1>5, PartIsFinite
<1> HIDE DEF page
<1>7. ASSUME older # {} PROVE page # {}
  <2>1. PICK g \in older : \A m \in older : g >= m
    BY <1>3, <1>4, <1>7, Greatest
  <2>2. newer(g) = {}
    BY <1>3, <2>1
  <2>3. Cardinality(newer(g)) = 0
    BY <2>2, FS_EmptySet
  <2>4. g \in page
    BY <1>1, <2>3, MessagingAssumption
  <2>5. QED
    BY <2>4
<1>8. ASSUME NEW p \in page, NEW m \in older, m > p PROVE m \in page
  <2>1. newer(m) \in SUBSET newer(p) /\ newer(p) \in SUBSET older
    BY <1>3, <1>5, <1>8
  <2>2. IsFiniteSet(newer(p)) /\ IsFiniteSet(newer(m))
    BY <1>4, <2>1, PartIsFinite
  <2>3. /\ Cardinality(newer(m)) <= Cardinality(newer(p))
        /\ Cardinality(newer(m)) \in Nat /\ Cardinality(newer(p)) \in Nat
    <3> HIDE DEF newer
    <3>1. QED
      BY <2>1, <2>2, FS_Subset, FS_CardinalityType
  <2>4. Cardinality(newer(p)) < PageSize
    BY <1>1
  <2>5. Cardinality(newer(m)) < PageSize
    BY <2>3, <2>4, MessagingAssumption
  <2>6. QED
    BY <1>1, <2>5
<1>9. ASSUME page # {} PROVE Min(page) \in page /\ \A p \in page : Min(page) <= p
  <2>1. \E x \in page : \A y \in page : x <= y
    BY <1>5, <1>6, <1>9, Least
  <2>2. QED
    BY <2>1 DEF Min
<1>10. ASSUME page # {}, NEW m \in older \ page PROVE m < Min(page)
  <2> DEFINE least == Min(page)
  <2>1. least \in page /\ least \in Nat /\ m \in Nat
    BY <1>3, <1>5, <1>9, <1>10
  <2> HIDE DEF least
  <2>2. ~(m > least) /\ m # least
    BY <1>8, <1>10, <2>1
  <2>3. m < least
    BY <2>1, <2>2
  <2>4. QED
    BY <2>3 DEF least
<1>11. QED
  BY <1>5, <1>7, <1>9, <1>10 DEF page
-----------------------------------------------------------------------------
LEMMA MessagingStarts == MessagingInit => MessagingInv
<1> SUFFICES ASSUME MessagingInit PROVE MessagingInv
  OBVIOUS
<1>1. 0 \in 0..MaxMessages
  BY MessagingAssumption
<1>2. MessagingTypeOK
  BY <1>1, MessagingAssumption DEF MessagingInit, MessagingTypeOK
<1>3. DesksFit /\ ReceiptsFit /\ NobodyIsSkipped /\ PointerAgrees
  BY DEF MessagingInit, DesksFit, ReceiptsFit, NobodyIsSkipped, PointerAgrees
<1>4. QED
  BY <1>2, <1>3 DEF MessagingInv

\* What the desk of a request holds.
LEMMA DeskHolds ==
  ASSUME MessagingTypeOK, NEW d \in Desks
  PROVE  /\ Does(d, "send") => desk[d] \in SendRow
         /\ Does(d, "read") => desk[d] \in ReadRow
         /\ Does(d, "page") => desk[d] \in PageRow
<1>1. desk[d] # None => desk[d] \in SendRow \/ desk[d] \in PruneRow \/ desk[d] \in ReadRow \/ desk[d] \in PageRow
  BY DEF MessagingTypeOK, DeskRow
<1>2. QED
  BY <1>1 DEF Does, SendRow, PruneRow, ReadRow, PageRow

\* A request goes on, or ends, and the conversation stays as it is.
LEMMA DeskMoves ==
  ASSUME MessagingInv, NEW d \in Desks, NEW r \in DeskRow \cup { None }, desk' = [desk EXCEPT ![d] = r],
         r # None => RowFits(r),
         UNCHANGED <<lane, assigned, members, posted, receipt, lastRead, lastMessage, skipped, overtaken>>,
         stamps' \in 0..MaxMessages
  PROVE  MessagingInv'
<1> USE DEF MessagingInv
<1>1. MessagingTypeOK'
  BY DEF MessagingTypeOK
<1>2. DesksFit'
  <2> SUFFICES ASSUME NEW e \in Desks, desk'[e] # None PROVE RowFits(desk[e])'
    BY DEF DesksFit
  <2>1. \A x \in DeskRow : RowFits(x) => RowFits(x)'
    BY DEF RowFits, SendFits, ReadFits, PageFits
  <2>2. desk'[e] = IF e = d THEN r ELSE desk[e]
    BY DEF MessagingTypeOK
  <2>3. PICK x \in DeskRow : x = desk'[e] /\ RowFits(x)
    BY <2>2 DEF DesksFit, MessagingTypeOK
  <2>4. RowFits(x)'
    BY <2>1, <2>3
  <2>5. QED
    BY <2>3, <2>4 DEF RowFits, SendFits, ReadFits, PageFits
<1>3. QED
  BY <1>1, <1>2 DEF ReceiptsFit, NobodyIsSkipped, PointerAgrees

LEMMA RiderIsAssigned == ASSUME MessagingInv, NEW r \in RiderUsers, AssignRider(r) PROVE MessagingInv'
<1> USE DEF MessagingInv
<1>1. assigned' = r /\ UNCHANGED <<lane, members, posted, stamps, receipt, lastRead, lastMessage, desk, skipped, overtaken>>
  BY DEF AssignRider
<1>2. MessagingTypeOK'
  BY <1>1 DEF MessagingTypeOK
<1>3. DesksFit'
  BY <1>1 DEF DesksFit, RowFits, SendFits, ReadFits, PageFits
<1>4. QED
  BY <1>1, <1>2, <1>3 DEF ReceiptsFit, NobodyIsSkipped, PointerAgrees

\* The parties of a lane are people.
LEMMA PartiesArePeople ==
  ASSUME MessagingTypeOK, NEW u \in Users, NEW type \in Lanes
  PROVE  /\ "system" \notin Users
         /\ buildConversationParticipants(u, type, assigned) \subseteq Users \cup { "system" }
         /\ type = "ORDER_CHAT" => "customer" \in buildConversationParticipants(u, type, assigned)
<1>1. Parties(type, assigned) \subseteq Users
  BY DEF Parties, MessagingTypeOK, Users
<1>2. type = "ORDER_CHAT" => "customer" \in Parties(type, assigned)
  BY DEF Parties
<1>3. "system" \notin Users
  BY MessagingAssumption DEF Users
<1>4. QED
  BY <1>1, <1>2, <1>3 DEF buildConversationParticipants, Users

\* The lane takes in more people, and nobody is skipped without being marked.
LEMMA LaneFills ==
  ASSUME MessagingInv, NEW who, who \subseteq Users \cup { "system" }, Join(who),
         UNCHANGED <<lane, assigned, posted, stamps, receipt, lastRead, lastMessage, overtaken>>,
         DOMAIN desk' = Desks, desk' = [e \in Desks |-> desk'[e]],
         \A e \in Desks : desk'[e] = Missing(desk[e], who) \/ (desk'[e] \in SendRow /\ SendFits(desk[e])')
  PROVE  MessagingInv'
<1> USE DEF MessagingInv
<1>1. members' = members \cup who /\ skipped' = skipped \cup (posted \X Latecomers(who))
  BY DEF Join
<1>2. Latecomers(who) = (who \ members) \ { "system" } /\ Latecomers(who) \subseteq Users
  BY DEF Latecomers
<1>3. ASSUME NEW e \in Desks, desk[e] # None, desk[e].op = "send"
      PROVE  /\ Missing(desk[e], who) \in SendRow /\ Missing(desk[e], who).op = "send"
             /\ Missing(desk[e], who).to = desk[e].to
             /\ Missing(desk[e], who).late = desk[e].late \cup Latecomers(who)
  <2>1. desk[e] \in SendRow
    BY <1>3, DeskHolds DEF Does
  <2>2. Missing(desk[e], who) = [desk[e] EXCEPT !.late = desk[e].late \cup Latecomers(who)]
    BY <1>3 DEF Missing
  <2>3. QED
    BY <1>2, <2>1, <2>2 DEF SendRow
<1>4. ASSUME NEW e \in Desks, ~(desk[e] # None /\ desk[e].op = "send") PROVE Missing(desk[e], who) = desk[e]
  BY <1>4 DEF Missing
<1>5. ASSUME NEW e \in Desks PROVE desk'[e] \in DeskRow \cup { None }
  <2>1. CASE desk'[e] \in SendRow
    BY <2>1 DEF DeskRow
  <2>2. CASE desk'[e] = Missing(desk[e], who)
    BY <1>3, <1>4, <2>2 DEF DeskRow, MessagingTypeOK
  <2>3. QED
    BY <2>1, <2>2
<1>6. MessagingTypeOK'
  <2>1. desk' \in [Desks -> DeskRow \cup { None }]
    BY <1>5
  <2>2. QED
    BY <1>1, <2>1 DEF MessagingTypeOK
<1>7. DesksFit'
  <2> SUFFICES ASSUME NEW e \in Desks, desk'[e] # None PROVE RowFits(desk[e])'
    BY DEF DesksFit
  <2>1. CASE desk'[e] \in SendRow /\ SendFits(desk[e])'
    BY <2>1 DEF RowFits, SendRow, ReadFits, PageFits
  <2>2. CASE desk'[e] = Missing(desk[e], who) /\ desk[e] # None /\ desk[e].op = "send"
    <3>1. /\ desk'[e].op = "send" /\ desk'[e].to = desk[e].to /\ desk'[e].late = desk[e].late \cup Latecomers(who)
      BY <1>3, <2>2
    <3>2. members \ { "system" } \subseteq desk[e].to \cup desk[e].late /\ desk[e].to # {}
      BY <2>2 DEF DesksFit, RowFits, SendFits
    <3>3. members' \ { "system" } \subseteq desk'[e].to \cup desk'[e].late /\ desk'[e].to # {}
      BY <1>1, <1>2, <3>1, <3>2
    <3>4. QED
      BY <3>1, <3>3 DEF RowFits, SendFits, ReadFits, PageFits
  <2>3. CASE desk'[e] = desk[e] /\ desk[e] # None /\ desk[e].op # "send"
    BY <2>3 DEF DesksFit, RowFits, SendFits, ReadFits, PageFits
  <2>4. CASE desk'[e] = Missing(desk[e], who)
    BY <1>4, <2>2, <2>3, <2>4
  <2>5. QED
    BY <2>1, <2>4
<1>8. NobodyIsSkipped'
  <2> SUFFICES ASSUME NEW m \in posted, NEW u \in members' \ { "system" }, receipt[m][u] = None
               PROVE  <<m, u>> \in skipped'
    BY DEF NobodyIsSkipped
  <2>1. CASE u \in members
    BY <1>1, <2>1 DEF NobodyIsSkipped
  <2>2. CASE u \notin members
    BY <1>1, <1>2, <2>2
  <2>3. QED
    BY <2>1, <2>2
<1>9. QED
  BY <1>6, <1>7, <1>8 DEF ReceiptsFit, PointerAgrees

LEMMA LaneIsOpened == ASSUME MessagingInv, NEW u \in Users, Resolve(u) PROVE MessagingInv'
<1>1. PICK who : /\ who = buildConversationParticipants(u, lane, assigned) /\ Join(who)
                 /\ desk' = [d \in Desks |-> Missing(desk[d], who)]
  BY DEF Resolve
<1>2. UNCHANGED <<lane, assigned, posted, stamps, receipt, lastRead, lastMessage, overtaken>>
  BY DEF Resolve
<1>3. who \subseteq Users \cup { "system" }
  BY <1>1, PartiesArePeople DEF MessagingInv, MessagingTypeOK
<1>4. QED
  BY <1>1, <1>2, <1>3, LaneFills

LEMMA EventBegins == ASSUME MessagingInv, NEW d \in Desks, NEW u \in Users, BeginEvent(d, u) PROVE MessagingInv'
<1>1. PICK who :
        /\ who = buildConversationParticipants(u, lane, assigned) /\ Join(who)
        /\ desk' = [e \in Desks |-> IF e = d THEN Sending("system", Receivers(members \cup who)) ELSE Missing(desk[e], who)]
  BY DEF BeginEvent
<1>2. lane = "ORDER_CHAT" /\ UNCHANGED <<lane, assigned, posted, stamps, receipt, lastRead, lastMessage, overtaken>>
  BY DEF BeginEvent
<1>3. who \subseteq Users \cup { "system" } /\ "customer" \in who /\ "system" \notin Users
  BY <1>1, <1>2, PartiesArePeople DEF MessagingInv, MessagingTypeOK
<1> DEFINE r == Sending("system", Receivers(members \cup who))
<1>4. /\ r \in SendRow /\ r.op = "send" /\ r.to = (members \cup who) \ { "system" } /\ r.late = {}
  BY <1>3 DEF Sending, SendRow, Receivers, MessagingInv, MessagingTypeOK
<1>5. desk'[d] = r
  BY <1>1
<1> HIDE DEF r
<1>6. desk'[d] \in SendRow /\ SendFits(desk[d])'
  BY <1>1, <1>3, <1>4, <1>5 DEF SendFits, Join
<1>7. \A e \in Desks : e # d => desk'[e] = Missing(desk[e], who)
  BY <1>1
<1>8. DOMAIN desk' = Desks /\ desk' = [e \in Desks |-> desk'[e]]
  BY <1>1
<1>9. QED
  BY <1>1, <1>2, <1>3, <1>6, <1>7, <1>8, LaneFills

LEMMA SendBegins == ASSUME MessagingInv, NEW d \in Desks, NEW u \in Users, BeginSend(d, u) PROVE MessagingInv'
<1> DEFINE r == Sending(u, Receivers(members))
<1>1. /\ u \in members /\ desk' = [desk EXCEPT ![d] = r]
      /\ UNCHANGED <<lane, assigned, members, posted, stamps, receipt, lastRead, lastMessage, skipped, overtaken>>
  BY DEF BeginSend, canSendMessage
<1>2. u # "system" /\ members \subseteq Users \cup { "system" }
  BY MessagingAssumption DEF MessagingInv, MessagingTypeOK, Users
<1>3. /\ r \in SendRow /\ r.op = "send" /\ r.to = members \ { "system" } /\ r.late = {}
  BY <1>2 DEF Sending, SendRow, Receivers
<1> HIDE DEF r
<1>4. r \in DeskRow /\ RowFits(r)
  BY <1>1, <1>2, <1>3 DEF DeskRow, RowFits, SendFits, ReadFits, PageFits
<1>5. stamps' \in 0..MaxMessages
  BY <1>1 DEF MessagingInv, MessagingTypeOK
<1>6. QED
  BY <1>1, <1>4, <1>5, DeskMoves

LEMMA StampIsTaken == ASSUME MessagingInv, NEW d \in Desks, TakeStamp(d) PROVE MessagingInv'
<1> DEFINE r == [desk[d] EXCEPT !.stamp = stamps']
<1>1. /\ Does(d, "send") /\ stamps < MaxMessages /\ stamps' = stamps + 1 /\ desk' = [desk EXCEPT ![d] = r]
      /\ UNCHANGED <<lane, assigned, members, posted, receipt, lastRead, lastMessage, skipped, overtaken>>
  BY DEF TakeStamp
<1>2. desk[d] \in SendRow
  BY <1>1, DeskHolds DEF MessagingInv
<1>3. stamps' \in 0..MaxMessages /\ stamps' \in Messages
  BY <1>1, MessagingAssumption DEF MessagingInv, MessagingTypeOK, Messages
<1>4. r \in SendRow /\ r.op = "send" /\ r.to = desk[d].to /\ r.late = desk[d].late
  BY <1>2, <1>3 DEF SendRow
<1>5. SendFits(desk[d]) /\ desk[d].op = "send"
  BY <1>1 DEF MessagingInv, DesksFit, RowFits, Does
<1> HIDE DEF r
<1>6. r \in DeskRow /\ RowFits(r)
  BY <1>4, <1>5 DEF DeskRow, RowFits, SendFits, ReadFits, PageFits
<1>7. QED
  BY <1>1, <1>3, <1>6, DeskMoves

\* A message appears, perhaps out of order.
LEMMA MessageIsCommitted == ASSUME MessagingInv, NEW d \in Desks, CommitMessage(d) PROVE MessagingInv'
<1> USE DEF MessagingInv
<1> DEFINE m == desk[d].stamp
           to == desk[d].to
           got(u) == IF u \notin to THEN None ELSE IF u = desk[d].from THEN "READ" ELSE "DELIVERED"
<1>1. /\ Does(d, "send") /\ m # 0 /\ posted' = posted \cup { m } /\ lastMessage' = m
      /\ receipt' = [receipt EXCEPT ![m] = [u \in Users |-> got(u)]]
      /\ skipped' = skipped \cup { <<m, u>> : u \in desk[d].late }
      /\ overtaken' = overtaken \cup { <<m, u>> : u \in Marking \cup { v \in Users : m <= lastRead[v] } }
      /\ desk' = [desk EXCEPT ![d] = [op |-> "prune"]]
      /\ UNCHANGED <<lane, assigned, members, stamps, lastRead>>
  BY DEF CommitMessage
<1>2. desk[d] \in SendRow
  BY <1>1, DeskHolds
<1>3. m \in Messages /\ to \subseteq Users
  BY <1>1, <1>2 DEF SendRow
<1>4. members \ { "system" } \subseteq to \cup desk[d].late /\ to # {}
  BY <1>1 DEF DesksFit, RowFits, SendFits, Does
<1> HIDE DEF m, to
<1>5. \A n \in Messages : receipt'[n] = IF n = m THEN [u \in Users |-> got(u)] ELSE receipt[n]
  BY <1>1, <1>3 DEF MessagingTypeOK
<1>6. \A u \in Users : got(u) \in { "READ", "DELIVERED", None } /\ (got(u) = None => u \notin to)
  BY MessagingAssumption
<1> HIDE DEF got
<1>7. /\ desk' \in [Desks -> DeskRow \cup { None }]
      /\ \A e \in Desks : desk'[e] = IF e = d THEN [op |-> "prune"] ELSE desk[e]
  BY <1>1 DEF MessagingTypeOK, DeskRow, PruneRow
<1>8. MessagingTypeOK'
  <2>1. receipt' \in [Messages -> [Users -> { "READ", "DELIVERED", None }]]
    BY <1>1, <1>3, <1>6 DEF MessagingTypeOK
  <2>2. QED
    BY <1>1, <1>3, <1>7, <2>1 DEF MessagingTypeOK
<1>9. DesksFit'
  <2> SUFFICES ASSUME NEW e \in Desks, desk'[e] # None PROVE RowFits(desk[e])'
    BY DEF DesksFit
  <2>1. CASE e = d
    <3>1. desk'[e].op = "prune"
      BY <1>7, <2>1
    <3>2. QED
      BY <3>1 DEF RowFits, SendFits, ReadFits, PageFits
  <2>2. CASE e # d
    <3>1. desk'[e] = desk[e] /\ RowFits(desk[e])
      BY <1>7, <2>2 DEF DesksFit
    <3>2. SendFits(desk[e])'
      BY <1>1, <3>1 DEF RowFits, SendFits
    <3>3. PageFits(desk[e])'
      BY <1>1, <3>1 DEF RowFits, PageFits
    <3>4. ReadFits(desk[e])'
      <4>1. desk[e].op = "read" => desk[e].user \in Marking
        BY <3>1 DEF Marking, Does
      <4>2. QED
        BY <1>1, <3>1, <4>1 DEF RowFits, ReadFits
    <3>5. QED
      BY <3>2, <3>3, <3>4 DEF RowFits
  <2>3. QED
    BY <2>1, <2>2
<1>10. ReceiptsFit'
  <2>1. PICK u \in Users : u \in to
    BY <1>3, <1>4
  <2>2. receipt'[m][u] # None
    BY <1>3, <1>5, <1>6, <2>1
  <2>3. ASSUME NEW n \in posted, n # m PROVE \E v \in Users : receipt'[n][v] # None
    BY <1>5, <2>3 DEF ReceiptsFit, MessagingTypeOK
  <2>4. QED
    BY <1>1, <2>2, <2>3 DEF ReceiptsFit
<1>11. NobodyIsSkipped'
  <2> SUFFICES ASSUME NEW n \in posted', NEW u \in members \ { "system" }, receipt'[n][u] = None
               PROVE  <<n, u>> \in skipped'
    BY <1>1 DEF NobodyIsSkipped
  <2>1. u \in Users
    BY DEF MessagingTypeOK
  <2>2. CASE n = m
    <3>1. u \notin to
      BY <1>3, <1>5, <1>6, <2>1, <2>2
    <3>2. u \in desk[d].late
      BY <1>4, <3>1
    <3>3. QED
      BY <1>1, <2>2, <3>2
  <2>3. CASE n # m
    BY <1>1, <1>5, <2>3 DEF NobodyIsSkipped, MessagingTypeOK
  <2>4. QED
    BY <2>2, <2>3
<1>12. PointerAgrees'
  <2> SUFFICES ASSUME NEW u \in Users, NEW n \in posted', n <= lastRead[u], receipt'[n][u] = "DELIVERED"
               PROVE  <<n, u>> \in overtaken'
    BY <1>1 DEF PointerAgrees
  <2>1. CASE n = m
    BY <1>1, <2>1
  <2>2. CASE n # m
    BY <1>1, <1>5, <2>2 DEF PointerAgrees, MessagingTypeOK
  <2>3. QED
    BY <2>1, <2>2
<1>13. QED
  BY <1>8, <1>9, <1>10, <1>11, <1>12

\* Pruning finds a receipt of whatever it would delete.
LEMMA NothingIsPruned == ASSUME MessagingInv, NEW d \in Desks, PruneOldMessages(d) PROVE posted' = posted
<1>1. posted' = IF Deletes(Stale) THEN posted \ Stale ELSE posted
  BY DEF PruneOldMessages
<1>2. Stale \subseteq posted
  BY DEF Stale
<1>3. ASSUME Deletes(Stale), NEW m \in Stale PROVE FALSE
  <2>1. PICK u \in Users : receipt[m][u] # None
    BY <1>2 DEF MessagingInv, ReceiptsFit
  <2>2. QED
    BY <1>3, <2>1 DEF Deletes
<1>4. QED
  BY <1>1, <1>3

\* A request ends that changes nothing else.
LEMMA RequestCloses ==
  ASSUME MessagingInv, NEW d \in Desks, desk' = [desk EXCEPT ![d] = None],
         UNCHANGED <<lane, assigned, members, posted, stamps, receipt, lastRead, lastMessage, skipped, overtaken>>
  PROVE  MessagingInv'
<1>1. PICK r \in DeskRow \cup { None } : r = None
  OBVIOUS
<1>2. desk' = [desk EXCEPT ![d] = r] /\ (r # None => RowFits(r)) /\ stamps' \in 0..MaxMessages
  BY <1>1 DEF MessagingInv, MessagingTypeOK
<1>3. QED
  BY <1>2, DeskMoves

LEMMA ReadingBegins ==
  ASSUME MessagingInv, NEW d \in Desks, NEW u \in Users,
         BeginMarkAll(d, u) \/ \E m \in Messages : BeginMarkRead(d, u, m)
  PROVE  MessagingInv'
<1> USE DEF MessagingInv
<1>1. PICK ids \in SUBSET posted, target \in Messages \cup { 0 } :
        /\ desk' = [desk EXCEPT ![d] = [op |-> "read", user |-> u, ids |-> ids, target |-> target]]
        /\ \A n \in posted : (target = 0 \/ n <= target) => n \in ids
  <2>1. CASE BeginMarkAll(d, u)
    BY <2>1 DEF BeginMarkAll
  <2>2. ASSUME NEW m \in Messages, BeginMarkRead(d, u, m)
        PROVE  \E ids \in SUBSET posted, target \in Messages \cup { 0 } :
                 /\ desk' = [desk EXCEPT ![d] = [op |-> "read", user |-> u, ids |-> ids, target |-> target]]
                 /\ \A n \in posted : (target = 0 \/ n <= target) => n \in ids
    <3>1. desk' = [desk EXCEPT ![d] = [op |-> "read", user |-> u, ids |-> UpTo(m), target |-> m]]
      BY <2>2 DEF BeginMarkRead
    <3>2. UpTo(m) \in SUBSET posted /\ m # 0 /\ \A n \in posted : n <= m => n \in UpTo(m)
      BY DEF UpTo, Messages
    <3>3. QED
      BY <3>1, <3>2
  <2>3. QED
    BY <2>1, <2>2
<1> DEFINE r == [op |-> "read", user |-> u, ids |-> ids, target |-> target]
<1>2. r \in ReadRow /\ r.op = "read" /\ r.ids = ids /\ r.target = target
  BY DEF ReadRow, MessagingTypeOK
<1>3. UNCHANGED <<lane, assigned, members, posted, stamps, receipt, lastRead, lastMessage, skipped, overtaken>>
  BY DEF BeginMarkAll, BeginMarkRead
<1> HIDE DEF r
<1>4. r \in DeskRow /\ RowFits(r)
  BY <1>1, <1>2 DEF DeskRow, RowFits, SendFits, ReadFits, PageFits
<1>5. desk' = [desk EXCEPT ![d] = r] /\ stamps' \in 0..MaxMessages
  BY <1>1, <1>3 DEF r, MessagingTypeOK
<1>6. QED
  BY <1>3, <1>4, <1>5, DeskMoves

LEMMA ReadingIsCommitted == ASSUME MessagingInv, NEW d \in Desks, CommitRead(d) PROVE MessagingInv'
<1> USE DEF MessagingInv
<1> DEFINE user == desk[d].user
           ids == desk[d].ids
           target == desk[d].target
           mark == IF target = 0 THEN lastMessage ELSE target
<1>1. /\ Does(d, "read")
      /\ receipt' = [m \in Messages |-> IF m \in ids /\ receipt[m][user] # None THEN [receipt[m] EXCEPT ![user] = "READ"] ELSE receipt[m]]
      /\ lastRead' = [lastRead EXCEPT ![user] = mark] /\ desk' = [desk EXCEPT ![d] = None]
      /\ UNCHANGED <<lane, assigned, members, posted, stamps, lastMessage, skipped, overtaken>>
  BY DEF CommitRead
<1>2. desk[d] \in ReadRow
  BY <1>1, DeskHolds
<1>3. user \in Users /\ target \in Messages \cup { 0 } /\ mark \in Messages \cup { 0 }
  BY <1>2 DEF ReadRow, MessagingTypeOK
<1>4. \A m \in posted : (target = 0 \/ m <= target) => m \in ids \/ <<m, user>> \in overtaken
  BY <1>1 DEF DesksFit, RowFits, ReadFits, Does
<1> HIDE DEF user, ids, target
<1>5. \A m \in Messages, u \in Users :
        /\ receipt'[m][u] \in { "READ", "DELIVERED", None }
        /\ receipt'[m][u] = None <=> receipt[m][u] = None
        /\ receipt'[m][u] = "DELIVERED" => receipt[m][u] = "DELIVERED"
        /\ u = user /\ m \in ids => receipt'[m][u] # "DELIVERED"
  <2> SUFFICES ASSUME NEW m \in Messages, NEW u \in Users
               PROVE  /\ receipt'[m][u] \in { "READ", "DELIVERED", None }
                      /\ receipt'[m][u] = None <=> receipt[m][u] = None
                      /\ receipt'[m][u] = "DELIVERED" => receipt[m][u] = "DELIVERED"
                      /\ u = user /\ m \in ids => receipt'[m][u] # "DELIVERED"
    OBVIOUS
  <2>1. receipt[m] \in [Users -> { "READ", "DELIVERED", None }] /\ "READ" # None /\ "DELIVERED" # None
    BY MessagingAssumption DEF MessagingTypeOK
  <2>2. receipt'[m] = IF m \in ids /\ receipt[m][user] # None THEN [receipt[m] EXCEPT ![user] = "READ"] ELSE receipt[m]
    BY <1>1
  <2>3. CASE m \in ids /\ receipt[m][user] # None
    <3>1. \A v \in Users : receipt'[m][v] = IF v = user THEN "READ" ELSE receipt[m][v]
      BY <2>1, <2>2, <2>3
    <3>2. QED
      BY <2>1, <2>3, <3>1
  <2>4. CASE ~(m \in ids /\ receipt[m][user] # None)
    BY <2>1, <2>2, <2>4
  <2>5. QED
    BY <2>3, <2>4
<1>6. receipt' \in [Messages -> [Users -> { "READ", "DELIVERED", None }]]
  <2>1. \A m \in Messages : receipt'[m] \in [Users -> { "READ", "DELIVERED", None }]
    BY <1>1 DEF MessagingTypeOK
  <2>2. receipt' = [m \in Messages |-> receipt'[m]]
    BY <1>1
  <2>3. QED
    BY <2>1, <2>2
<1>7. /\ lastRead' \in [Users -> Messages \cup { 0 }]
      /\ \A u \in Users : lastRead'[u] = IF u = user THEN mark ELSE lastRead[u]
  BY <1>1, <1>3 DEF MessagingTypeOK
<1>8. /\ desk' \in [Desks -> DeskRow \cup { None }]
      /\ \A e \in Desks : desk'[e] # None => desk'[e] = desk[e]
  BY <1>1 DEF MessagingTypeOK
<1>9. MessagingTypeOK'
  BY <1>1, <1>6, <1>7, <1>8 DEF MessagingTypeOK
<1>10. DesksFit'
  BY <1>1, <1>8 DEF DesksFit, RowFits, SendFits, ReadFits, PageFits
<1>11. ReceiptsFit' /\ NobodyIsSkipped'
  <2>1. \A u \in members \ { "system" } : u \in Users
    BY DEF MessagingTypeOK
  <2>2. posted \subseteq Messages
    BY DEF MessagingTypeOK
  <2>3. QED
    BY <1>1, <1>5, <2>1, <2>2 DEF ReceiptsFit, NobodyIsSkipped
<1>12. PointerAgrees'
  <2> SUFFICES ASSUME NEW u \in Users, NEW m \in posted, m <= lastRead'[u], receipt'[m][u] = "DELIVERED"
               PROVE  <<m, u>> \in overtaken
    BY <1>1 DEF PointerAgrees
  <2>1. m \in Messages /\ receipt[m][u] = "DELIVERED"
    BY <1>5 DEF MessagingTypeOK
  <2>2. CASE u = user
    <3>1. m \notin ids /\ (target = 0 \/ m <= target)
      BY <1>5, <1>7, <2>1, <2>2
    <3>2. QED
      BY <1>4, <2>2, <3>1
  <2>3. CASE u # user
    BY <1>7, <2>1, <2>3 DEF PointerAgrees
  <2>4. QED
    BY <2>2, <2>3
<1>13. QED
  BY <1>9, <1>10, <1>11, <1>12

\* A page shows what is newest of what comes before the cursor.
LEMMA PageIsRead == ASSUME MessagingInv, NEW d \in Desks, NEW u \in Users, ReadPage(d, u) PROVE MessagingInv'
<1> USE DEF MessagingInv
<1> DEFINE first == desk[d] = None
           before == IF first THEN MaxMessages + 1 ELSE desk[d].cursor
           page == IF first \/ before \in posted THEN Page(before) ELSE {}
           rest == { m \in posted : m < before } \ page
           cursor == NextCursor(rest, page)
           seen == page \cup (IF first THEN {} ELSE desk[d].seen)
           since == IF first THEN posted ELSE desk[d].since
           r == [op |-> "page", user |-> u, cursor |-> cursor, seen |-> seen, since |-> since]
           older == { m \in posted : m < before }
<1>1. /\ first \/ (Does(d, "page") /\ desk[d].cursor # 0)
      /\ desk' = [desk EXCEPT ![d] = r]
      /\ UNCHANGED <<lane, assigned, members, posted, stamps, receipt, lastRead, lastMessage, skipped, overtaken>>
  BY DEF ReadPage
<1>2. posted \subseteq Messages /\ Messages \subseteq Nat
  BY DEF MessagingTypeOK, Messages
<1>3. ~first => desk[d] \in PageRow /\ desk[d].op = "page" /\ PageFits(desk[d])
  BY <1>1, DeskHolds DEF Does, DesksFit, RowFits
<1>4. /\ before \in Nat
      /\ first \/ before \in posted
      /\ since \subseteq posted
      /\ \A m \in since : m < before \/ (~first /\ m \in desk[d].seen)
      /\ (IF first THEN {} ELSE desk[d].seen) \subseteq Messages
  <2>1. CASE first
    <3>1. MaxMessages + 1 \in Nat /\ \A m \in posted : m < MaxMessages + 1
      BY <1>2, MessagingAssumption DEF Messages
    <3>2. QED
      BY <2>1, <3>1
  <2>2. CASE ~first
    BY <1>1, <1>2, <1>3, <2>2 DEF PageFits, PageRow
  <2>3. QED
    BY <2>1, <2>2
<1>5. page = Page(before) /\ rest = older \ page
  BY <1>4
<1> HIDE DEF before, page, since
<1>6. /\ page \subseteq older
      /\ older # {} => page # {}
      /\ page # {} => Min(page) \in page
      /\ \A m \in older \ page : page # {} => m < Min(page)
  BY <1>4, <1>5, PageIsNewest
<1> HIDE DEF rest, older
<1>7. /\ cursor \in posted \cup { 0 }
      /\ \A m \in older : m \in page \/ m < cursor
  <2>1. older \subseteq posted
    BY DEF older
  <2>2. CASE rest = {}
    <3>1. cursor = 0
      BY <2>2 DEF NextCursor
    <3>2. QED
      BY <1>5, <2>2, <3>1
  <2>3. CASE rest # {}
    <3>1. cursor = Min(page) /\ page # {}
      BY <1>5, <1>6, <2>3 DEF NextCursor
    <3>2. QED
      BY <1>6, <2>1, <3>1
  <2>4. QED
    BY <2>2, <2>3
<1>8. \A m \in since : m \in seen \/ m < cursor
  <2>1. \A m \in since : m \in posted
    BY <1>4
  <2>2. \A m \in since : m \in older \/ (~first /\ m \in desk[d].seen)
    BY <1>4, <2>1 DEF older
  <2>3. QED
    BY <1>7, <2>2
<1>9. seen \subseteq Messages
  BY <1>2, <1>4, <1>6 DEF older
<1> HIDE DEF cursor, seen
<1>10. r \in PageRow /\ r.op = "page" /\ r.cursor = cursor /\ r.seen = seen /\ r.since = since
  BY <1>2, <1>4, <1>7, <1>9 DEF PageRow
<1> HIDE DEF r
<1>11. r \in DeskRow /\ RowFits(r)
  BY <1>4, <1>7, <1>8, <1>10 DEF DeskRow, RowFits, SendFits, ReadFits, PageFits
<1>12. stamps' \in 0..MaxMessages
  BY <1>1 DEF MessagingTypeOK
<1>13. QED
  BY <1>1, <1>11, <1>12, DeskMoves
-----------------------------------------------------------------------------
LEMMA MessagingInvStep == ASSUME MessagingInv, [MessagingNext]_messagingVars PROVE MessagingInv'
<1>1. CASE UNCHANGED messagingVars
  <2>1. MessagingTypeOK'
    BY <1>1 DEF messagingVars, MessagingInv, MessagingTypeOK
  <2>2. DesksFit'
    BY <1>1 DEF messagingVars, MessagingInv, DesksFit, RowFits, SendFits, ReadFits, PageFits
  <2>3. QED
    BY <1>1, <2>1, <2>2 DEF messagingVars, MessagingInv, ReceiptsFit, NobodyIsSkipped, PointerAgrees
<1>2. ASSUME NEW d \in Desks, PruneOldMessages(d) PROVE MessagingInv'
  <2>1. posted' = posted
    BY <1>2, NothingIsPruned
  <2>2. /\ desk' = [desk EXCEPT ![d] = None]
        /\ UNCHANGED <<lane, assigned, members, stamps, receipt, lastRead, lastMessage, skipped, overtaken>>
    BY <1>2 DEF PruneOldMessages
  <2>3. QED
    BY <2>1, <2>2, RequestCloses
<1>3. ASSUME NEW d \in Desks, CloseHistory(d) PROVE MessagingInv'
  BY <1>3, RequestCloses DEF CloseHistory
<1>4. CASE MessagingNext
  BY <1>2, <1>3, <1>4, RiderIsAssigned, LaneIsOpened, SendBegins, EventBegins, StampIsTaken, MessageIsCommitted,
     ReadingBegins, ReadingIsCommitted, PageIsRead DEF MessagingNext
<1>5. QED
  BY <1>1, <1>4

LEMMA MessagingInvIsEnough == ASSUME MessagingInv PROVE MessagesAgree
<1>1. HistoryIsRead
  <2> SUFFICES ASSUME NEW d \in Desks, Does(d, "page"), desk[d].cursor = 0, NEW m \in desk[d].since
               PROVE  m \in desk[d].seen
    BY DEF HistoryIsRead
  <2>1. m \in Messages /\ PageFits(desk[d]) /\ desk[d].op = "page"
    BY DeskHolds DEF MessagingInv, DesksFit, RowFits, Does, PageRow
  <2>2. m \in desk[d].seen \/ m < 0
    BY <2>1 DEF PageFits
  <2>3. QED
    BY <2>1, <2>2 DEF Messages
<1>2. OpenersAreIn
  BY DEF OpenersAreIn, canResolveConversationForOrder, buildConversationParticipants
<1>3. QED
  BY <1>1, <1>2 DEF MessagesAgree, MessagingInv

\* Everyone in a conversation has a receipt of its messages, and what is marked
\* or paged through has been read, whatever appears, joins or is read meanwhile
\* (message.service.ts:123-126, message.repository.ts:203-370).
THEOREM ConversationsAgree == MessagingSpec => []MessagesAgree
<1>1. MessagingInit => MessagingInv
  BY MessagingStarts
<1>2. MessagingInv /\ [MessagingNext]_messagingVars => MessagingInv'
  BY MessagingInvStep
<1>3. MessagingInv => MessagesAgree
  BY MessagingInvIsEnough
<1>4. QED
  BY <1>1, <1>2, <1>3, PTL DEF MessagingSpec

\* Pruning never takes a message away (message.repository.ts:118-145).
THEOREM NothingDisappears == MessagingSpec => HistoryIsKept
<1>1. MessagingInit => MessagingInv
  BY MessagingStarts
<1>2. MessagingInv /\ [MessagingNext]_messagingVars => MessagingInv'
  BY MessagingInvStep
<1>3. MessagingInv /\ [MessagingNext]_messagingVars => [posted \subseteq posted']_messagingVars
  <2> SUFFICES ASSUME MessagingInv, MessagingNext PROVE posted \subseteq posted'
    OBVIOUS
  <2>1. ASSUME NEW d \in Desks, PruneOldMessages(d) PROVE posted \subseteq posted'
    BY <2>1, NothingIsPruned
  <2>2. ASSUME NEW d \in Desks, TakeStamp(d) \/ CommitMessage(d) \/ CommitRead(d) \/ CloseHistory(d) PROVE posted \subseteq posted'
    BY <2>2 DEF TakeStamp, CommitMessage, CommitRead, CloseHistory
  <2>3. ASSUME NEW d \in Desks, NEW u \in Users, BeginSend(d, u) \/ BeginEvent(d, u) \/ BeginMarkAll(d, u) \/ ReadPage(d, u)
        PROVE  posted' = posted
    BY <2>3 DEF BeginSend, BeginEvent, BeginMarkAll, ReadPage
  <2>4. ASSUME NEW d \in Desks, NEW u \in Users, NEW m \in Messages, BeginMarkRead(d, u, m) PROVE posted' = posted
    BY <2>4 DEF BeginMarkRead
  <2>5. ASSUME NEW r, AssignRider(r) PROVE posted' = posted
    BY <2>5 DEF AssignRider
  <2>6. ASSUME NEW u, Resolve(u) PROVE posted' = posted
    BY <2>6 DEF Resolve
  <2>7. QED
    BY <2>1, <2>2, <2>3, <2>4, <2>5, <2>6 DEF MessagingNext
<1>4. QED
  BY <1>1, <1>2, <1>3, PTL DEF MessagingSpec, HistoryIsKept

-----------------------------------------------------------------------------
(* Quiet hours.  Whoever changes the row or a timer goes on to tell the     *)
(* clients and to schedule, so the next boundary is always awaited by some  *)
(* instance, and between boundaries push stays what it is.                  *)

QuietTypeOK ==
  /\ preference \in Preference /\ hour \in Nat
  /\ timer \in [Instances -> Nat \cup { None }] /\ leaked \in [Instances -> SUBSET Nat]
  /\ handling \in [Calls -> HandlingRow \cup { None }]
  /\ \A c \in Calls : In(c, "save") => handling[c].row \in Preference
  /\ missed \in BOOLEAN

Telling == \E c \in Calls : In(c, "tell") \/ In(c, "emit")
StillTelling == Telling \/ \E c \in Calls : In(c, "schedule")
SomeDue == \E i \in Instances : Due(i)

\* The clients know what push is in, or are about to be told.
ToldFits == missed \/ Telling \/ SomeDue \/ told = State(preference, hour)

\* Some instance waits for the next boundary, or is about to.
BoundaryIsAwaited ==
  LET next == NextBoundary(preference, hour) IN
  \/ next = None \/ StillTelling \/ SomeDue
  \/ \E i \in Instances : timer[i] = next \/ next \in leaked[i]

QuietInv == QuietTypeOK /\ ToldFits /\ BoundaryIsAwaited
-----------------------------------------------------------------------------
\* The hour of the day an hour later.
LEMMA NextLocal ==
  ASSUME NEW h \in Nat
  PROVE  /\ Local(h) \in 0..(Day - 1)
         /\ Local(h + 1) = IF Local(h) = Day - 1 THEN 0 ELSE Local(h) + 1
<1> DEFINE d == Day
           r == h % Day
           q == h \div Day
           s == (h + 1) % Day
           p == (h + 1) \div Day
<1>1. /\ d \in Nat /\ d > 0 /\ r \in Nat /\ q \in Int /\ r < d /\ h = d * q + r
      /\ s \in Nat /\ p \in Int /\ s < d /\ h + 1 = d * p + s
  BY QuietAssumption
<1> HIDE DEF d, r, q, s, p
<1>2. d * (p - q) = r + 1 - s
  BY <1>1
<1>3. p - q = 0 \/ p - q = 1
  <2>1. ASSUME p - q >= 2 PROVE FALSE
    <3>1. d * (p - q) >= d * 2
      BY <1>1, <2>1
    <3>2. QED
      BY <1>1, <1>2, <3>1
  <2>2. ASSUME p - q <= -1 PROVE FALSE
    <3>1. d * (p - q) <= d * (-1)
      BY <1>1, <2>2
    <3>2. QED
      BY <1>1, <1>2, <3>1
  <2>3. QED
    BY <1>1, <2>1, <2>2
<1>4. s = r + 1 \/ (s = r + 1 - d)
  <2>1. d * 0 = 0 /\ d * 1 = d
    BY <1>1
  <2>2. QED
    BY <1>1, <1>2, <1>3, <2>1
<1>5. s = IF r = d - 1 THEN 0 ELSE r + 1
  BY <1>1, <1>4
<1>6. QED
  BY <1>1, <1>5 DEF Local, d, r, s

\* The smaller of two numbers.
LEMMA LesserOfTwo == ASSUME NEW a \in Int, NEW b \in Int PROVE Min({ a, b }) = IF a <= b THEN a ELSE b
BY DEF Min

\* An hour in which no boundary is reached changes nothing, and the next
\* boundary stays.
LEMMA NothingChanges ==
  ASSUME NEW p \in Preference, NEW h \in Nat
  PROVE  /\ NextBoundary(p, h) = None \/ (NextBoundary(p, h) \in Nat /\ NextBoundary(p, h) > h)
         /\ NextBoundary(p, h) # h + 1 => NextBoundary(p, h + 1) = NextBoundary(p, h) /\ State(p, h + 1) = State(p, h)
<1>1. CASE ~(p.push /\ p.quiet # None)
  <2>1. ~p.push \/ p.quiet = None
    BY <1>1
  <2>2. NextBoundary(p, h) = None /\ NextBoundary(p, h + 1) = None
    BY <2>1 DEF NextBoundary
  <2>3. State(p, h + 1) = State(p, h)
    BY <2>1 DEF State, isInventoryAlertPushMutedNow
  <2>4. QED
    BY <2>2, <2>3
<1>2. CASE p.push /\ p.quiet # None
  <2> DEFINE from == p.quiet.from
             to == p.quiet.to
             n == Local(h)
             m == Local(h + 1)
             Wait(b, k) == IF b - k <= 0 THEN b - k + Day ELSE b - k
  <2>1. from \in 0..(Day - 1) /\ to \in 0..(Day - 1)
    BY <1>2 DEF Preference, Spans
  <2>2. n \in 0..(Day - 1) /\ m = (IF n = Day - 1 THEN 0 ELSE n + 1) /\ Day \in Nat /\ Day > 0
    BY NextLocal, QuietAssumption
  <2>3. /\ Until(from, h) = Wait(from, n) /\ Until(to, h) = Wait(to, n)
        /\ Until(from, h + 1) = Wait(from, m) /\ Until(to, h + 1) = Wait(to, m)
    BY DEF Until
  <2>4. /\ State(p, h) = IF (IF from < to THEN from <= n /\ n < to ELSE from <= n \/ n < to) THEN "MUTED" ELSE "ACTIVE"
        /\ State(p, h + 1) = IF (IF from < to THEN from <= m /\ m < to ELSE from <= m \/ m < to) THEN "MUTED" ELSE "ACTIVE"
    BY <1>2 DEF State, isInventoryAlertPushMutedNow
  <2> HIDE DEF from, to, n, m
  <2>5. /\ Wait(from, n) \in Nat \ {0} /\ Wait(to, n) \in Nat \ {0} /\ Wait(from, m) \in Nat \ {0} /\ Wait(to, m) \in Nat \ {0}
        /\ Wait(from, n) # 1 => Wait(from, m) = Wait(from, n) - 1 /\ m # from
        /\ Wait(to, n) # 1 => Wait(to, m) = Wait(to, n) - 1 /\ m # to
    BY <2>1, <2>2
  <2> DEFINE fn == Wait(from, n)
             tn == Wait(to, n)
             fm == Wait(from, m)
             tm == Wait(to, m)
  <2>6. /\ NextBoundary(p, h) = h + (IF fn <= tn THEN fn ELSE tn)
        /\ NextBoundary(p, h + 1) = h + 1 + (IF fm <= tm THEN fm ELSE tm)
    <3>1. fn \in Int /\ tn \in Int /\ fm \in Int /\ tm \in Int
      BY <2>5
    <3>2. NextBoundary(p, h) = h + Min({ fn, tn }) /\ NextBoundary(p, h + 1) = h + 1 + Min({ fm, tm })
      BY <1>2, <2>3 DEF NextBoundary, from, to
    <3> HIDE DEF fn, tn, fm, tm
    <3>3. QED
      BY <3>1, <3>2, LesserOfTwo
  <2>7. (m # from /\ m # to) => State(p, h + 1) = State(p, h)
    BY <2>1, <2>2, <2>4
  <2>8. /\ fn \in Nat \ {0} /\ tn \in Nat \ {0}
        /\ fn # 1 => fm = fn - 1 /\ m # from
        /\ tn # 1 => tm = tn - 1 /\ m # to
    BY <2>5
  <2> HIDE DEF fn, tn, fm, tm, Wait
  <2>9. QED
    BY <2>6, <2>7, <2>8
<1>3. QED
  BY <1>1, <1>2
-----------------------------------------------------------------------------
LEMMA QuietStarts == QuietInit => QuietInv
<1> SUFFICES ASSUME QuietInit PROVE QuietInv
  OBVIOUS
<1>1. NextBoundary(preference, 0) = None \/ NextBoundary(preference, 0) \in Nat
  BY NothingChanges DEF QuietInit
<1>2. QuietTypeOK
  BY <1>1 DEF QuietInit, QuietTypeOK, In
<1>3. ToldFits /\ BoundaryIsAwaited
  BY QuietAssumption DEF QuietInit, ToldFits, BoundaryIsAwaited
<1>4. QED
  BY <1>2, <1>3 DEF QuietInv

\* A call goes on, or ends.
LEMMA CallMoves ==
  ASSUME QuietTypeOK, NEW c \in Calls, NEW r \in HandlingRow \cup { None }, handling' = [handling EXCEPT ![c] = r],
         r # None /\ r.step = "save" => r.row \in Preference
  PROVE  /\ handling' \in [Calls -> HandlingRow \cup { None }]
         /\ \A d \in Calls : In(d, "save")' => handling'[d].row \in Preference
         /\ \A d \in Calls, step \in { "save", "tell", "emit", "schedule" } :
              In(d, step)' <=> IF d = c THEN r # None /\ r.step = step ELSE In(d, step)
<1>1. \A d \in Calls : handling'[d] = IF d = c THEN r ELSE handling[d]
  BY DEF QuietTypeOK
<1>2. \A d \in Calls, step \in { "save", "tell", "emit", "schedule" } :
              In(d, step)' <=> IF d = c THEN r # None /\ r.step = step ELSE In(d, step)
  BY <1>1 DEF In
<1>3. QED
  BY <1>1, <1>2 DEF QuietTypeOK

LEMMA UpdateBegins == ASSUME QuietInv, NEW c \in Calls, NEW i \in Instances, BeginUpdate(c, i) PROVE QuietInv'
<1> USE DEF QuietInv
<1>1. PICK row \in Merged(preference) : handling' = [handling EXCEPT ![c] = [at |-> i, step |-> "save", row |-> row]]
  BY DEF BeginUpdate
<1>2. row \in Preference
  BY <1>1 DEF Merged, QuietTypeOK, Preference
<1> DEFINE r == [at |-> i, step |-> "save", row |-> row]
<1>3. r \in HandlingRow /\ r.step = "save" /\ r.row \in Preference
  BY <1>2 DEF HandlingRow
<1>4. handling[c] = None /\ UNCHANGED <<preference, told, hour, timer, leaked, missed>>
  BY DEF BeginUpdate
<1> HIDE DEF r
<1>5. /\ handling' \in [Calls -> HandlingRow \cup { None }]
      /\ \A d \in Calls : In(d, "save")' => handling'[d].row \in Preference
      /\ \A d \in Calls, step \in { "save", "tell", "emit", "schedule" } :
              In(d, step)' <=> IF d = c THEN r # None /\ r.step = step ELSE In(d, step)
  BY <1>1, <1>3, CallMoves DEF r
<1>6. QuietTypeOK'
  BY <1>4, <1>5 DEF QuietTypeOK
<1>7. (Telling => Telling') /\ (StillTelling => StillTelling') /\ (SomeDue => SomeDue')
  BY <1>4, <1>5 DEF Telling, StillTelling, SomeDue, Due, In
<1>8. ToldFits' /\ BoundaryIsAwaited'
  BY <1>4, <1>7 DEF ToldFits, BoundaryIsAwaited
<1>9. QED
  BY <1>6, <1>8

\* A call that is under way: what it becomes next.
LEMMA CallGoesOn ==
  ASSUME QuietTypeOK, NEW c \in Calls, handling[c] # None, NEW s \in { "tell", "schedule" },
         handling' = [handling EXCEPT ![c].step = s]
  PROVE  /\ handling' \in [Calls -> HandlingRow \cup { None }]
         /\ \A d \in Calls : In(d, "save")' => handling'[d].row \in Preference
         /\ \A d \in Calls, step \in { "save", "tell", "emit", "schedule" } :
              In(d, step)' <=> IF d = c THEN s = step ELSE In(d, step)
<1> DEFINE r == [handling[c] EXCEPT !.step = s]
<1>1. handling[c] \in HandlingRow
  BY DEF QuietTypeOK
<1>2. r \in HandlingRow /\ r.step = s /\ handling' = [handling EXCEPT ![c] = r]
  BY <1>1 DEF HandlingRow
<1>3. r # None
  BY <1>2, QuietAssumption
<1> HIDE DEF r
<1>4. r \in HandlingRow \cup { None } /\ ~(r # None /\ r.step = "save")
  BY <1>2
<1>5. /\ handling' \in [Calls -> HandlingRow \cup { None }]
      /\ \A d \in Calls : In(d, "save")' => handling'[d].row \in Preference
      /\ \A d \in Calls, step \in { "save", "tell", "emit", "schedule" } :
              In(d, step)' <=> IF d = c THEN r # None /\ r.step = step ELSE In(d, step)
  BY <1>2, <1>4, CallMoves
<1>6. QED
  BY <1>2, <1>3, <1>5

LEMMA UpdateIsSaved == ASSUME QuietInv, NEW c \in Calls, SaveUpdate(c) PROVE QuietInv'
<1> USE DEF QuietInv
<1>1. /\ handling[c] # None /\ preference' = handling[c].row /\ preference' \in Preference
      /\ handling' = [handling EXCEPT ![c].step = "tell"] /\ UNCHANGED <<told, hour, timer, leaked, missed>>
  BY DEF SaveUpdate, In, QuietTypeOK
<1>2. QuietTypeOK' /\ In(c, "tell")'
  BY <1>1, CallGoesOn DEF QuietTypeOK
<1>3. QED
  BY <1>2 DEF ToldFits, BoundaryIsAwaited, Telling, StillTelling

LEMMA UpdateIsTold == ASSUME QuietInv, NEW c \in Calls, TellUpdate(c) PROVE QuietInv'
<1> USE DEF QuietInv
<1> DEFINE i == handling[c].at
<1>1. /\ handling[c] # None /\ told' = State(handling[c].row, hour) /\ missed' = (handling[c].row # preference)
      /\ timer' = [timer EXCEPT ![i] = None]
      /\ handling' = [handling EXCEPT ![c].step = "schedule"] /\ UNCHANGED <<preference, hour, leaked>>
  BY DEF TellUpdate, In
<1>2. QuietTypeOK' /\ In(c, "schedule")'
  BY <1>1, CallGoesOn DEF QuietTypeOK
<1>3. ToldFits'
  BY <1>1 DEF ToldFits
<1>4. BoundaryIsAwaited'
  BY <1>2 DEF BoundaryIsAwaited, StillTelling
<1>5. QED
  BY <1>2, <1>3, <1>4

LEMMA PreferenceIsEmitted == ASSUME QuietInv, NEW c \in Calls, EmitCurrentPreference(c) PROVE QuietInv'
<1> USE DEF QuietInv
<1>1. /\ handling[c] # None /\ told' = State(preference, hour) /\ missed' = FALSE
      /\ handling' = [handling EXCEPT ![c].step = "schedule"] /\ UNCHANGED <<preference, hour, timer, leaked>>
  BY DEF EmitCurrentPreference, In
<1>2. QuietTypeOK' /\ In(c, "schedule")'
  BY <1>1, CallGoesOn DEF QuietTypeOK
<1>3. ToldFits'
  BY <1>1 DEF ToldFits
<1>4. BoundaryIsAwaited'
  BY <1>2 DEF BoundaryIsAwaited, StillTelling
<1>5. QED
  BY <1>2, <1>3, <1>4

\* Whoever schedules last reads the row last.
LEMMA UserIsScheduled == ASSUME QuietInv, NEW c \in Calls, ScheduleUser(c) PROVE QuietInv'
<1> USE DEF QuietInv
<1> DEFINE i == handling[c].at
           next == NextBoundary(preference, hour)
<1>1. /\ handling[c] # None /\ handling[c].step = "schedule"
      /\ IF next = None THEN UNCHANGED <<timer, leaked>>
         ELSE /\ timer' = [timer EXCEPT ![i] = next]
              /\ leaked' = [leaked EXCEPT ![i] = @ \cup ({ timer[i] } \ { None })]
      /\ handling' = [handling EXCEPT ![c] = None] /\ UNCHANGED <<preference, told, hour, missed>>
  BY DEF ScheduleUser, In
<1>2. i \in Instances
  BY <1>1 DEF QuietTypeOK, HandlingRow
<1>3. next = None \/ next \in Nat
  BY NothingChanges DEF QuietTypeOK
<1> HIDE DEF next, i
<1>4. /\ timer' \in [Instances -> Nat \cup { None }] /\ leaked' \in [Instances -> SUBSET Nat]
      /\ \A j \in Instances : Due(j) => Due(j)'
      /\ next # None => timer'[i] = next
  <2>1. CASE next = None
    BY <1>1, <2>1 DEF QuietTypeOK, Due
  <2>2. CASE next # None
    <3>1. \A j \in Instances : /\ timer'[j] = IF j = i THEN next ELSE timer[j]
                               /\ leaked'[j] = IF j = i THEN leaked[j] \cup ({ timer[j] } \ { None }) ELSE leaked[j]
      BY <1>1, <1>2, <2>2 DEF QuietTypeOK
    <3>2. timer' \in [Instances -> Nat \cup { None }] /\ leaked' \in [Instances -> SUBSET Nat]
      BY <1>1, <1>2, <1>3, <2>2 DEF QuietTypeOK
    <3>3. hour # None
      BY QuietAssumption DEF QuietTypeOK
    <3>4. \A j \in Instances : Due(j) => Due(j)'
      BY <1>1, <3>1, <3>3 DEF Due
    <3>5. QED
      BY <1>2, <3>1, <3>2, <3>4
  <2>3. QED
    BY <2>1, <2>2
<1>5. PICK r \in HandlingRow \cup { None } : r = None
  OBVIOUS
<1>6. /\ handling' \in [Calls -> HandlingRow \cup { None }]
      /\ \A d \in Calls : In(d, "save")' => handling'[d].row \in Preference
      /\ \A d \in Calls, step \in { "save", "tell", "emit", "schedule" } :
              In(d, step)' <=> IF d = c THEN FALSE ELSE In(d, step)
  <2>1. handling' = [handling EXCEPT ![c] = r]
    BY <1>1, <1>5
  <2>2. /\ handling' \in [Calls -> HandlingRow \cup { None }]
        /\ \A d \in Calls : In(d, "save")' => handling'[d].row \in Preference
        /\ \A d \in Calls, step \in { "save", "tell", "emit", "schedule" } :
              In(d, step)' <=> IF d = c THEN r # None /\ r.step = step ELSE In(d, step)
    BY <1>5, <2>1, CallMoves
  <2>3. QED
    BY <1>5, <2>2
<1>7. QuietTypeOK'
  BY <1>1, <1>4, <1>6 DEF QuietTypeOK
<1>8. (Telling => Telling') /\ (SomeDue => SomeDue')
  <2>1. ASSUME NEW d \in Calls, In(d, "tell") \/ In(d, "emit") PROVE In(d, "tell")' \/ In(d, "emit")'
    BY <1>1, <1>6, <2>1 DEF In
  <2>2. QED
    BY <1>4, <2>1 DEF Telling, SomeDue
<1>9. ToldFits'
  BY <1>1, <1>8 DEF ToldFits
<1>10. next' = next
  BY <1>1 DEF next
<1>11. BoundaryIsAwaited'
  BY <1>1, <1>2, <1>4, <1>10 DEF BoundaryIsAwaited, next
<1>12. QED
  BY <1>7, <1>9, <1>11

LEMMA BoundaryIsReached == ASSUME QuietInv, NEW c \in Calls, NEW i \in Instances, BoundaryReached(c, i) PROVE QuietInv'
<1> USE DEF QuietInv
<1> DEFINE r == [at |-> i, step |-> "emit", row |-> None]
<1>1. /\ handling' = [handling EXCEPT ![c] = r] /\ timer' = [timer EXCEPT ![i] = None]
      /\ leaked' = leaked \/ leaked' = [leaked EXCEPT ![i] = @ \ { hour }]
      /\ UNCHANGED <<preference, told, hour, missed>>
  BY DEF BoundaryReached
<1>2. r \in HandlingRow /\ r.step = "emit"
  BY DEF HandlingRow
<1>3. r # None
  BY <1>2, QuietAssumption
<1> HIDE DEF r
<1>4. /\ handling' \in [Calls -> HandlingRow \cup { None }]
      /\ \A d \in Calls : In(d, "save")' => handling'[d].row \in Preference
      /\ In(c, "emit")'
  BY <1>1, <1>2, <1>3, CallMoves
<1>5. QuietTypeOK'
  BY <1>1, <1>4 DEF QuietTypeOK
<1>6. QED
  BY <1>4, <1>5 DEF ToldFits, BoundaryIsAwaited, Telling, StillTelling

LEMMA InstanceRestarts == ASSUME QuietInv, NEW i \in Instances, Restart(i) PROVE QuietInv'
<1> USE DEF QuietInv
<1> DEFINE next == NextBoundary(preference, hour)
           gone == { c \in Calls : handling[c] # None /\ handling[c].at = i }
<1>1. /\ timer' = [timer EXCEPT ![i] = next] /\ leaked' = [leaked EXCEPT ![i] = {}]
      /\ handling' = [c \in Calls |-> IF c \in gone THEN None ELSE handling[c]]
      /\ missed' = (missed \/ Due(i) \/ \E c \in gone : handling[c].step \in { "tell", "emit" })
      /\ UNCHANGED <<preference, told, hour>>
  BY DEF Restart
<1>2. next = None \/ next \in Nat
  BY NothingChanges DEF QuietTypeOK
<1>3. next' = next
  BY <1>1
<1> HIDE DEF next
<1>4. \A j \in Instances : timer'[j] = (IF j = i THEN next ELSE timer[j]) /\ leaked'[j] = (IF j = i THEN {} ELSE leaked[j])
  BY <1>1 DEF QuietTypeOK
<1>5. \A d \in Calls : handling'[d] = None \/ handling'[d] = handling[d]
  BY <1>1
<1>6. QuietTypeOK'
  <2>1. handling' \in [Calls -> HandlingRow \cup { None }] /\ \A d \in Calls : In(d, "save")' => handling'[d].row \in Preference
    BY <1>1, <1>5 DEF QuietTypeOK, In
  <2>2. timer' \in [Instances -> Nat \cup { None }] /\ leaked' \in [Instances -> SUBSET Nat] /\ missed' \in BOOLEAN
    BY <1>1, <1>2 DEF QuietTypeOK
  <2>3. QED
    BY <1>1, <2>1, <2>2 DEF QuietTypeOK
<1>7. ToldFits'
  <2> SUFFICES ASSUME ~missed' PROVE Telling' \/ SomeDue' \/ told = State(preference, hour)
    BY <1>1 DEF ToldFits
  <2>1. ~missed /\ ~Due(i) /\ \A c \in gone : handling[c].step \notin { "tell", "emit" }
    BY <1>1
  <2>2. Telling => Telling'
    BY <1>1, <2>1 DEF Telling, In
  <2>3. SomeDue => SomeDue'
    BY <1>1, <1>4, <2>1 DEF SomeDue, Due
  <2>4. QED
    BY <2>1, <2>2, <2>3 DEF ToldFits
<1>8. BoundaryIsAwaited'
  BY <1>3, <1>4 DEF BoundaryIsAwaited, next
<1>9. QED
  BY <1>6, <1>7, <1>8

LEMMA HourGoesBy == ASSUME QuietInv, HourPasses PROVE QuietInv'
<1> USE DEF QuietInv
<1>1. /\ \A c \in Calls : handling[c] = None
      /\ hour' = hour + 1 /\ UNCHANGED <<preference, told, timer, leaked, handling, missed>>
  BY DEF HourPasses
<1>2. ~SomeDue /\ ~Telling /\ ~StillTelling
  BY <1>1 DEF HourPasses, SomeDue, Telling, StillTelling, In
<1>3. QuietTypeOK'
  BY <1>1 DEF QuietTypeOK, In
<1> DEFINE next == NextBoundary(preference, hour)
<1>4. next = None \/ \E i \in Instances : timer[i] = next \/ next \in leaked[i]
  BY <1>2 DEF BoundaryIsAwaited
<1>5. CASE next = hour + 1
  <2>1. SomeDue'
    BY <1>1, <1>4, <1>5, QuietAssumption DEF SomeDue, Due, QuietTypeOK
  <2>2. QED
    BY <1>3, <2>1 DEF ToldFits, BoundaryIsAwaited
<1>6. CASE next # hour + 1
  <2>1. NextBoundary(preference, hour + 1) = next /\ State(preference, hour + 1) = State(preference, hour)
    BY <1>6, NothingChanges DEF QuietTypeOK
  <2>2. NextBoundary(preference, hour)' = next /\ State(preference, hour)' = State(preference, hour)
    BY <1>1, <2>1 DEF NextBoundary, State, isInventoryAlertPushMutedNow, Local, Until
  <2> HIDE DEF next
  <2>3. ToldFits'
    BY <1>1, <1>2, <2>2 DEF ToldFits
  <2>4. BoundaryIsAwaited'
    BY <1>1, <1>4, <2>2 DEF BoundaryIsAwaited
  <2>5. QED
    BY <1>3, <2>3, <2>4
<1>7. QED
  BY <1>5, <1>6
-----------------------------------------------------------------------------
LEMMA QuietInvStep == ASSUME QuietInv, [QuietNext]_quietVars PROVE QuietInv'
<1>1. CASE UNCHANGED quietVars
  <2>1. UNCHANGED <<preference, told, hour, timer, leaked, handling, missed>>
    BY <1>1 DEF quietVars
  <2>2. QuietTypeOK'
    BY <2>1 DEF QuietInv, QuietTypeOK, In
  <2>3. (Telling' <=> Telling) /\ (StillTelling' <=> StillTelling) /\ (SomeDue' <=> SomeDue)
    BY <2>1 DEF Telling, StillTelling, SomeDue, Due, In
  <2>4. ToldFits' /\ BoundaryIsAwaited'
    BY <2>1, <2>3 DEF QuietInv, ToldFits, BoundaryIsAwaited
  <2>5. QED
    BY <2>2, <2>4 DEF QuietInv
<1>2. CASE QuietNext
  BY <1>2, UpdateBegins, UpdateIsSaved, UpdateIsTold, UserIsScheduled, PreferenceIsEmitted, BoundaryIsReached,
     InstanceRestarts, HourGoesBy DEF QuietNext
<1>3. QED
  BY <1>1, <1>2

LEMMA ToldIsEnough == ASSUME QuietInv PROVE ToldAgrees
BY DEF QuietInv, ToldFits, Telling, SomeDue, In, ToldAgrees

\* A merchant's clients have heard the state push is in, whatever updates,
\* timers and restarts cross, unless a telling was overwritten or lost
\* (notification-preference-schedule.service.ts:41-130).
THEOREM ClientsAreTold == QuietSpec => []ToldAgrees
<1>1. QuietInit => QuietInv
  BY QuietStarts
<1>2. QuietInv /\ [QuietNext]_quietVars => QuietInv'
  BY QuietInvStep
<1>3. QuietInv => ToldAgrees
  BY ToldIsEnough
<1>4. QED
  BY <1>1, <1>2, <1>3, PTL DEF QuietSpec

-----------------------------------------------------------------------------
(* Addresses.  What a request has read still holds unless it has been       *)
(* marked as old, and then the default it writes is the one there is.       *)

\* The rows m have one default, if there are any.
OneOf(m) ==
  \/ \A a \in AddressIds : m[a] = None
  \/ \E d \in AddressIds : m[d] = TRUE /\ \A a \in AddressIds : m[a] = TRUE => a = d

Forms ==
  { f \in FormRow(BOOLEAN) : (f.op # "create" => f.a \in AddressIds) /\ f.step # "promote" }
    \cup { f \in FormRow(AddressIds) : f.op = "delete" /\ f.step = "promote" /\ f.a \in AddressIds }

AddressTypeOK ==
  /\ isDefault \in [AddressIds -> BOOLEAN \cup { None }]
  /\ created \in 0..MaxAddresses
  /\ \A a \in AddressIds : a > created => isDefault[a] = None
  /\ form \in [Tabs -> Forms \cup { None }]
  /\ crossed \in BOOLEAN

\* What a request has read of the rows, as long as nobody has changed them.
Knows(f) ==
  /\ f.op = "create" =>
       /\ f.default \in BOOLEAN /\ f.default = f.clears
       /\ ~f.clears => Saved # {}
  /\ f.op = "update" =>
       /\ f.a \in Saved /\ f.default \in BOOLEAN
       /\ IF f.clears THEN f.default = TRUE ELSE f.default = isDefault[f.a]
  /\ f.op = "delete" => f.a \in Saved /\ ~f.clears
  /\ f.step = "write" => f.cleared = IF f.clears THEN Defaults ELSE {}
  /\ f.step = "clear" => f.clears
  /\ f.step = "promote" =>
       /\ f.op = "delete" /\ isDefault[f.a] = TRUE
       /\ f.default \in Saved /\ f.default # f.a

FormsFit ==
  \A t \in Tabs : form[t] # None =>
    /\ \A a \in form[t].cleared : a <= created
    /\ ~form[t].old => Knows(form[t])

AddressInv == AddressTypeOK /\ FormsFit /\ (crossed \/ OneOf(isDefault))
-----------------------------------------------------------------------------
LEMMA AddressesInit == AddressInit => AddressInv
<1> SUFFICES ASSUME AddressInit PROVE AddressInv
  OBVIOUS
<1>1. AddressTypeOK
  <2>1. 0 \in 0..MaxAddresses
    BY AddressAssumption
  <2>2. QED
    BY <2>1 DEF AddressInit, AddressTypeOK
<1>2. FormsFit /\ OneOf(isDefault)
  BY DEF AddressInit, FormsFit, OneOf
<1>3. QED
  BY <1>1, <1>2 DEF AddressInv

\* A request goes on, or ends, without a change of the rows.
LEMMA FormMoves ==
  ASSUME AddressInv, NEW t \in Tabs, NEW f \in Forms \cup { None }, form' = [form EXCEPT ![t] = f],
         f # None => (\A a \in f.cleared : a <= created) /\ (~f.old => Knows(f)), UNCHANGED <<isDefault, created, crossed>>
  PROVE  AddressInv'
<1> USE DEF AddressInv
<1>1. AddressTypeOK'
  BY DEF AddressTypeOK
<1>2. \A g \in Forms : Knows(g)' <=> Knows(g)
  BY DEF Knows, Saved, Defaults
<1>3. FormsFit'
  <2> SUFFICES ASSUME NEW o \in Tabs, form'[o] # None
               PROVE  (\A a \in form'[o].cleared : a <= created) /\ (~form'[o].old => Knows(form[o])')
    BY DEF FormsFit
  <2>1. form'[o] \in Forms /\ (o = t => form'[o] = f) /\ (o # t => form'[o] = form[o])
    BY DEF AddressTypeOK
  <2>2. PICK g \in Forms : g = form'[o] /\ (\A a \in g.cleared : a <= created) /\ (~g.old => Knows(g))
    BY <2>1 DEF FormsFit
  <2>3. ~g.old => Knows(g)'
    BY <1>2, <2>2
  <2>4. QED
    BY <2>2, <2>3 DEF Knows
<1>4. QED
  BY <1>1, <1>3 DEF OneOf

LEMMA RequestEnds == ASSUME AddressInv, NEW t \in Tabs, RollsBack(t) PROVE AddressInv'
<1>1. form' = [form EXCEPT ![t] = None] /\ UNCHANGED <<isDefault, created, crossed>>
  BY DEF RollsBack
<1>2. None \in Forms \cup { None }
  OBVIOUS
<1>3. QED
  BY <1>1, <1>2, FormMoves

\* A request writes the rows: either they have one default then, or it says
\* that it has crossed another.
LEMMA RowsMove ==
  ASSUME AddressInv, NEW t \in Tabs, form[t] # None,
         NEW next \in [AddressIds -> BOOLEAN \cup { None }], Commits(t, next),
         created' \in created..MaxAddresses, \A a \in AddressIds : a > created' => next[a] = None,
         form[t].old \/ (crossed /\ ~form[t].clears) \/ OneOf(next)
  PROVE  AddressInv'
<1> USE DEF AddressInv
<1>1. /\ isDefault' = next
      /\ form' = [o \in Tabs |-> IF o = t THEN None ELSE IF form[o] # None THEN [form[o] EXCEPT !.old = TRUE] ELSE None]
      /\ crossed' = (form[t].old \/ (crossed /\ ~form[t].clears))
  BY DEF Commits
<1>2. \A g \in Forms : /\ [g EXCEPT !.old = TRUE] \in Forms /\ [g EXCEPT !.old = TRUE].old
                        /\ [g EXCEPT !.old = TRUE].cleared = g.cleared
  BY DEF FormRow, Forms
<1>3. /\ form' \in [Tabs -> Forms \cup { None }]
      /\ \A o \in Tabs : form'[o] # None => form'[o].old /\ form[o] # None /\ form'[o].cleared = form[o].cleared
  BY <1>1, <1>2 DEF AddressTypeOK
<1>4. AddressTypeOK' /\ created <= created'
  BY <1>1, <1>3 DEF AddressTypeOK
<1>5. FormsFit'
  <2> SUFFICES ASSUME NEW o \in Tabs, form'[o] # None PROVE \A a \in form'[o].cleared : a <= created'
    BY <1>3 DEF FormsFit
  <2>1. \A a \in form[o].cleared : a \in Nat /\ a <= created
    BY <1>3 DEF FormsFit, AddressTypeOK, Forms, FormRow, AddressIds
  <2>2. created \in Nat /\ created' \in Nat
    BY <1>4, AddressAssumption DEF AddressTypeOK
  <2>3. QED
    BY <1>3, <1>4, <2>1, <2>2
<1>6. crossed' \/ OneOf(next)
  BY <1>1
<1>7. QED
  BY <1>1, <1>4, <1>5, <1>6 DEF OneOf

\* A request begins.
LEMMA RequestBegins ==
  ASSUME AddressInv, NEW t \in Tabs, (\E asked \in BOOLEAN : BeginCreate(t, asked))
           \/ \E a \in AddressIds : BeginDelete(t, a) \/ \E asked \in { TRUE, FALSE, None } : BeginChange(t, a, asked)
  PROVE  AddressInv'
<1> USE DEF AddressInv
<1> DEFINE Begun(op, b, default, clears) ==
        /\ form' = [form EXCEPT ![t] = [op |-> op, a |-> b, default |-> default, step |-> IF clears THEN "clear" ELSE "write",
                               clears |-> clears, cleared |-> {}, removed |-> {}, old |-> FALSE]]
        /\ op = "create" => default = clears /\ (~clears => Saved # {})
        /\ op = "update" => b \in Saved /\ IF clears THEN default ELSE default = isDefault[b]
        /\ op = "delete" => b \in Saved /\ ~clears
           Somehow == \E op \in { "create", "update", "delete" }, b \in AddressIds \cup { None }, default \in BOOLEAN, clears \in BOOLEAN : Begun(op, b, default, clears)
<1>1. Somehow
  <2>1. ASSUME NEW asked \in BOOLEAN, BeginCreate(t, asked) PROVE Somehow
    BY <2>1, AddressAssumption DEF BeginCreate, Opens
  <2>2. ASSUME NEW a \in AddressIds, BeginDelete(t, a) PROVE Somehow
    BY <2>2 DEF BeginDelete, Opens
  <2>3. ASSUME NEW a \in AddressIds, NEW asked \in { TRUE, FALSE, None }, BeginChange(t, a, asked) PROVE Somehow
    <3> DEFINE default == asked = TRUE \/ (asked = None /\ isDefault[a])
               clears == ClearsOthers(asked, isDefault[a])
    <3>1. Opens(t, "update", a, default, clears) /\ a \in Saved
      BY <2>3 DEF BeginChange
    <3>2. isDefault[a] \in BOOLEAN
      BY <3>1 DEF AddressTypeOK, Saved
    <3>3. default \in BOOLEAN /\ clears \in BOOLEAN /\ IF clears THEN default ELSE default = isDefault[a]
      BY <2>3, <3>2, AddressAssumption DEF BeginChange, ClearsOthers
    <3> HIDE DEF default, clears
    <3>4. QED
      BY <3>1, <3>3 DEF Opens
  <2>4. QED
    BY <2>1, <2>2, <2>3
<1>2. PICK op \in { "create", "update", "delete" }, b \in AddressIds \cup { None }, default \in BOOLEAN, clears \in BOOLEAN : Begun(op, b, default, clears)
  BY <1>1
<1> DEFINE f == [op |-> op, a |-> b, default |-> default, step |-> IF clears THEN "clear" ELSE "write",
                 clears |-> clears, cleared |-> {}, removed |-> {}, old |-> FALSE]
<1>3. f \in Forms /\ f.cleared = {}
  BY <1>2 DEF FormRow, Forms, Saved
<1>4. Knows(f)
  BY <1>2 DEF Knows
<1>5. UNCHANGED <<isDefault, created, crossed>>
  BY DEF BeginCreate, BeginChange, BeginDelete
<1> HIDE DEF f
<1>6. form' = [form EXCEPT ![t] = f]
  BY <1>2 DEF f
<1>7. QED
  BY <1>3, <1>4, <1>5, <1>6, FormMoves

LEMMA DefaultsAreCleared == ASSUME AddressInv, NEW t \in Tabs, ClearDefaults(t) PROVE AddressInv'
<1> USE DEF AddressInv
<1> DEFINE f == [form[t] EXCEPT !.step = "write", !.cleared = Defaults]
<1>1. /\ form[t] # None /\ form[t].step = "clear"
      /\ form' = [form EXCEPT ![t] = f] /\ UNCHANGED <<isDefault, created, crossed>>
  BY DEF ClearDefaults, Fills
<1>2. form[t] \in Forms
  BY <1>1 DEF AddressTypeOK
<1>3. /\ f \in Forms /\ f.step = "write" /\ f.cleared = Defaults /\ f.op = form[t].op /\ f.a = form[t].a
      /\ f.default = form[t].default /\ f.clears = form[t].clears /\ f.old = form[t].old
  <2>1. form[t] \in FormRow(BOOLEAN) /\ (form[t].op # "create" => form[t].a \in AddressIds)
    BY <1>1, <1>2 DEF Forms
  <2>2. /\ f \in FormRow(BOOLEAN) /\ f.step = "write" /\ f.cleared = Defaults /\ f.op = form[t].op /\ f.a = form[t].a
        /\ f.default = form[t].default /\ f.clears = form[t].clears /\ f.old = form[t].old
    BY <2>1 DEF FormRow, Defaults
  <2>3. QED
    BY <2>1, <2>2 DEF Forms
<1> HIDE DEF f
<1>4. ~f.old => Knows(f)
  BY <1>1, <1>3 DEF FormsFit, Knows
<1>5. \A a \in f.cleared : a <= created
  <2>1. \A a \in AddressIds : isDefault[a] = TRUE => ~(a > created)
    BY AddressAssumption DEF AddressTypeOK
  <2>2. \A a \in AddressIds : ~(a > created) => a <= created
    BY AddressAssumption DEF AddressIds, AddressTypeOK
  <2>3. QED
    BY <1>3, <2>1, <2>2 DEF Defaults
<1>6. QED
  BY <1>1, <1>3, <1>4, <1>5, FormMoves

LEMMA FormIs ==
  ASSUME AddressTypeOK, NEW t \in Tabs, form[t] # None
  PROVE  /\ form[t] \in Forms
         /\ form[t].op # "create" => form[t].a \in AddressIds
         /\ form[t].op # "delete" => form[t].default \in BOOLEAN
         /\ form[t].step = "promote" => form[t].op = "delete" /\ form[t].default \in AddressIds
<1>1. PICK f \in Forms : f = form[t]
  BY DEF AddressTypeOK
<1>2. /\ f.op # "create" => f.a \in AddressIds
      /\ f.op # "delete" => f.default \in BOOLEAN
      /\ f.step = "promote" => f.op = "delete" /\ f.default \in AddressIds
  BY DEF Forms, FormRow
<1>3. QED
  BY <1>1, <1>2

\* What a request writes once it has taken the default from the others.
LEMMA RowsAreCleared ==
  ASSUME AddressInv, NEW t \in Tabs, form[t] # None
  PROVE  /\ Cleared(t) \in [AddressIds -> BOOLEAN \cup { None }]
         /\ \A a \in AddressIds : a > created => Cleared(t)[a] = None
<1>1. \A a \in AddressIds : Cleared(t)[a] = IF a \in form[t].cleared THEN FALSE ELSE isDefault[a]
  BY DEF Cleared
<1>2. Cleared(t) \in [AddressIds -> BOOLEAN \cup { None }]
  BY DEF AddressInv, AddressTypeOK, Cleared
<1>3. ASSUME NEW a \in AddressIds, a > created PROVE a \notin form[t].cleared
  <2>1. a \in Nat /\ created \in Nat
    BY AddressAssumption DEF AddressInv, AddressTypeOK, AddressIds
  <2>2. QED
    BY <1>3, <2>1 DEF AddressInv, FormsFit
<1>4. QED
  BY <1>1, <1>2, <1>3 DEF AddressInv, AddressTypeOK

\* What has become of the rows when a request has read them as they are, has
\* taken the default from all others and gives it to one.
LEMMA OneIsChosen ==
  ASSUME AddressInv, NEW t \in Tabs, form[t] # None, Knows(form[t]), form[t].step = "write", form[t].clears,
         NEW d \in AddressIds, NEW next, next = [Cleared(t) EXCEPT ![d] = TRUE]
  PROVE  OneOf(next)
<1>1. form[t].cleared = Defaults
  BY DEF Knows
<1>2. \A a \in AddressIds : Cleared(t)[a] # TRUE
  BY <1>1, AddressAssumption DEF Cleared, Defaults
<1>3. next[d] = TRUE /\ \A a \in AddressIds : a # d => next[a] = Cleared(t)[a]
  BY DEF Cleared
<1>4. QED
  BY <1>2, <1>3 DEF OneOf

LEMMA AddressIsCreated == ASSUME AddressInv, NEW t \in Tabs, CreateAddress(t) PROVE AddressInv'
<1> USE DEF AddressInv
<1> DEFINE next == [Cleared(t) EXCEPT ![created'] = form[t].default]
<1>1. /\ form[t] # None /\ form[t].step = "write" /\ form[t].op = "create"
      /\ created < MaxAddresses /\ created' = created + 1 /\ Commits(t, next)
  BY DEF CreateAddress, Fills
<1>2. form[t] \in Forms /\ form[t].default \in BOOLEAN
  BY <1>1, FormIs
<1>3. created' \in AddressIds /\ created' \in created..MaxAddresses /\ created \in Nat
  BY <1>1, AddressAssumption DEF AddressTypeOK, AddressIds
<1>4. next \in [AddressIds -> BOOLEAN \cup { None }] /\ \A a \in AddressIds : next[a] = IF a = created' THEN form[t].default ELSE Cleared(t)[a]
  BY <1>1, <1>2, <1>3, RowsAreCleared
<1>5. \A a \in AddressIds : a > created' => next[a] = None
  <2>1. ASSUME NEW a \in AddressIds, a > created' PROVE a > created /\ a # created'
    <3>1. a \in Int
      BY DEF AddressIds
    <3>2. QED
      BY <1>1, <1>3, <2>1, <3>1
  <2>2. QED
    BY <1>1, <1>4, <2>1, RowsAreCleared
<1>6. isDefault[created'] = None
  BY <1>1, <1>3 DEF AddressTypeOK
<1>7. ASSUME ~form[t].old, ~crossed \/ form[t].clears PROVE OneOf(next)
  <2>1. Knows(form[t])
    BY <1>1, <1>7 DEF FormsFit
  <2>2. CASE form[t].clears
    <3>1. form[t].default = TRUE
      BY <1>1, <1>2, <2>1, <2>2 DEF Knows
    <3>2. QED
      BY <1>1, <1>3, <2>1, <2>2, <3>1, OneIsChosen
  <2>3. CASE ~form[t].clears
    <3>1. form[t].default = FALSE /\ Saved # {} /\ form[t].cleared = {}
      BY <1>1, <1>2, <2>1, <2>3 DEF Knows
    <3>2. \A a \in AddressIds : next[a] = IF a = created' THEN FALSE ELSE isDefault[a]
      BY <1>4, <3>1 DEF Cleared
    <3>3. PICK d \in AddressIds : isDefault[d] = TRUE /\ \A a \in AddressIds : isDefault[a] = TRUE => a = d
      BY <1>7, <2>3, <3>1 DEF OneOf, Saved
    <3>4. d # created'
      BY <1>6, <3>3, AddressAssumption
    <3> HIDE DEF next
    <3>5. QED
      BY <3>2, <3>3, <3>4 DEF OneOf
  <2>4. QED
    BY <2>2, <2>3
<1> HIDE DEF next
<1>8. QED
  BY <1>1, <1>3, <1>4, <1>5, <1>7, RowsMove

LEMMA AddressIsUpdated == ASSUME AddressInv, NEW t \in Tabs, UpdateAddress(t) PROVE AddressInv'
<1> USE DEF AddressInv
<1> DEFINE next == [Cleared(t) EXCEPT ![form[t].a] = form[t].default]
<1>1. form[t] # None /\ form[t].step = "write" /\ form[t].op = "update"
  BY DEF UpdateAddress, Fills
<1>2. form[t] \in Forms /\ form[t].default \in BOOLEAN /\ form[t].a \in AddressIds
  BY <1>1, FormIs
<1>3. CASE form[t].a \notin Saved
  BY <1>3, RequestEnds DEF UpdateAddress
<1>4. CASE form[t].a \in Saved
  <2>1. Commits(t, next) /\ created' = created
    BY <1>4 DEF UpdateAddress
  <2>2. next \in [AddressIds -> BOOLEAN \cup { None }] /\ \A a \in AddressIds : next[a] = IF a = form[t].a THEN form[t].default ELSE Cleared(t)[a]
    BY <1>1, <1>2, RowsAreCleared
  <2>3. \A a \in AddressIds : a > created' => next[a] = None
    BY <1>1, <1>4, <2>1, <2>2, RowsAreCleared DEF AddressTypeOK, Saved
  <2>4. created' \in created..MaxAddresses
    BY <2>1, AddressAssumption DEF AddressTypeOK
  <2>5. ASSUME ~form[t].old, ~crossed \/ form[t].clears PROVE OneOf(next)
    <3>1. Knows(form[t])
      BY <1>1, <2>5 DEF FormsFit
    <3>2. CASE form[t].clears
      <4>1. form[t].default = TRUE
        BY <1>1, <3>1, <3>2 DEF Knows
      <4>2. QED
        BY <1>1, <1>2, <3>1, <3>2, <4>1, OneIsChosen
    <3>3. CASE ~form[t].clears
      <4>1. form[t].default = isDefault[form[t].a] /\ form[t].cleared = {}
        BY <1>1, <3>1, <3>3 DEF Knows
      <4>2. \A a \in AddressIds : next[a] = isDefault[a]
        BY <2>2, <4>1 DEF Cleared
      <4> HIDE DEF next
      <4>3. QED
        BY <2>5, <3>3, <4>2 DEF OneOf
    <3>4. QED
      BY <3>2, <3>3
  <2> HIDE DEF next
  <2>6. QED
    BY <1>1, <2>1, <2>2, <2>3, <2>4, <2>5, RowsMove
<1>5. QED
  BY <1>3, <1>4

LEMMA AddressIsDeleted == ASSUME AddressInv, NEW t \in Tabs, DeleteAddress(t) PROVE AddressInv'
<1> USE DEF AddressInv
<1> DEFINE a == form[t].a
           rest == Saved \ { a }
<1>1. form[t] # None /\ form[t].step = "write" /\ form[t].op = "delete"
  BY DEF DeleteAddress, Fills
<1>2. form[t] \in Forms /\ a \in AddressIds
  BY <1>1, FormIs
<1>3. CASE a \notin Saved
  BY <1>3, RequestEnds DEF DeleteAddress
<1>4. CASE a \in Saved /\ isDefault[a] /\ rest # {}
  <2> DEFINE f == [form[t] EXCEPT !.step = "promote", !.removed = { a }, !.default = Max(rest)]
  <2>1. form' = [form EXCEPT ![t] = f] /\ UNCHANGED <<isDefault, created, crossed>>
    BY <1>4 DEF DeleteAddress
  <2>2. Max(rest) \in rest
    <3>1. rest \in SUBSET AddressIds /\ IsFiniteSet(AddressIds) /\ AddressIds \subseteq Nat
      BY FS_Interval, AddressAssumption DEF Saved, AddressIds
    <3>2. IsFiniteSet(rest) /\ rest \subseteq Nat
      BY <3>1, PartIsFinite
    <3> HIDE DEF rest
    <3>3. \E x \in rest : \A y \in rest : x >= y
      BY <1>4, <3>2, Greatest
    <3>4. QED
      BY <3>3 DEF Max
  <2> DEFINE b == Max(rest)
  <2>3. b \in Saved /\ b # a /\ b \in AddressIds
    BY <2>2 DEF Saved
  <2> HIDE DEF b
  <2>4. f = [form[t] EXCEPT !.step = "promote", !.removed = { a }, !.default = b]
    BY DEF b
  <2>5. /\ f \in Forms /\ f.step = "promote" /\ f.default = b /\ f.op = "delete" /\ f.a = a
        /\ f.clears = form[t].clears /\ f.old = form[t].old /\ f.cleared = form[t].cleared
    BY <1>1, <1>2, <2>3, <2>4 DEF Forms, FormRow
  <2>6. isDefault[a] = TRUE
    BY <1>4 DEF Saved, AddressTypeOK
  <2> HIDE DEF f, a
  <2>7. (\A x \in f.cleared : x <= created) /\ (~f.old => Knows(f))
    BY <1>1, <1>4, <2>3, <2>5, <2>6 DEF FormsFit, Knows
  <2>8. QED
    BY <2>1, <2>5, <2>7, FormMoves
<1>5. CASE a \in Saved /\ ~(isDefault[a] /\ rest # {})
  <2> DEFINE next == [isDefault EXCEPT ![a] = None]
  <2>1. Commits(t, next) /\ created' = created
    BY <1>5 DEF DeleteAddress
  <2>2. next \in [AddressIds -> BOOLEAN \cup { None }] /\ \A x \in AddressIds : x > created' => next[x] = None
    BY <2>1 DEF AddressTypeOK
  <2>3. created' \in created..MaxAddresses
    BY <2>1, AddressAssumption DEF AddressTypeOK
  <2>4. ASSUME ~crossed PROVE OneOf(next)
    <3>1. \A x \in AddressIds : next[x] = IF x = a THEN None ELSE isDefault[x]
      BY DEF AddressTypeOK
    <3> HIDE DEF next, a
    <3>2. CASE rest = {}
      BY <3>1, <3>2 DEF OneOf, Saved
    <3>3. CASE rest # {} /\ isDefault[a] # TRUE
      <4>1. PICK d \in AddressIds : isDefault[d] = TRUE /\ \A x \in AddressIds : isDefault[x] = TRUE => x = d
        BY <1>5, <2>4 DEF OneOf, Saved
      <4>2. QED
        BY <3>1, <3>3, <4>1, AddressAssumption DEF OneOf
    <3>4. QED
      BY <1>5, <3>2, <3>3
  <2>5. form[t].old \/ (crossed /\ ~form[t].clears) \/ OneOf(next)
    <3>1. ~form[t].old => ~form[t].clears
      BY <1>1 DEF FormsFit, Knows
    <3>2. QED
      BY <2>4, <3>1
  <2> HIDE DEF next
  <2>6. QED
    BY <1>1, <2>1, <2>2, <2>3, <2>5, RowsMove
<1>6. QED
  BY <1>3, <1>4, <1>5

LEMMA LatestIsPromoted == ASSUME AddressInv, NEW t \in Tabs, PromoteLatest(t) PROVE AddressInv'
<1> USE DEF AddressInv
<1> DEFINE a == form[t].a
           b == form[t].default
           next == [isDefault EXCEPT ![a] = None, ![b] = TRUE]
<1>1. form[t] # None /\ form[t].step = "promote"
  BY DEF PromoteLatest, Fills
<1>2. form[t] \in Forms /\ a \in AddressIds /\ b \in AddressIds
  BY <1>1, FormIs
<1>3. CASE b \notin Saved
  BY <1>3, RequestEnds DEF PromoteLatest
<1>4. CASE b \in Saved
  <2>1. Commits(t, next) /\ created' = created
    BY <1>4 DEF PromoteLatest
  <2>2. next \in [AddressIds -> BOOLEAN \cup { None }] /\ \A x \in AddressIds : next[x] = IF x = b THEN TRUE ELSE IF x = a THEN None ELSE isDefault[x]
    BY <1>2 DEF AddressTypeOK
  <2>3. created' \in created..MaxAddresses
    BY <2>1, AddressAssumption DEF AddressTypeOK
  <2>4. \A x \in AddressIds : x > created' => next[x] = None
    BY <1>4, <2>1, <2>2 DEF AddressTypeOK, Saved
  <2>5. ASSUME ~form[t].old, ~crossed PROVE OneOf(next)
    <3>1. isDefault[a] = TRUE
      BY <1>1, <2>5 DEF FormsFit, Knows
    <3> HIDE DEF next, a, b
    <3>2. \A x \in AddressIds : isDefault[x] = TRUE => x = a
      BY <1>2, <2>5, <3>1, AddressAssumption DEF OneOf
    <3>3. QED
      BY <1>2, <2>2, <3>2, AddressAssumption DEF OneOf
  <2> HIDE DEF next
  <2>6. form[t].old \/ (crossed /\ ~form[t].clears) \/ OneOf(next)
    <3>1. ~form[t].old => ~form[t].clears
      BY <1>1 DEF FormsFit, Knows
    <3>2. QED
      BY <2>5, <3>1
  <2>7. QED
    BY <1>1, <2>1, <2>2, <2>3, <2>4, <2>6, RowsMove
<1>5. QED
  BY <1>3, <1>4
-----------------------------------------------------------------------------
LEMMA AddressInvStep == ASSUME AddressInv, [AddressNext]_addressVars PROVE AddressInv'
<1>1. CASE UNCHANGED addressVars
  BY <1>1 DEF addressVars, AddressInv, AddressTypeOK, FormsFit, OneOf, Knows, Saved, Defaults
<1>2. ASSUME NEW t \in Tabs, NEW asked \in BOOLEAN, BeginCreate(t, asked) PROVE AddressInv'
  <2>1. UNCHANGED <<isDefault, created, crossed>>
    BY <1>2 DEF BeginCreate
  <2>2. QED
    BY <1>2, RequestBegins
<1>3. ASSUME NEW t \in Tabs, NEW a \in AddressIds, BeginDelete(t, a) \/ \E asked \in { TRUE, FALSE, None } : BeginChange(t, a, asked)
      PROVE  AddressInv'
  BY <1>3, RequestBegins
<1>4. ASSUME NEW t \in Tabs, RequestIsRefused(t) PROVE AddressInv'
  BY <1>4, RequestEnds DEF RequestIsRefused
<1>5. QED
  BY <1>1, <1>2, <1>3, <1>4, DefaultsAreCleared, AddressIsCreated, AddressIsUpdated, AddressIsDeleted, LatestIsPromoted
  DEF AddressNext

LEMMA OneIsCounted == ASSUME AddressInv PROVE DefaultIsOne
<1> SUFFICES ASSUME ~crossed, Saved # {} PROVE Cardinality(Defaults) = 1
  BY DEF DefaultIsOne
<1>1. PICK d \in AddressIds : isDefault[d] = TRUE /\ \A a \in AddressIds : isDefault[a] = TRUE => a = d
  BY DEF AddressInv, OneOf, Saved
<1>2. Defaults = { d }
  BY <1>1 DEF Defaults
<1>3. QED
  BY <1>2, FS_Singleton

\* A customer who has addresses has one default, but for requests that
\* crossed (customer-addresses.service.ts:41-170).
THEOREM OneDefault == AddressSpec => []DefaultIsOne
<1>1. AddressInit => AddressInv
  BY AddressesInit
<1>2. AddressInv /\ [AddressNext]_addressVars => AddressInv'
  BY AddressInvStep
<1>3. AddressInv => DefaultIsOne
  BY OneIsCounted
<1>4. QED
  BY <1>1, <1>2, <1>3, PTL DEF AddressSpec

-----------------------------------------------------------------------------
(* Support tickets.  A request nobody has overtaken has read the ticket as  *)
(* it is, and one that owes the change of status keeps an answer from being *)
(* forgotten.                                                               *)

ReplyRow == [agent : BOOLEAN, at : Nat, late : BOOLEAN]
EntryRow == [from : TicketStatus \cup { None }, to : TicketStatus, late : BOOLEAN]

\* The histories: an entry that is not late begins where the one before ended,
\* and a reply never tells of a history longer than there is.
HistoriesFit ==
  /\ ticket.status \in TicketStatus
  /\ trail \in Seq(EntryRow) /\ trail # <<>>
  /\ replies \in Seq(ReplyRow)
  /\ lost \in Nat
  /\ TrailAgrees
  /\ \A i \in 1..Len(replies) : replies[i].at <= Len(trail)

\* A request that nobody has overtaken has read the ticket as it is.
AsksFit ==
  /\ request \in [Requests -> RequestRow \cup { None }]
  /\ \A q \in Requests : request[q] # None =>
       /\ request[q].at <= Len(trail)
       /\ request[q].at = Len(trail) => request[q].saw = ticket.status

\* While the ticket waits for a customer who has answered, a request is about
\* to take the answer up.
AnswersFit ==
  ticket.status = "PENDING_CUSTOMER" /\ lost = 0 =>
    \/ \A i \in 1..Len(replies) : ~replies[i].agent /\ ~replies[i].late => replies[i].at < Len(trail)
    \/ \E q \in Requests : Asks(q, "status")

TicketInv == HistoriesFit /\ AsksFit /\ AnswersFit
-----------------------------------------------------------------------------
LEMMA TicketsInit == SupportInit => TicketInv
BY SupportAssumption DEF SupportInit, TicketInv, HistoriesFit, AsksFit, AnswersFit, TrailAgrees, TicketStatus, Asks, ReplyRow, EntryRow

\* A request begins with what the ticket says.
LEMMA TicketIsRead ==
  ASSUME TicketInv, NEW q \in Requests, NEW to \in TicketStatus, NEW agent \in BOOLEAN, NEW step \in { "reply", "status" },
         Reads(q, step, agent, to)
  PROVE  TicketInv'
<1> USE DEF TicketInv
<1> DEFINE row == [step |-> step, agent |-> agent, saw |-> ticket.status, to |-> to, at |-> Len(trail)]
<1>1. /\ request[q] = None /\ request' = [request EXCEPT ![q] = row]
      /\ UNCHANGED <<ticket, trail, replies, lost>>
  BY DEF Reads
<1>2. row \in RequestRow /\ row.at = Len(trail) /\ row.saw = ticket.status
  BY DEF HistoriesFit, RequestRow
<1> HIDE DEF row
<1>3. HistoriesFit'
  BY <1>1 DEF HistoriesFit, TrailAgrees
<1>4. AsksFit'
  BY <1>1, <1>2, Len(trail) \in Nat DEF AsksFit, HistoriesFit
<1>5. \A o \in Requests : Asks(o, "status") => Asks(o, "status")'
  BY <1>1 DEF Asks, AsksFit
<1>6. AnswersFit'
  BY <1>1, <1>5 DEF AnswersFit
<1>7. QED
  BY <1>3, <1>4, <1>6

\* A customer's answer to a ticket that waits for it leaves a request that
\* takes it up.
LEMMA TicketIsAnswered == ASSUME TicketInv, NEW q \in Requests, AddMessage(q) PROVE TicketInv'
<1> USE DEF TicketInv
<1> DEFINE new == [agent |-> request[q].agent, at |-> Len(trail), late |-> request[q].at # Len(trail)]
           next == [request[q] EXCEPT !.step = "status"]
           takes == Reopens(request[q].agent, request[q].saw)
<1>1. /\ request[q] # None /\ request[q].step = "reply"
      /\ replies' = Append(replies, new) /\ UNCHANGED <<ticket, trail, lost>>
      /\ request' = [request EXCEPT ![q] = IF takes THEN next ELSE None]
  BY DEF AddMessage, Asks
<1>2. request[q] \in RequestRow
  BY <1>1 DEF AsksFit
<1>3. /\ next \in RequestRow /\ next.at = request[q].at /\ next.saw = request[q].saw /\ next.step = "status"
      /\ new \in ReplyRow /\ new.at = Len(trail)
      /\ new.agent = request[q].agent /\ (~new.late => request[q].at = Len(trail))
  <2>1. Len(trail) \in Nat /\ request[q].agent \in BOOLEAN /\ (request[q].at # Len(trail)) \in BOOLEAN
    BY <1>2 DEF RequestRow, HistoriesFit
  <2>2. /\ next \in RequestRow /\ next.at = request[q].at /\ next.saw = request[q].saw /\ next.step = "status"
    BY <1>2 DEF RequestRow
  <2>3. QED
    BY <2>1, <2>2 DEF ReplyRow
<1> HIDE DEF new, next
<1>4. /\ Len(replies') = Len(replies) + 1 /\ replies'[Len(replies')] = new
      /\ \A i \in 1..Len(replies) : replies'[i] = replies[i]
      /\ replies' \in Seq(ReplyRow)
  BY <1>1, <1>3 DEF HistoriesFit
<1>5. \A i \in 1..Len(replies') : i = Len(replies') \/ i \in 1..Len(replies)
  BY <1>4 DEF HistoriesFit
<1>6. HistoriesFit'
  <2>1. \A i \in 1..Len(replies') : replies'[i].at <= Len(trail)
    BY <1>3, <1>4, <1>5, Len(trail) \in Nat DEF HistoriesFit
  <2>2. QED
    BY <1>1, <1>4, <2>1 DEF HistoriesFit, TrailAgrees
<1>7. AsksFit'
  BY <1>1, <1>2, <1>3 DEF AsksFit
<1>8. AnswersFit'
  <2> SUFFICES ASSUME ticket.status = "PENDING_CUSTOMER", lost = 0, ~\E o \in Requests : Asks(o, "status")'
               PROVE  \A i \in 1..Len(replies') : ~replies'[i].agent /\ ~replies'[i].late => replies'[i].at < Len(trail)
    BY <1>1 DEF AnswersFit
  <2>1. ~takes
    BY <1>1, <1>2, <1>3, SupportAssumption DEF Asks, AsksFit
  <2>2. \A o \in Requests : ~Asks(o, "status")
    BY <1>1 DEF Asks, AsksFit
  <2>3. \A i \in 1..Len(replies) : ~replies[i].agent /\ ~replies[i].late => replies[i].at < Len(trail)
    BY <2>2 DEF AnswersFit
  <2>4. ~(~new.agent /\ ~new.late)
    BY <1>1, <1>3, <2>1 DEF Reopens, AsksFit
  <2>5. QED
    BY <1>4, <1>5, <2>3, <2>4
<1>9. QED
  BY <1>6, <1>7, <1>8

\* A new entry leaves every reply behind.
LEMMA TicketMoves == ASSUME TicketInv, NEW q \in Requests, ChangeStatus(q) PROVE TicketInv'
<1> USE DEF TicketInv
<1> DEFINE to == request[q].to
           entry == [Entry(request[q].saw, to) EXCEPT !.late = request[q].at # Len(trail)]
<1>1. /\ request[q] # None /\ trail' = Append(trail, entry) /\ ticket'.status = to
      /\ request' = [request EXCEPT ![q] = None] /\ UNCHANGED <<replies, lost>>
  BY DEF ChangeStatus, Asks
<1>2. request[q] \in RequestRow
  BY <1>1 DEF AsksFit
<1>3. /\ entry \in EntryRow
      /\ entry.to = to /\ to \in TicketStatus /\ entry.from = request[q].saw
      /\ ~entry.late => request[q].at = Len(trail)
  BY <1>2 DEF RequestRow, EntryRow, Entry
<1> HIDE DEF entry, to
<1>4. /\ Len(trail') = Len(trail) + 1 /\ trail'[Len(trail')] = entry /\ trail' # <<>>
      /\ \A i \in 1..Len(trail) : trail'[i] = trail[i]
      /\ trail' \in Seq(EntryRow)
      /\ Len(trail) \in Nat /\ Len(trail) \in 1..Len(trail)
  BY <1>1, <1>3 DEF HistoriesFit
<1>5. TrailAgrees'
  <2> SUFFICES ASSUME NEW i \in 2..Len(trail') PROVE trail'[i].late \/ trail'[i].from = trail'[i - 1].to
    BY <1>1, <1>3, <1>4 DEF TrailAgrees
  <2>1. CASE i = Len(trail')
    <3>1. trail'[i] = entry /\ trail'[i - 1] = trail[Len(trail)]
      BY <1>4, <2>1
    <3>2. trail[Len(trail)].to = ticket.status
      BY DEF HistoriesFit, TrailAgrees
    <3>3. QED
      BY <1>1, <1>3, <3>1, <3>2 DEF AsksFit
  <2>2. CASE i # Len(trail')
    <3>1. i \in 2..Len(trail) /\ i \in 1..Len(trail) /\ i - 1 \in 1..Len(trail)
      BY <1>4, <2>2
    <3>2. QED
      BY <1>4, <3>1 DEF HistoriesFit, TrailAgrees
  <2>3. QED
    BY <2>1, <2>2
<1>6. ASSUME NEW i \in 1..Len(replies) PROVE replies[i].at <= Len(trail') /\ replies[i].at < Len(trail')
  <2>1. replies[i].at \in Nat /\ replies[i].at <= Len(trail)
    <3>1. replies[i] \in ReplyRow /\ replies[i].at <= Len(trail)
      BY DEF HistoriesFit
    <3>2. QED
      BY <3>1 DEF ReplyRow
  <2>2. Len(trail) \in Nat /\ Len(trail') = Len(trail) + 1
    BY <1>4
  <2>3. QED
    BY <2>1, <2>2
<1>7. HistoriesFit'
  BY <1>1, <1>3, <1>4, <1>5, <1>6 DEF HistoriesFit
<1>8. AsksFit'
  <2>1. \A o \in Requests : request'[o] # None => request'[o] = request[o] /\ request[o].at \in Nat /\ request[o].at <= Len(trail)
    <3>1. request' \in [Requests -> RequestRow \cup { None }] /\ \A o \in Requests : request'[o] # None => request'[o] = request[o]
      BY <1>1 DEF AsksFit
    <3>2. \A o \in Requests : request[o] # None => request[o] \in RequestRow /\ request[o].at <= Len(trail)
      BY DEF AsksFit
    <3>3. QED
      BY <3>1, <3>2 DEF RequestRow
  <2>2. \A o \in Requests : request'[o] # None => request'[o].at <= Len(trail') /\ request'[o].at # Len(trail')
    BY <1>4, <2>1
  <2>3. QED
    BY <1>1, <2>2 DEF AsksFit
<1>9. AnswersFit'
  BY <1>1, <1>6 DEF AnswersFit
<1>10. QED
  BY <1>7, <1>8, <1>9

LEMMA TicketInvStep == ASSUME TicketInv, [SupportNext]_supportVars PROVE TicketInv'
<1>1. CASE UNCHANGED supportVars
  BY <1>1 DEF supportVars, TicketInv, HistoriesFit, AsksFit, AnswersFit, TrailAgrees, Asks
<1>2. ASSUME NEW q \in Requests, NEW agent \in BOOLEAN, BeginReply(q, agent) PROVE TicketInv'
  BY <1>2, TicketIsRead, "IN_PROGRESS" \in TicketStatus DEF BeginReply, TicketStatus
<1>3. ASSUME NEW q \in Requests, NEW to \in TicketStatus, BeginChangeOfStatus(q, to) PROVE TicketInv'
  BY <1>3, TicketIsRead DEF BeginChangeOfStatus
<1>4. ASSUME NEW q \in Requests, RequestDies(q) PROVE TicketInv'
  BY <1>4 DEF RequestDies, TicketInv, HistoriesFit, AsksFit, AnswersFit, TrailAgrees
<1>5. QED
  BY <1>1, <1>2, <1>3, <1>4, TicketIsAnswered, TicketMoves DEF SupportNext

LEMMA TicketInvIsEnough == ASSUME TicketInv PROVE TicketAgrees
<1>1. TrailAgrees
  BY DEF TicketInv, HistoriesFit
<1>2. DOMAIN replies = 1..Len(replies)
  BY DEF TicketInv, HistoriesFit
<1>3. AnswersAreTakenUp
  BY <1>2 DEF TicketInv, AnswersFit, AnswersAreTakenUp, Asks
<1>4. QED
  BY <1>1, <1>3 DEF TicketAgrees

\* A ticket's history leads to its status without a break, and a ticket does
\* not go on waiting for a customer who has answered
\* (support-tickets.service.ts:69-126).
THEOREM TicketsAgree == SupportSpec => []TicketAgrees
<1>1. SupportInit => TicketInv
  BY TicketsInit
<1>2. TicketInv /\ [SupportNext]_supportVars => TicketInv'
  BY TicketInvStep
<1>3. TicketInv => TicketAgrees
  BY TicketInvIsEnough
<1>4. QED
  BY <1>1, <1>2, <1>3, PTL DEF SupportSpec
=============================================================================
