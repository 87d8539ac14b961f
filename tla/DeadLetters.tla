----------------------------- MODULE DeadLetters -----------------------------
(***************************************************************************)
(* One piece of work in the queue and its dead letters (queue.service,     *)
(* dlq.service, admin-dlq.controller): a job that has failed three times   *)
(* becomes a dead letter, which admins put back into the queue as a new    *)
(* job, remove, or let expire.  What BullMQ does of itself, running a job  *)
(* again whose worker has died, is taken from how the queue uses it.       *)
(***************************************************************************)
EXTENDS Rows

CONSTANTS
  MaxJobs,        \* bound: the job and the retries of its dead letter
  JobAttempts,    \* attempts
  MaxStalls,      \* times BullMQ runs a job again whose worker has died
  DeskAdmins,
  MaxQueueFaults  \* bound

JobRow == [state : { "waiting", "active", "exhausted", "completed", "failed" }, fails : Nat, stalls : Nat]

ASSUME DeadLetterAssumption ==
  /\ MaxJobs \in Nat \ {0} /\ JobAttempts \in Nat
  /\ None \notin JobRow /\ None \notin [letter : 1..MaxJobs, step : { "add", "remove" }]

VARIABLES
  jobs,           \* state, failed attempts and dead workers by job; None before it is added
  letters,        \* jobs that have an entry in the dead-letter set
  retrying,       \* what each admin's retry is doing
  registered,     \* the handler of the job is known to the process
  worked,         \* the handler has returned
  givenUp,        \* an admin or age has removed the dead letter
  forgotten,      \* the work was dropped without a dead letter
  doubled,        \* two retries of one letter, or one that died half-way
  queueFaults

deadLetterVars == <<jobs, letters, retrying, registered, worked, givenUp, forgotten, doubled, queueFaults>>

JobNumbers == 1..MaxJobs
Added == { j \in JobNumbers : jobs[j] # None }
Live == { j \in Added : jobs[j].state \in { "waiting", "active", "exhausted" } }
InState(j, state) == jobs[j] # None /\ jobs[j].state = state
NewJob == [state |-> "waiting", fails |-> 0, stalls |-> 0]
Faulty == queueFaults < MaxQueueFaults /\ queueFaults' = queueFaults + 1

\* QueueService.add
DeadLetterInit ==
  /\ jobs = [j \in JobNumbers |-> IF j = 1 THEN NewJob ELSE None]
  /\ letters = {} /\ retrying = [a \in DeskAdmins |-> None] /\ registered = FALSE
  /\ worked = FALSE /\ givenUp = FALSE /\ forgotten = FALSE /\ doubled = FALSE /\ queueFaults = 0

-----------------------------------------------------------------------------
(* The worker.                                                              *)

RegisterHandler ==
  /\ ~registered /\ registered' = TRUE
  /\ UNCHANGED <<jobs, letters, retrying, worked, givenUp, forgotten, doubled, queueFaults>>

\* The worker of a queue starts with the first of its handlers: a job whose
\* own handler is not there yet is completed without a handler.
TakeJob(j) ==
  /\ InState(j, "waiting")
  /\ jobs' = [jobs EXCEPT ![j].state = IF registered THEN "active" ELSE "completed"]
  /\ forgotten' = (forgotten \/ ~registered)
  /\ UNCHANGED <<letters, retrying, registered, worked, givenUp, doubled, queueFaults>>

JobSucceeds(j) ==
  /\ InState(j, "active") /\ jobs' = [jobs EXCEPT ![j].state = "completed"] /\ worked' = TRUE
  /\ UNCHANGED <<letters, retrying, registered, givenUp, forgotten, doubled, queueFaults>>

\* Broken variant: the attempt that fails is not counted.
ExhaustedLate(fails) == fails > JobAttempts

\* isExhausted
IsExhausted(fails) == fails >= JobAttempts

\* BullMQ runs the job again while it has attempts; the listener of `failed`
\* looks at the same numbers.
JobFails(j) ==
  /\ InState(j, "active")
  /\ LET fails == jobs[j].fails + 1 IN
     jobs' = [jobs EXCEPT ![j].fails = fails,
                          ![j].state = IF fails < JobAttempts THEN "waiting" ELSE IF IsExhausted(fails) THEN "exhausted" ELSE "failed"]
  /\ UNCHANGED <<letters, retrying, registered, worked, givenUp, forgotten, doubled, queueFaults>>

PushLetter(j) ==
  /\ InState(j, "exhausted") /\ jobs' = [jobs EXCEPT ![j].state = "failed"] /\ letters' = letters \cup { j }
  /\ UNCHANGED <<retrying, registered, worked, givenUp, forgotten, doubled, queueFaults>>

\* The error of a push that fails is logged.
PushLetterFails(j) ==
  /\ InState(j, "exhausted") /\ Faulty
  /\ jobs' = [jobs EXCEPT ![j].state = "failed"] /\ forgotten' = TRUE
  /\ UNCHANGED <<letters, retrying, registered, worked, givenUp, doubled>>

\* The worker's process dies and comes up without its handlers.  A job that
\* stalls too often fails before its attempts are exhausted, which makes no
\* dead letter.
WorkerDies ==
  /\ Faulty /\ registered' = FALSE
  /\ jobs' = [j \in JobNumbers |->
       IF InState(j, "active") /\ jobs[j].stalls < MaxStalls
       THEN [jobs[j] EXCEPT !.state = "waiting", !.stalls = @ + 1]
       ELSE IF InState(j, "active") \/ InState(j, "exhausted") THEN [jobs[j] EXCEPT !.state = "failed"]
       ELSE jobs[j]]
  /\ forgotten' = (forgotten \/ \E j \in JobNumbers :
       InState(j, "exhausted") \/ (InState(j, "active") /\ ~(jobs[j].stalls < MaxStalls)))
  /\ UNCHANGED <<letters, retrying, worked, givenUp, doubled>>

-----------------------------------------------------------------------------
(* The admins.                                                              *)

Retries(a, step) == retrying[a] # None /\ retrying[a].step = step

BeginRetry(a, j) ==
  /\ retrying[a] = None /\ j \in letters
  /\ retrying' = [retrying EXCEPT ![a] = [letter |-> j, step |-> "add"]]
  /\ UNCHANGED <<jobs, letters, registered, worked, givenUp, forgotten, doubled, queueFaults>>

\* QueueService.add gives the job the next number.
AddAgain(a) ==
  /\ Retries(a, "add")
  /\ \E new \in JobNumbers \ Added :
       (\A j \in JobNumbers : j < new => j \in Added) /\ jobs' = [jobs EXCEPT ![new] = NewJob]
  /\ LET j == retrying[a].letter IN
     doubled' = (doubled \/ j \notin letters \/ \E b \in DeskAdmins \ { a } : Retries(b, "remove") /\ retrying[b].letter = j)
  /\ retrying' = [retrying EXCEPT ![a].step = "remove"]
  /\ UNCHANGED <<letters, registered, worked, givenUp, forgotten, queueFaults>>

\* Broken variant: the letter is looked for under the number of its new job.
AfterRetryOfNewJob(j) == letters \ { i \in Added : i > j }

\* DlqService.remove: whether the letter is still there makes no difference.
AfterRetry(j) == letters \ { j }

RemoveRetried(a) ==
  /\ Retries(a, "remove") /\ letters' = AfterRetry(retrying[a].letter)
  /\ retrying' = [retrying EXCEPT ![a] = None]
  /\ UNCHANGED <<jobs, registered, worked, givenUp, forgotten, doubled, queueFaults>>

RetryDies(a) ==
  /\ retrying[a] # None /\ Faulty
  /\ doubled' = (doubled \/ Retries(a, "remove"))
  /\ retrying' = [retrying EXCEPT ![a] = None]
  /\ UNCHANGED <<jobs, letters, registered, worked, givenUp, forgotten>>

\* An admin removes it, or prunes what is thirty days old.
RemoveLetter(j) ==
  /\ j \in letters /\ letters' = letters \ { j } /\ givenUp' = TRUE
  /\ UNCHANGED <<jobs, retrying, registered, worked, forgotten, doubled, queueFaults>>

DeadLetterNext ==
  \/ RegisterHandler \/ WorkerDies
  \/ \E j \in JobNumbers :
       \/ TakeJob(j) \/ JobSucceeds(j) \/ JobFails(j) \/ PushLetter(j) \/ PushLetterFails(j) \/ RemoveLetter(j)
       \/ \E a \in DeskAdmins : BeginRetry(a, j)
  \/ \E a \in DeskAdmins : AddAgain(a) \/ RemoveRetried(a) \/ RetryDies(a)

DeadLetterSpec == DeadLetterInit /\ [][DeadLetterNext]_deadLetterVars
-----------------------------------------------------------------------------
(* Properties.                                                              *)

\* Work that was queued is done, under way, or a dead letter that an admin can
\* retry, whoever dies in between: but for letters that were given up, and the
\* ways in which the queue itself drops work (queue.service.ts:211-218,
\* 281-300).
WorkIsKept == worked \/ givenUp \/ forgotten \/ Live # {} \/ letters # {}

\* With no retry under way there is one copy of it, as a job or as a letter:
\* unless two admins retried one letter, or a retry died before it removed its
\* letter (admin-dlq.controller.ts:81-88).
OneCopy ==
  (\A a \in DeskAdmins : retrying[a] = None) /\ ~doubled => \A i, j \in Live \cup letters : i = j

\* Work is neither lost nor doubled between the queue and its dead letters.
LetterAgrees == WorkIsKept /\ OneCopy
=============================================================================
