-------------------------- MODULE WebhookDelivery --------------------------
(***************************************************************************)
(* One webhook, its deliveries and their jobs: WebhooksService (dispatch,  *)
(* manual retry, edits, removal) and WebhookProcessor, the BullMQ worker   *)
(* that sends a delivery and records what came of it                       *)
(* (src/src/webhooks).                                                     *)
(*                                                                         *)
(* Every await is a step.  Requests and database statements may fail, API  *)
(* calls may be lost midway, and a worker may be lost: the queue, which is *)
(* Redis's and survives, then starts the stalled job once more.            *)
(***************************************************************************)
EXTENDS Integers, FiniteSets

CONSTANTS Deliveries,    \* delivery records, in the order they are made: 1 .. n
          Jobs,          \* jobs, in the order they are added: 1 .. n
          Calls,         \* dispatches, retries and edits, in the order they begin: 1 .. n
          MaxRetries,    \* the webhook's maxRetries
          FirstAttempts, \* what job.attemptsMade may be during a first attempt
          DisableAfter,  \* MAX_CONSECUTIVE_FAILURES_BEFORE_DISABLE
          Workers,       \* jobs that may be processed at the same time
          MaxFaults,     \* bound: losses and database errors in a behaviour
          Removed        \* the row of a removed webhook

ASSUME WebhookAssumption ==
  /\ Deliveries \subseteq Nat \ {0} /\ Jobs \subseteq Nat \ {0} /\ Calls \subseteq Nat \ {0}
  /\ MaxRetries \in Nat /\ MaxFaults \in Nat /\ FirstAttempts \subseteq {0, 1}
  /\ DisableAfter \in Nat \ {0} /\ Workers \in Nat \ {0}

VARIABLES
  hook,         \* the webhook's row: [enabled, disabled, failures], or Removed
  status,       \* each delivery's status, "none" before it is stored
  job,          \* each job: [of, pc, made, stalled, seen, changes]
  call,         \* each call: [kind, of, pc, seen, changes]
  firstAttempt, \* how the queue numbers attempts
  sent,         \* requests made for each delivery
  answered,     \* deliveries whose request was answered
  exhausted,    \* jobs that recorded a final failure
  orphans,      \* deliveries of which a step was lost
  faults        \* losses and database errors so far

vars == <<hook, status, job, call, firstAttempt, sent, answered, exhausted, orphans, faults>>
history == <<sent, answered, exhausted, orphans, faults>>

Live == [enabled |-> TRUE, disabled |-> FALSE, failures |-> 0]
Free == [of |-> 0, pc |-> "free", made |-> 0, stalled |-> FALSE, seen |-> Live, changes |-> {}]
Idle == [kind |-> "none", of |-> 0, pc |-> "idle", seen |-> Live, changes |-> {}]
Done == [Idle EXCEPT !.pc = "done"]

Init ==
  /\ hook = Live
  /\ status = [d \in Deliveries |-> "none"]
  /\ job = [j \in Jobs |-> Free] /\ call = [c \in Calls |-> Idle]
  /\ firstAttempt \in FirstAttempts
  /\ sent = [d \in Deliveries |-> 0]
  /\ answered = {} /\ exhausted = {} /\ orphans = {} /\ faults = 0

Active(h) == h # Removed /\ h.enabled /\ ~h.disabled

\* TypeORM's save reads the row first.  If it is there, the columns in which
\* the entity differs from it are updated, to no effect if it has gone since;
\* if it is not, the entity is inserted whole, and a removed webhook is back.
Differing(entity, row) == {f \in DOMAIN Live : entity[f] # row[f]}
Merge(entity, fields, row) ==
  IF row = Removed THEN row
  ELSE [f \in DOMAIN Live |-> IF f \in fields THEN entity[f] ELSE row[f]]

\* The INSERT of such a save; the key is refused if another one came first.
Restore(entity) == hook' = IF hook = Removed THEN entity ELSE hook

-----------------------------------------------------------------------------
(* The API calls.                                                          *)

JobAt(j, pc)  == job' = [job EXCEPT ![j].pc = pc]
Fault == faults < MaxFaults /\ faults' = faults + 1
CallAt(c, pc) == call' = [call EXCEPT ![c].pc = pc]
Finish(c)     == call' = [call EXCEPT ![c] = Done]

\* The next of a row of slots; the bounds Calls, Deliveries and Jobs are here.
NextCall(c)     == call[c] = Idle /\ \A b \in Calls : b < c => call[b] # Idle
Used(d)         == status[d] # "none" \/ \E c \in Calls : call[c].of = d
NextDelivery(d) == ~Used(d) /\ \A e \in Deliveries : e < d => Used(e)
NextJob(j)      == job[j] = Free /\ \A i \in Jobs : i < j => job[i] # Free

\* dispatchEvent: the webhook is read with its subscription, which one that is
\* back may have or be given again; a delivery is stored as PENDING if it is
\* active (enqueueDelivery, up to the save).
Dispatch(c, d) ==
  /\ NextCall(c) /\ NextDelivery(d) /\ Active(hook)
  /\ call' = [call EXCEPT ![c] = [Idle EXCEPT !.kind = "dispatch", !.of = d, !.pc = "store"]]
  /\ UNCHANGED <<hook, status, job, firstAttempt, history>>

\* retryDelivery: the delivery and its webhook are read, an inactive webhook
\* is refused.
Retry(c, d) ==
  /\ NextCall(c) /\ status[d] \notin {"none", "removed"} /\ Active(hook)
  /\ call' = [call EXCEPT ![c] = [Idle EXCEPT !.kind = "retry", !.of = d, !.pc = "store"]]
  /\ UNCHANGED <<hook, status, job, firstAttempt, history>>

\* The delivery is saved as PENDING, new or again, whatever became of it since,
\* also if it went with a webhook that is back; without one its key is refused.
StorePending(c) ==
  /\ call[c].pc = "store"
  /\ IF hook = Removed THEN UNCHANGED status /\ Finish(c)
     ELSE status' = [status EXCEPT ![call[c].of] = "PENDING"] /\ CallAt(c, "add")
  /\ UNCHANGED <<hook, job, firstAttempt, history>>

\* Fault: the job is added for a new delivery only.
FaultAddJob(c) ==
  /\ call[c].pc = "add"
  /\ \E j \in Jobs :
       /\ NextJob(j)
       /\ job' = IF call[c].kind = "retry" THEN job
                 ELSE [job EXCEPT ![j] = [Free EXCEPT !.of = call[c].of, !.pc = "waiting"]]
  /\ Finish(c)
  /\ UNCHANGED <<hook, status, firstAttempt, history>>

\* webhookQueue.add
AddJob(c) ==
  /\ call[c].pc = "add"
  /\ \E j \in Jobs :
       /\ NextJob(j)
       /\ job' = [job EXCEPT ![j] = [Free EXCEPT !.of = call[c].of, !.pc = "waiting"]]
  /\ Finish(c)
  /\ UNCHANGED <<hook, status, firstAttempt, history>>

\* update, rotateSecret, revokeSecret: the entity is read whole.  Enabling
\* clears the failures; a new secret leaves these columns as they were read.
Edits(h) == {h, [h EXCEPT !.enabled = FALSE], Live}

LoadHook(c) ==
  /\ NextCall(c) /\ hook # Removed
  /\ \E e \in Edits(hook) :
       call' = [call EXCEPT ![c] = [Idle EXCEPT !.kind = "edit", !.pc = "save", !.seen = e]]
  /\ UNCHANGED <<hook, status, job, firstAttempt, history>>

CompareHook(c) ==
  /\ call[c].pc = "save"
  /\ IF hook = Removed THEN CallAt(c, "insert")
     ELSE call' = [call EXCEPT ![c].pc = "update", ![c].changes = Differing(call[c].seen, hook)]
  /\ UNCHANGED <<hook, status, job, firstAttempt, history>>

UpdateHook(c) ==
  /\ call[c].pc = "update"
  /\ hook' = Merge(call[c].seen, call[c].changes, hook)
  /\ Finish(c)
  /\ UNCHANGED <<status, job, firstAttempt, history>>

InsertHook(c) ==
  /\ call[c].pc = "insert"
  /\ Restore(call[c].seen)
  /\ Finish(c)
  /\ UNCHANGED <<status, job, firstAttempt, history>>

\* remove: the deliveries go with the webhook (onDelete: CASCADE).
Remove(c) ==
  /\ NextCall(c) /\ hook # Removed
  /\ hook' = Removed
  /\ status' = [d \in Deliveries |-> IF status[d] = "none" THEN "none" ELSE "removed"]
  /\ call' = [call EXCEPT ![c] = Done]
  /\ UNCHANGED <<job, firstAttempt, history>>

\* The process is lost, or the database fails, while the call is under way.
Lose(c) ==
  /\ Fault /\ call[c].pc \notin {"idle", "done"}
  /\ orphans' = IF call[c].pc = "add" THEN orphans \union {call[c].of} ELSE orphans
  /\ Finish(c)
  /\ UNCHANGED <<hook, status, job, firstAttempt, sent, answered, exhausted>>

-----------------------------------------------------------------------------
(* The worker.                                                             *)

Processing == {j \in Jobs : job[j].pc \notin {"free", "waiting", "completed", "failed"}}

\* Fault: save, which stores the row again if it is gone.
FaultRecord(d, s) == status' = [status EXCEPT ![d] = s]

\* deliveryRepo.update: no row, no effect.
Record(d, s) ==
  status' = [status EXCEPT ![d] = IF @ \in {"none", "removed"} THEN @ ELSE s]

\* sendWebhookRequest: any HTTP status is an answer; a request may fail or be
\* aborted at the timeout, whether or not the endpoint has seen it.
Send(j) ==
  /\ job[j].pc = "waiting" /\ Cardinality(Processing) < Workers
  /\ sent' = [sent EXCEPT ![job[j].of] = @ + 1]
  /\ \/ JobAt(j, "answered") /\ answered' = answered \union {job[j].of}
     \/ JobAt(j, "unanswered") /\ UNCHANGED answered
  /\ UNCHANGED <<hook, status, call, firstAttempt, exhausted, orphans, faults>>

RecordDelivered(j) ==
  /\ job[j].pc = "answered"
  /\ Record(job[j].of, "DELIVERED") /\ JobAt(j, "delivered")
  /\ UNCHANGED <<hook, call, firstAttempt, history>>

ClearFailures(j) ==
  /\ job[j].pc = "delivered"
  /\ hook' = IF hook = Removed THEN hook ELSE [hook EXCEPT !.failures = 0]
  /\ JobAt(j, "completed")
  /\ UNCHANGED <<status, call, firstAttempt, history>>

\* Fault: the last retry is already taken for the final attempt.
FaultFinalAttempt(j) == job[j].made + firstAttempt >= MaxRetries

\* isFinalAttempt: job.attemptsMade > maxRetries
FinalAttempt(j) == job[j].made + firstAttempt > MaxRetries

\* The rethrown error: the queue tries the job maxRetries + 1 times in all.
RetryOrFail(j) ==
  [job EXCEPT ![j].made = @ + 1, ![j].seen = Live, ![j].changes = {},
                   ![j].pc = IF job[j].made < MaxRetries THEN "waiting" ELSE "failed"]

RecordFailure(j) ==
  /\ job[j].pc = "unanswered"
  /\ Record(job[j].of, IF FinalAttempt(j) THEN "DEAD_LETTER" ELSE "FAILED")
  /\ exhausted' = IF FinalAttempt(j) THEN exhausted \union {j} ELSE exhausted
  /\ job' = IF FinalAttempt(j) THEN [job EXCEPT ![j].pc = "exhausted"] ELSE RetryOrFail(j)
  /\ UNCHANGED <<hook, call, firstAttempt, sent, answered, orphans, faults>>

\* The failure counted on the webhook, and what it does at the threshold.
Counted(h) ==
  IF h.failures + 1 >= DisableAfter
  THEN [enabled |-> FALSE, disabled |-> TRUE, failures |-> h.failures + 1]
  ELSE [h EXCEPT !.failures = @ + 1]

\* Fault: the job waits for the webhook to come back.
FaultReadFailures(j) ==
  /\ job[j].pc = "exhausted" /\ hook # Removed
  /\ job' = [job EXCEPT ![j].pc = "save", ![j].seen = Counted(hook)]
  /\ UNCHANGED <<hook, status, call, firstAttempt, history>>

ReadFailures(j) ==
  /\ job[j].pc = "exhausted"
  /\ job' = IF hook = Removed THEN RetryOrFail(j)
            ELSE [job EXCEPT ![j].pc = "save", ![j].seen = Counted(hook)]
  /\ UNCHANGED <<hook, status, call, firstAttempt, history>>

CompareFailures(j) ==
  /\ job[j].pc = "save"
  /\ IF hook = Removed THEN JobAt(j, "insert")
     ELSE job' = [job EXCEPT ![j].pc = "update", ![j].changes = Differing(job[j].seen, hook)]
  /\ UNCHANGED <<hook, status, call, firstAttempt, history>>

UpdateFailures(j) ==
  /\ job[j].pc = "update"
  /\ hook' = Merge(job[j].seen, job[j].changes, hook)
  /\ job' = RetryOrFail(j)
  /\ UNCHANGED <<status, call, firstAttempt, history>>

InsertFailures(j) ==
  /\ job[j].pc = "insert"
  /\ Restore(job[j].seen)
  /\ job' = RetryOrFail(j)
  /\ UNCHANGED <<status, call, firstAttempt, history>>

\* A statement of the worker fails.  After an answer the catch block takes it
\* for a failed request; inside the catch block it replaces the error thrown.
DatabaseError(j) ==
  /\ Fault
  /\ \/ job[j].pc \in {"answered", "delivered"} /\ JobAt(j, "unanswered") /\ UNCHANGED orphans
     \/ /\ job[j].pc \in {"unanswered", "exhausted", "save", "update", "insert"}
        /\ job' = RetryOrFail(j)
        /\ orphans' = orphans \union {job[j].of}
  /\ UNCHANGED <<hook, status, call, firstAttempt, sent, answered, exhausted>>

\* The worker is lost: the job is stalled, and waits again the first time.
Stall(j) ==
  /\ Fault /\ j \in Processing
  /\ job' = [job EXCEPT ![j].stalled = TRUE, ![j].seen = Live, ![j].changes = {},
                             ![j].pc = IF job[j].stalled THEN "failed" ELSE "waiting"]
  /\ orphans' = orphans \union {job[j].of}
  /\ UNCHANGED <<hook, status, call, firstAttempt, sent, answered, exhausted>>

Work(j) ==
  \/ Send(j) \/ RecordDelivered(j) \/ ClearFailures(j)
  \/ RecordFailure(j) \/ ReadFailures(j) \/ CompareFailures(j)
  \/ UpdateFailures(j) \/ InsertFailures(j)

Next ==
  \/ \E c \in Calls, d \in Deliveries : Dispatch(c, d) \/ Retry(c, d)
  \/ \E c \in Calls : \/ StorePending(c) \/ AddJob(c) \/ LoadHook(c) \/ CompareHook(c)
                      \/ UpdateHook(c) \/ InsertHook(c) \/ Remove(c) \/ Lose(c)
  \/ \E j \in Jobs : Work(j) \/ DatabaseError(j) \/ Stall(j)

Spec == Init /\ [][Next]_vars /\ \A j \in Jobs : WF_vars(Work(j))

-----------------------------------------------------------------------------
(* The properties.                                                         *)

Statuses == {"none", "PENDING", "DELIVERED", "FAILED", "DEAD_LETTER", "removed"}
Over(j) == job[j].pc \in {"completed", "failed"}
JobsOf(d) == {j \in Jobs : job[j].of = d}

\* The rows, the jobs and the calls are well typed.
TypeOK ==
  /\ hook = Removed \/ hook \in [enabled : BOOLEAN, disabled : BOOLEAN, failures : Nat]
  /\ status \in [Deliveries -> Statuses]
  /\ \A j \in Jobs : job[j].of \in Deliveries \union {0} /\ job[j].made \in 0 .. MaxRetries + 1
  /\ \A c \in Calls : call[c].of \in Deliveries \union {0} /\ call[c].changes \subseteq DOMAIN Live

\* A delivery is left PENDING only while a job of it is queued or processed or
\* a call is about to add one, unless a step of that call or job was lost.
PendingHasJob ==
  \A d \in Deliveries : status[d] = "PENDING" =>
    \/ \E j \in JobsOf(d) : ~Over(j)
    \/ \E c \in Calls : call[c].pc = "add" /\ call[c].of = d
    \/ d \in orphans

\* The requests that may be made for delivery d: maxRetries + 1 for each time
\* it was queued, and one more for each time a worker was lost with it.
Granted(d) == (MaxRetries + 1) * Cardinality(JobsOf(d)) + Cardinality({j \in JobsOf(d) : job[j].stalled})

\* However a delivery's jobs overlap, its endpoint sees no more requests.
RequestsBounded == \A d \in Deliveries : sent[d] <= Granted(d)

\* DELIVERED is recorded only for a delivery the endpoint answered.
DeliveredWasAnswered == \A d \in Deliveries : status[d] = "DELIVERED" => d \in answered

\* DEAD_LETTER is recorded only for a delivery whose endpoint was sent every
\* request one job may send.
DeadLetterIsExhausted == \A d \in Deliveries : status[d] = "DEAD_LETTER" => sent[d] > MaxRetries

\* The webhook is disabled by failures only after at least as many jobs as
\* the threshold have failed for good, whatever stale copies edits write back.
DisabledAfterFailures ==
  hook # Removed /\ hook.disabled => Cardinality(exhausted) >= DisableAfter

\* What the recorded state of a delivery and of its webhook says of the
\* requests that were sent.
Inv ==
  /\ TypeOK /\ RequestsBounded
  /\ DeliveredWasAnswered /\ DeadLetterIsExhausted /\ DisabledAfterFailures

granted == [d \in Deliveries |-> Granted(d)]
Promise == INSTANCE DeliveryPromise WITH Requests <- MaxRetries + 1, gone <- (hook = Removed)

\* Jobs, calls and workers, however they overlap, fail and are lost, do to a
\* delivery what DeliveryPromise allows and nothing else; also after a save has
\* brought a removed webhook back, its deliveries are gone for its old jobs.
ImplementsPromise == Promise!PromiseSpec

\* Every job that was added is completed or has failed in the end, also when
\* the webhook is removed or the database fails meanwhile.
EveryJobEnds == \A j \in Jobs : (job[j] # Free) ~> Over(j)

=============================================================================
