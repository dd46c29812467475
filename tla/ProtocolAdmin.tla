--------------------------- MODULE ProtocolAdmin ---------------------------
(***************************************************************************)
(* ProtocolAdminService (src/src/admin/protocol): the queues it pauses and *)
(* resumes one after another, the cache it flushes, and the emergencies    *)
(* and flags it keeps in memory.                                           *)
(*                                                                         *)
(* AuditTrailService injects the request, so every service that injects    *)
(* it, this one too, is made anew for each request: `memory' belongs to a  *)
(* request.  The queues live in Redis, in the database the cache is in.    *)
(***************************************************************************)
EXTENDS Naturals

CONSTANTS Calls,       \* requests
          Queues,      \* the queues in the order of the list in the code: 1 .. n
          Emergencies, \* the emergency actions
          None         \* no answer

VARIABLES
  memory, \* each request's instance of the service: [maintenance, emergencies]
  order,  \* each request: [kind, pc, todo, alone]
  paused, \* the paused queues
  audit,  \* the requests with a row in the audit log
  raised, \* history: the emergencies executed
  answer, \* history: the last status: [active, shown], active being the emergencies raised by then
  mixed   \* history: whether the last that paused or resumed queues was not one request for all

adminVars == <<memory, order, paused, audit, raised, answer, mixed>>

\* `alone' is history: about all queues, with no other switch or flush beside it.
Order(kind, pc, todo, alone) == [kind |-> kind, pc |-> pc, todo |-> todo, alone |-> alone]
NotAsked == Order("none", "new", {}, FALSE)

AdminInit ==
  /\ memory = [r \in Calls |-> [maintenance |-> FALSE, emergencies |-> {}]]
  /\ order = [r \in Calls |-> NotAsked]
  /\ paused = {} /\ audit = {}
  /\ raised = {} /\ answer = None /\ mixed = FALSE

\* The requests that are pausing or resuming queues.
Switching == {r \in Calls : order[r].kind \in {"pause", "resume"} /\ order[r].pc = "queue"}

\* A new order that touches `paused': no other one is alone any more.
Interfere(r, new) == order' = [c \in Calls |-> IF c = r THEN new ELSE [order[c] EXCEPT !.alone = FALSE]]
Put(r, pc) == order' = [order EXCEPT ![r].pc = pc]

-----------------------------------------------------------------------------
(* Queues and cache.                                                       *)

\* Fault: the list leaves a queue out.
FaultQueuesToActOn(q) == IF q = 0 THEN Queues \ {1} ELSE {q}

\* One queue; or without a name, which is 0 here, all of them.
QueuesToActOn(q) == IF q = 0 THEN Queues ELSE {q}

\* PAUSE and RESUME; RETRY_FAILED and CLEAR walk the same list and touch jobs only.
SwitchQueues(r, kind, q) ==
  /\ order[r] = NotAsked
  /\ Interfere(r, Order(kind, "queue", QueuesToActOn(q), q = 0 /\ Switching = {}))
  /\ UNCHANGED <<memory, paused, audit, raised, answer, mixed>>

\* pauseQueue or resumeQueue, the next in the list.
SwitchNext(r) ==
  /\ order[r].pc = "queue"
  /\ \E q \in order[r].todo :
       LET left == order[r].todo \ {q} IN
       /\ \A p \in order[r].todo : q <= p
       /\ paused' = IF order[r].kind = "pause" THEN paused \union {q} ELSE paused \ {q}
       /\ order' = [order EXCEPT ![r].todo = left, ![r].pc = IF left = {} THEN "audit" ELSE "queue"]
       /\ mixed' = ~(order[r].alone /\ left = {})
  /\ UNCHANGED <<memory, audit, raised, answer>>

\* Redis fails: controlService catches the error, answers success: false and
\* leaves the queues as they are by then.
SwitchFails(r) ==
  /\ order[r].pc = "queue"
  /\ Put(r, "done")
  /\ mixed' = TRUE
  /\ UNCHANGED <<memory, paused, audit, raised, answer>>

\* flushall takes the queues' keys with the cache; or it fails, which is
\* logged, and the answer is the same.
InvalidateCache(r) ==
  /\ order[r] = NotAsked
  /\ \/ paused' = {} /\ mixed' = (Switching # {}) /\ Interfere(r, Order("flush", "audit", {}, FALSE))
     \/ order' = [order EXCEPT ![r].pc = "audit"] /\ UNCHANGED <<paused, mixed>>
  /\ UNCHANGED <<memory, audit, raised, answer>>

-----------------------------------------------------------------------------
(* What stays in memory, and the log.                                      *)

\* setMaintenanceMode; suspending or restoring a service is alike.
SetMaintenance(r, on) ==
  /\ order[r] = NotAsked
  /\ memory' = [memory EXCEPT ![r].maintenance = on]
  /\ Put(r, "audit")
  /\ UNCHANGED <<paused, audit, raised, answer, mixed>>

\* The action, without a duration: it sets flags and pauses no queue.
ExecuteEmergency(r, e) ==
  /\ order[r] = NotAsked
  /\ memory' = [memory EXCEPT ![r].emergencies = @ \union {e}]
  /\ raised' = raised \union {e}
  /\ Put(r, "audit")
  /\ UNCHANGED <<paused, audit, answer, mixed>>

\* An emergency that the instance does not know is not found.
ResolveEmergency(r, e) ==
  /\ order[r] = NotAsked
  /\ memory' = [memory EXCEPT ![r].emergencies = @ \ {e}]
  /\ raised' = IF e \in memory[r].emergencies THEN raised \ {e} ELSE raised
  /\ Put(r, IF e \in memory[r].emergencies THEN "audit" ELSE "done")
  /\ UNCHANGED <<paused, audit, answer, mixed>>

GetSystemStatus(r) ==
  /\ order[r] = NotAsked
  /\ answer' = [active |-> raised, shown |-> memory[r].emergencies]
  /\ Put(r, "done")
  /\ UNCHANGED <<memory, paused, audit, raised, mixed>>

\* log stores the row, or swallows the error.
LogAction(r) ==
  /\ order[r].pc = "audit"
  /\ audit' \in {audit, audit \union {r}}
  /\ Put(r, "done")
  /\ UNCHANGED <<memory, paused, raised, answer, mixed>>

AdminNext == \E r \in Calls :
  \/ \E kind \in {"pause", "resume"}, q \in {0} \union Queues : SwitchQueues(r, kind, q)
  \/ SwitchNext(r) \/ SwitchFails(r) \/ InvalidateCache(r)
  \/ \E on \in BOOLEAN : SetMaintenance(r, on)
  \/ \E e \in Emergencies : ExecuteEmergency(r, e) \/ ResolveEmergency(r, e)
  \/ GetSystemStatus(r) \/ LogAction(r)

-----------------------------------------------------------------------------
(* The properties.                                                         *)

\* The queues, the log and the orders are well typed.
AdminTypeOK ==
  /\ paused \subseteq Queues /\ audit \subseteq Calls /\ raised \subseteq Emergencies
  /\ order \in [Calls -> [kind : {"none", "pause", "resume", "flush"}, pc : {"new", "queue", "audit", "done"},
                          todo : SUBSET Queues, alone : BOOLEAN]]

\* Pausing or resuming all queues leaves them alike, whatever they were before,
\* unless a request that pauses or resumes, or a flush, came in between, or
\* Redis failed on the way.
AlikeUnlessMixed == ~mixed /\ Switching = {} => paused \in {{}, Queues}

\* A request that paused or resumed queues is logged only when its whole list
\* is done: one that failed on the way leaves no trace of what it did change.
LoggedIsDone == \A r \in audit : order[r].todo = {}

\* What every state of the service keeps.
AdminInv == AdminTypeOK /\ AlikeUnlessMixed /\ LoggedIsDone

\* The status shows every emergency that was executed and not resolved.
StatusShowsEmergency == answer # None => answer.active \subseteq answer.shown

=============================================================================
