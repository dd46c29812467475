-------------------------- MODULE DisputeLifecycle --------------------------
(***************************************************************************)
(* The disputes of one claim: DisputeService and its table                 *)
(* (src/src/dispute).  Every await is a step; nothing locks a row, and the *)
(* transaction of expireDispute reads without a lock, too.                 *)
(***************************************************************************)
EXTENDS Naturals, FiniteSets

CONSTANTS Disputes, \* ids of the rows, in the order they are made: 1 .. n
          Calls,    \* calls made to the service
          None      \* no row, no outcome, no dispute

VARIABLES \* the last two are history
  dispute,  \* each row: [status, outcome, started, ended, reasons], or None
  recent,   \* the disputes created within the cooldown
  call,     \* each call: [kind, of, pc, asked, refused, base, copy, changes]
  overlaid, \* the disputes written by a call that had read another row
  crowded   \* whether two creations have been under way at once

vars == <<dispute, recent, call, overlaid, crowded>>

Opened == [status |-> "OPEN", outcome |-> None, started |-> FALSE, ended |-> FALSE, reasons |-> {}]
Idle   == [kind |-> "none", of |-> None, pc |-> "idle", asked |-> {}, refused |-> FALSE,
           base |-> Opened, copy |-> Opened, changes |-> {}]
Done   == [Idle EXCEPT !.pc = "done"]

Init ==
  /\ dispute = [d \in Disputes |-> None] /\ recent = {}
  /\ call = [c \in Calls |-> Idle]
  /\ overlaid = {} /\ crowded = FALSE

Stored == {d \in Disputes : dispute[d] # None}
NextId(d) == d \notin Stored /\ \A e \in Disputes : e < d => e \in Stored

-----------------------------------------------------------------------------
(* What a call checks, and what it writes.                                 *)

\* Fault: a resolved dispute may be resolved again, or expire.
FaultMayWrite(kind, r) ==
  IF kind \in {"review", "reject"} THEN r.status = "OPEN" ELSE r.status # "REJECTED"

\* assertStatus
MayWrite(kind, r) ==
  IF kind \in {"review", "reject"} THEN r.status = "OPEN" ELSE r.status \in {"OPEN", "REVIEWING"}

\* The entities a call may save.  The enumeration has no EXPIRED: an expiry
\* leaves the status undefined, and save skips an undefined column.
Written(kind, r) ==
  CASE kind = "review"  -> {[r EXCEPT !.status = "REVIEWING", !.started = TRUE]}
    [] kind = "resolve" -> {[r EXCEPT !.status = "RESOLVED", !.outcome = o, !.ended = TRUE] :
                              o \in {"CONFIRMED", "OVERTURNED"}}
    [] kind = "reject"  -> {[r EXCEPT !.status = "REJECTED", !.ended = TRUE, !.reasons = @ \union {"rejected"}]}
    [] kind = "expire"  -> {[r EXCEPT !.ended = TRUE, !.reasons = @ \union {"expired"}]}

\* TypeORM's save: the defined columns in which the entity differs from the row.
Differing(kind, entity, r) ==
  {f \in DOMAIN Opened : entity[f] # r[f]} \ (IF kind = "expire" THEN {"status"} ELSE {})
Merge(entity, fields, r) == [f \in DOMAIN Opened |-> IF f \in fields THEN entity[f] ELSE r[f]]

-----------------------------------------------------------------------------
(* The steps.                                                              *)

To(c, k) == call' = [call EXCEPT ![c] = k]
Creating == {c \in Calls : call[c].kind = "create" /\ call[c].pc \notin {"idle", "done"}}

BeginCreate(c) ==
  /\ call[c] = Idle
  /\ To(c, [Idle EXCEPT !.kind = "create", !.pc = "check"])
  /\ crowded' = (crowded \/ Creating # {})
  /\ UNCHANGED <<dispute, recent, overlaid>>

\* Fault: the search for an open dispute overlooks the claim's older ones.
FaultConflicts(query) == recent # {}

\* What the two searches of createDispute find.
Conflicts(query) ==
  IF query = "open" THEN \E d \in Stored : dispute[d].status = "OPEN" ELSE recent # {}

\* The two searches are made at once and answered in any order.
Search(c, query) ==
  /\ call[c].pc = "check" /\ query \notin call[c].asked
  /\ LET k == [call[c] EXCEPT !.asked = @ \union {query}, !.refused = @ \/ Conflicts(query)] IN
     To(c, IF k.asked # {"open", "recent"} THEN k
           ELSE IF k.refused THEN Done ELSE [k EXCEPT !.pc = "insert"])
  /\ UNCHANGED <<dispute, recent, overlaid, crowded>>

Insert(c) ==
  /\ call[c].pc = "insert"
  /\ \E d \in Disputes :
       /\ NextId(d)
       /\ dispute' = [dispute EXCEPT ![d] = Opened]
       /\ recent' = recent \union {d}
  /\ To(c, Done)
  /\ UNCHANGED <<overlaid, crowded>>

\* startReview, resolveDispute, rejectDispute, expireDispute up to the
\* entity they change.
Find(c, kind, d) ==
  /\ call[c] = Idle /\ d \in Stored
  /\ IF MayWrite(kind, dispute[d])
     THEN \E e \in Written(kind, dispute[d]) :
            To(c, [Idle EXCEPT !.kind = kind, !.of = d, !.pc = "compare", !.base = dispute[d], !.copy = e])
     ELSE To(c, Done)
  /\ UNCHANGED <<dispute, recent, overlaid, crowded>>

Compare(c) ==
  /\ call[c].pc = "compare"
  /\ To(c, [call[c] EXCEPT !.changes = Differing(call[c].kind, call[c].copy, dispute[call[c].of]), !.pc = "update"])
  /\ UNCHANGED <<dispute, recent, overlaid, crowded>>

Update(c) ==
  /\ call[c].pc = "update"
  /\ LET d == call[c].of IN
     /\ dispute' = [dispute EXCEPT ![d] = Merge(call[c].copy, call[c].changes, @)]
     /\ overlaid' = IF dispute[d] # call[c].base THEN overlaid \union {d} ELSE overlaid
  /\ To(c, Done)
  /\ UNCHANGED <<recent, crowded>>

\* A database error, or the loss of the process.
Fail(c) ==
  /\ call[c].pc \notin {"idle", "done"}
  /\ To(c, Done)
  /\ UNCHANGED <<dispute, recent, overlaid, crowded>>

\* The cooldown of a dispute is over.
Cool(d) ==
  /\ d \in recent
  /\ recent' = recent \ {d}
  /\ UNCHANGED <<dispute, call, overlaid, crowded>>

Next ==
  \/ \E c \in Calls :
       \/ BeginCreate(c) \/ Insert(c) \/ Compare(c) \/ Update(c) \/ Fail(c)
       \/ \E query \in {"open", "recent"} : Search(c, query)
       \/ \E kind \in {"review", "resolve", "reject", "expire"}, d \in Disputes : Find(c, kind, d)
  \/ \E d \in Disputes : Cool(d)

Spec == Init /\ [][Next]_vars

-----------------------------------------------------------------------------
(* The properties.                                                         *)

\* The rows and the calls are well typed.
TypeOK ==
  /\ \A d \in Stored : dispute[d] \in
       [status : {"OPEN", "REVIEWING", "RESOLVED", "REJECTED"}, outcome : {"CONFIRMED", "OVERTURNED", None},
        started : BOOLEAN, ended : BOOLEAN, reasons : SUBSET {"rejected", "expired"}]
  /\ recent \subseteq Stored /\ overlaid \subseteq Stored
  /\ \A c \in Calls : call[c].of \in Stored \union {None} /\ call[c].changes \subseteq DOMAIN Opened

\* The columns of a dispute tell one story: an outcome means resolved, a
\* reason for the rejection means rejected without a review, and either means
\* ended; unless a call wrote over another one's work.
Coherent(r) ==
  /\ r.outcome # None <=> r.status = "RESOLVED"
  /\ "rejected" \in r.reasons <=> r.status = "REJECTED"
  /\ r.status = "REJECTED" => ~r.started
  /\ r.status \in {"RESOLVED", "REJECTED"} => r.ended

CoherentUnlessOverlaid == \A d \in Stored \ overlaid : Coherent(dispute[d])

\* A claim has two open disputes, or two within one cooldown, only if two
\* creations were under way at once.
OneAtATimeUnlessCrowded ==
  ~crowded => /\ Cardinality(recent) <= 1
              /\ Cardinality({d \in Stored : dispute[d].status = "OPEN"}) <= 1

\* What every state of the claim's disputes keeps.
Inv == TypeOK /\ CoherentUnlessOverlaid /\ OneAtATimeUnlessCrowded

\* A dispute never opens again, and a decision changes only when a call that
\* read the dispute before it writes over it.
DecisionStands ==
  [][\A d \in Stored :
       /\ dispute'[d].status = "OPEN" => dispute[d].status = "OPEN"
       /\ dispute[d].status \in {"RESOLVED", "REJECTED"} /\ dispute'[d] # dispute[d] => d \in overlaid']_vars

=============================================================================
