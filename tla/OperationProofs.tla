-------------------------- MODULE OperationProofs --------------------------
(***************************************************************************)
(* The other services of MCServices: protocol administration, incidents    *)
(* and reports, users with their wallets and scores, the background jobs   *)
(* and the RPC providers.  Each has an inductive invariant in parts, a     *)
(* lemma for each of its actions and a theorem of ServicesSpec.            *)
(***************************************************************************)
EXTENDS ServiceProofs, WellFoundedInduction

-----------------------------------------------------------------------------
(* Protocol administration.                                                *)

Orders == [kind : {"none", "pause", "resume", "flush"}, pc : {"new", "queue", "audit", "done"},
           todo : SUBSET Queues, alone : BOOLEAN]

SwitchesQueues(o) == o.kind \in {"pause", "resume"} /\ o.pc = "queue"

\* What an order that is alone has done so far is there to see.
DoneSoFar(o) ==
  /\ o.kind = "pause" => Queues \ o.todo \subseteq paused
  /\ o.kind = "resume" => paused \subseteq o.todo

\* The inductive invariant.
AdminStrong ==
  /\ paused \subseteq Queues /\ audit \subseteq Calls /\ raised \subseteq Emergencies
  /\ order \in [Calls -> Orders] /\ mixed \in BOOLEAN
  /\ \A r \in Calls : /\ order[r].pc = "queue" => SwitchesQueues(order[r])
                      /\ order[r].pc = "audit" => order[r].todo = {}
                      /\ order[r].alone /\ order[r].pc = "queue" =>
                           /\ DoneSoFar(order[r])
                           /\ \A c \in Calls : SwitchesQueues(order[c]) => c = r
  /\ \A r \in audit : order[r].pc = "done" /\ order[r].todo = {}
  /\ ~mixed /\ (\A r \in Calls : ~SwitchesQueues(order[r])) => paused \in {{}, Queues}

LEMMA AdminStarts == ASSUME Admin!AdminInit PROVE AdminStrong
<1>1. /\ order = [r \in Calls |-> Admin!NotAsked] /\ paused = {} /\ audit = {} /\ raised = {} /\ mixed = FALSE
      /\ Admin!NotAsked \in Orders /\ Admin!NotAsked.pc = "new" /\ Admin!NotAsked.todo = {}
  BY DEF Admin!AdminInit, Admin!NotAsked, Admin!Order, Orders
<1> QED
  BY <1>1 DEF AdminStrong, SwitchesQueues

\* An order that touches no queue goes on.
LEMMA OrderGoesOn ==
  ASSUME AdminStrong, NEW r \in Calls, NEW pc \in {"audit", "done"}, Admin!Put(r, pc),
         order[r].pc \in {"new", "audit"}, order[r].todo = {},
         UNCHANGED <<paused, mixed>>, raised' \subseteq Emergencies, audit' \subseteq Calls,
         audit' \subseteq audit \union {r}, r \in audit' => pc = "done"
  PROVE  AdminStrong'
<1>1. order' = [order EXCEPT ![r].pc = pc]
  BY DEF Admin!Put
<1>2. \A c \in Calls : /\ order'[c].kind = order[c].kind /\ order'[c].todo = order[c].todo /\ order'[c].alone = order[c].alone
                       /\ order'[c].pc = IF c = r THEN pc ELSE order[c].pc
                       /\ order'[c] \in Orders
  BY <1>1 DEF AdminStrong, Orders
<1>3. order' \in [Calls -> Orders]
  BY <1>1, <1>2 DEF AdminStrong
<1>4. \A c \in Calls : SwitchesQueues(order'[c]) <=> SwitchesQueues(order[c])
  BY <1>2 DEF SwitchesQueues, AdminStrong
<1>5. \A c \in audit' : order'[c].pc = "done" /\ order'[c].todo = {}
  BY <1>2 DEF AdminStrong
<1>6. \A c \in Calls : /\ order'[c].pc = "queue" => SwitchesQueues(order'[c])
                       /\ order'[c].pc = "audit" => order'[c].todo = {}
                       /\ order'[c].alone /\ order'[c].pc = "queue" =>
                            /\ DoneSoFar(order[c])'
                            /\ \A d \in Calls : SwitchesQueues(order'[d]) => d = c
  BY <1>2, <1>4 DEF AdminStrong, DoneSoFar
<1> QED
  BY <1>3, <1>4, <1>5, <1>6 DEF AdminStrong, SwitchesQueues, DoneSoFar

LEMMA NotAskedIsNew == Admin!NotAsked.pc = "new" /\ Admin!NotAsked.todo = {}
BY DEF Admin!NotAsked, Admin!Order

\* What stays in memory, and the log.
LEMMA MemoryStep ==
  ASSUME AdminStrong, NEW r \in Calls,
         \/ \E on \in BOOLEAN : Admin!SetMaintenance(r, on)
         \/ \E e \in Emergencies : Admin!ExecuteEmergency(r, e) \/ Admin!ResolveEmergency(r, e)
         \/ Admin!GetSystemStatus(r) \/ Admin!LogAction(r)
  PROVE  AdminStrong'
<1>1. CASE Admin!LogAction(r)
  <2>1. /\ Admin!Put(r, "done") /\ order[r].pc = "audit" /\ UNCHANGED <<paused, mixed, raised>>
        /\ audit' \subseteq audit \union {r}
    BY <1>1 DEF Admin!LogAction
  <2>2. order[r].todo = {} /\ audit' \subseteq Calls /\ raised' \subseteq Emergencies
    BY <2>1 DEF AdminStrong
  <2> QED
    BY <2>1, <2>2, OrderGoesOn
<1>2. CASE ~Admin!LogAction(r)
  <2>1. /\ order[r] = Admin!NotAsked /\ UNCHANGED <<paused, mixed, audit>>
        /\ raised' \subseteq raised \union Emergencies
        /\ \E pc \in {"audit", "done"} : Admin!Put(r, pc)
    BY <1>2 DEF Admin!SetMaintenance, Admin!ExecuteEmergency, Admin!ResolveEmergency, Admin!GetSystemStatus
  <2>2. /\ order[r].pc = "new" /\ order[r].todo = {} /\ r \notin audit' /\ audit' \subseteq Calls /\ raised' \subseteq Emergencies
    BY <2>1, NotAskedIsNew DEF AdminStrong
  <2> QED
    BY <2>1, <2>2, OrderGoesOn
<1> QED
  BY <1>1, <1>2

\* An order that touches the queues: no other is alone any more.
LEMMA InterfereStep ==
  ASSUME AdminStrong, NEW r \in Calls, NEW o \in Orders, Admin!Interfere(r, o),
         order[r] = Admin!NotAsked, UNCHANGED <<audit, raised>>, paused' \subseteq Queues, mixed' \in BOOLEAN,
         o.pc = "queue" => SwitchesQueues(o), o.pc = "audit" => o.todo = {},
         o.alone /\ o.pc = "queue" => DoneSoFar(o)' /\ \A c \in Calls : ~SwitchesQueues(order[c]),
         SwitchesQueues(o) \/ (~mixed' /\ (\A c \in Calls : ~SwitchesQueues(order[c])) => paused' \in {{}, Queues})
  PROVE  AdminStrong'
<1>1. order' = [c \in Calls |-> IF c = r THEN o ELSE [order[c] EXCEPT !.alone = FALSE]]
  BY DEF Admin!Interfere
<1>2. \A c \in Calls : c # r => /\ order'[c].kind = order[c].kind /\ order'[c].todo = order[c].todo
                               /\ order'[c].alone = FALSE /\ order'[c].pc = order[c].pc /\ order'[c] \in Orders
  BY <1>1 DEF AdminStrong, Orders
<1>3. order'[r] = o /\ order[r].pc = "new"
  BY <1>1, NotAskedIsNew
<1>4. order' \in [Calls -> Orders]
  BY <1>1, <1>2, <1>3
<1>5. \A c \in Calls : c # r => (SwitchesQueues(order'[c]) <=> SwitchesQueues(order[c]))
  BY <1>2 DEF SwitchesQueues
<1>6. ~SwitchesQueues(order[r]) /\ r \notin audit
  BY <1>3 DEF SwitchesQueues, AdminStrong
<1>7. \A c \in audit' : order'[c].pc = "done" /\ order'[c].todo = {}
  BY <1>2, <1>6 DEF AdminStrong
<1>8. \A c \in Calls : /\ order'[c].pc = "queue" => SwitchesQueues(order'[c])
                       /\ order'[c].pc = "audit" => order'[c].todo = {}
  BY <1>2, <1>3 DEF AdminStrong, SwitchesQueues
<1>9. ASSUME NEW c \in Calls, order'[c].alone, order'[c].pc = "queue"
      PROVE  DoneSoFar(order[c])' /\ \A d \in Calls : SwitchesQueues(order'[d]) => d = c
  BY <1>2, <1>3, <1>5, <1>9 DEF DoneSoFar
<1>10. ~mixed' /\ (\A c \in Calls : ~SwitchesQueues(order'[c])) => paused' \in {{}, Queues}
  BY <1>3, <1>5, <1>6
<1> QED
  BY <1>4, <1>7, <1>8, <1>9, <1>10 DEF AdminStrong, SwitchesQueues

LEMMA SwitchQueuesStep ==
  ASSUME AdminStrong, NEW r \in Calls, NEW kind \in {"pause", "resume"}, NEW q \in {0} \union Queues,
         Admin!SwitchQueues(r, kind, q)
  PROVE  AdminStrong'
<1>1. PICK o : o = Admin!Order(kind, "queue", Admin!QueuesToActOn(q), q = 0 /\ Admin!Switching = {})
  OBVIOUS
<1>2. /\ o \in Orders /\ o.pc = "queue" /\ o.kind = kind /\ o.todo = Admin!QueuesToActOn(q)
      /\ o.alone => q = 0 /\ Admin!Switching = {}
  <2>1. Admin!QueuesToActOn(q) \subseteq Queues /\ (q = 0 /\ Admin!Switching = {}) \in BOOLEAN
    BY DEF Admin!QueuesToActOn
  <2> QED
    BY <1>1, <2>1 DEF Admin!Order, Orders
<1>3. Admin!Interfere(r, o) /\ order[r] = Admin!NotAsked /\ UNCHANGED <<audit, raised, paused, mixed>>
  BY <1>1 DEF Admin!SwitchQueues
<1>4. SwitchesQueues(o)
  BY <1>2 DEF SwitchesQueues
<1>5. o.alone => o.todo = Queues /\ \A c \in Calls : ~SwitchesQueues(order[c])
  BY <1>2 DEF Admin!QueuesToActOn, Admin!Switching, SwitchesQueues
<1>6. paused' \subseteq Queues /\ mixed' \in BOOLEAN
  BY <1>3 DEF AdminStrong
<1>7. o.alone => DoneSoFar(o)'
  BY <1>5, <1>6 DEF DoneSoFar
<1> QED
  BY <1>2, <1>3, <1>4, <1>5, <1>6, <1>7, InterfereStep

LEMMA InvalidateCacheStep ==
  ASSUME AdminStrong, NEW r \in Calls, Admin!InvalidateCache(r)
  PROVE  AdminStrong'
<1>1. order[r] = Admin!NotAsked /\ UNCHANGED <<memory, audit, raised, answer>>
  BY DEF Admin!InvalidateCache
<1>2. CASE order' = [order EXCEPT ![r].pc = "audit"] /\ UNCHANGED <<paused, mixed>>
  <2>1. Admin!Put(r, "audit") /\ order[r].pc = "new" /\ order[r].todo = {}
    BY <1>1, <1>2, NotAskedIsNew DEF Admin!Put
  <2>2. r \notin audit' /\ audit' \subseteq Calls /\ raised' \subseteq Emergencies
    BY <1>1, <2>1 DEF AdminStrong
  <2> QED
    BY <1>1, <1>2, <2>1, <2>2, OrderGoesOn
<1>3. CASE paused' = {} /\ mixed' = (Admin!Switching # {}) /\ Admin!Interfere(r, Admin!Order("flush", "audit", {}, FALSE))
  <2>1. /\ Admin!Order("flush", "audit", {}, FALSE) \in Orders
        /\ Admin!Order("flush", "audit", {}, FALSE).pc = "audit" /\ Admin!Order("flush", "audit", {}, FALSE).todo = {}
    BY DEF Admin!Order, Orders
  <2> QED
    BY <1>1, <1>3, <2>1, InterfereStep DEF SwitchesQueues
<1> QED
  BY <1>2, <1>3 DEF Admin!InvalidateCache

\* The next queue in the list.
LEMMA SwitchNextStep ==
  ASSUME AdminStrong, NEW r \in Calls, Admin!SwitchNext(r)
  PROVE  AdminStrong'
<1>1. PICK q \in order[r].todo :
        /\ paused' = IF order[r].kind = "pause" THEN paused \union {q} ELSE paused \ {q}
        /\ order' = [order EXCEPT ![r].todo = order[r].todo \ {q},
                                  ![r].pc = IF order[r].todo \ {q} = {} THEN "audit" ELSE "queue"]
        /\ mixed' = ~(order[r].alone /\ order[r].todo \ {q} = {})
  BY DEF Admin!SwitchNext
<1>2. UNCHANGED <<audit, raised>> /\ order[r].pc = "queue" /\ SwitchesQueues(order[r]) /\ order[r] \in Orders
      /\ order[r].todo \subseteq Queues /\ r \notin audit
  BY DEF Admin!SwitchNext, AdminStrong, Orders
<1>3. \A c \in Calls : /\ order'[c].kind = order[c].kind /\ order'[c].alone = order[c].alone /\ order'[c] \in Orders
                       /\ c # r => order'[c] = order[c]
                       /\ c = r => /\ order'[c].todo = order[r].todo \ {q}
                                   /\ order'[c].pc = IF order[r].todo \ {q} = {} THEN "audit" ELSE "queue"
  BY <1>1, <1>2 DEF AdminStrong, Orders
<1>4. order' \in [Calls -> Orders] /\ paused' \subseteq Queues /\ mixed' \in BOOLEAN
  BY <1>1, <1>2, <1>3 DEF AdminStrong
<1>5. \A c \in Calls : SwitchesQueues(order'[c]) => SwitchesQueues(order[c])
  BY <1>2, <1>3 DEF SwitchesQueues
<1>6. order[r].alone => DoneSoFar(order[r])' /\ \A c \in Calls : SwitchesQueues(order[c]) => c = r
  <2> SUFFICES ASSUME order[r].alone PROVE DoneSoFar(order[r])' /\ \A c \in Calls : SwitchesQueues(order[c]) => c = r
    OBVIOUS
  <2>1. DoneSoFar(order[r]) /\ \A c \in Calls : SwitchesQueues(order[c]) => c = r
    BY <1>2 DEF AdminStrong
  <2>2. order'[r].kind = order[r].kind /\ order'[r].todo = order[r].todo \ {q}
    BY <1>3
  <2>3. CASE order[r].kind = "pause"
    BY <2>1, <2>2, <2>3, <1>1 DEF DoneSoFar
  <2>4. CASE order[r].kind = "resume"
    BY <2>1, <2>2, <2>4, <1>1 DEF DoneSoFar
  <2> QED
    BY <2>1, <2>3, <2>4, <1>2 DEF SwitchesQueues
<1>7. \A c \in Calls : c # r /\ order[c].alone => order[c].pc # "queue"
  BY <1>2 DEF AdminStrong, SwitchesQueues
<1>8. \A c \in Calls : /\ order'[c].pc = "queue" => SwitchesQueues(order'[c])
                       /\ order'[c].pc = "audit" => order'[c].todo = {}
  BY <1>2, <1>3 DEF AdminStrong, SwitchesQueues
<1>9. ASSUME NEW c \in Calls, order'[c].alone, order'[c].pc = "queue"
      PROVE  DoneSoFar(order[c])' /\ \A d \in Calls : SwitchesQueues(order'[d]) => d = c
  <2>1. c = r
    BY <1>3, <1>7, <1>9
  <2> QED
    BY <2>1, <1>3, <1>5, <1>6, <1>9
<1>10. ~mixed' => paused' \in {{}, Queues}
  <2> SUFFICES ASSUME order[r].alone, order[r].todo \ {q} = {} PROVE paused' \in {{}, Queues}
    BY <1>1
  <2>1. order'[r].todo = {} /\ order'[r].kind \in {"pause", "resume"}
    BY <1>2, <1>3 DEF SwitchesQueues
  <2> QED
    BY <1>4, <1>6, <2>1 DEF DoneSoFar
<1>11. \A c \in audit' : order'[c].pc = "done" /\ order'[c].todo = {}
  BY <1>2, <1>3 DEF AdminStrong
<1> QED
  BY <1>2, <1>4, <1>8, <1>9, <1>10, <1>11 DEF AdminStrong, SwitchesQueues

LEMMA SwitchFailsStep ==
  ASSUME AdminStrong, NEW r \in Calls, Admin!SwitchFails(r)
  PROVE  AdminStrong'
<1>1. order' = [order EXCEPT ![r].pc = "done"] /\ mixed' = TRUE /\ UNCHANGED <<paused, audit, raised>> /\ order[r].pc = "queue"
  BY DEF Admin!SwitchFails, Admin!Put
<1>2. \A c \in Calls : /\ order'[c].kind = order[c].kind /\ order'[c].alone = order[c].alone /\ order'[c] \in Orders
                       /\ order'[c].todo = order[c].todo
                       /\ order'[c].pc = IF c = r THEN "done" ELSE order[c].pc
  BY <1>1 DEF AdminStrong, Orders
<1>3. order' \in [Calls -> Orders] /\ r \notin audit
  BY <1>1, <1>2 DEF AdminStrong
<1>4. \A c \in Calls : SwitchesQueues(order'[c]) <=> SwitchesQueues(order[c]) /\ c # r
  BY <1>2 DEF SwitchesQueues
<1>5. \A c \in Calls : /\ order'[c].pc = "queue" => SwitchesQueues(order'[c])
                       /\ order'[c].pc = "audit" => order'[c].todo = {}
  BY <1>2 DEF AdminStrong, SwitchesQueues
<1>6. ASSUME NEW c \in Calls, order'[c].alone, order'[c].pc = "queue"
      PROVE  DoneSoFar(order[c])' /\ \A d \in Calls : SwitchesQueues(order'[d]) => d = c
  BY <1>1, <1>2, <1>4, <1>6 DEF AdminStrong, DoneSoFar
<1>7. \A c \in audit' : order'[c].pc = "done" /\ order'[c].todo = {}
  BY <1>1, <1>2, <1>3 DEF AdminStrong
<1> QED
  BY <1>1, <1>3, <1>5, <1>6, <1>7 DEF AdminStrong, SwitchesQueues

LEMMA AdminStep ==
  ASSUME AdminStrong, [Admin!AdminNext]_adminVars
  PROVE  AdminStrong'
<1>1. CASE UNCHANGED adminVars
  BY <1>1 DEF adminVars, AdminStrong, SwitchesQueues, DoneSoFar
<1> QED
  BY <1>1, MemoryStep, SwitchQueuesStep, InvalidateCacheStep, SwitchNextStep, SwitchFailsStep DEF Admin!AdminNext

\* Pausing or resuming all queues leaves them alike unless another request or a
\* failure came in between, and what is in the log was done to the end.
THEOREM AdministrationKeepsInvariant == ServicesSpec => []QueuesCoherent
<1>1. Admin!AdminInit => AdminStrong
  BY AdminStarts
<1>2. AdminStrong /\ [Admin!AdminNext]_adminVars => AdminStrong'
  BY AdminStep
<1>3. AdminStrong => QueuesCoherent
  <2>1. ASSUME AdminStrong PROVE Admin!AdminTypeOK /\ Admin!LoggedIsDone
    BY <2>1 DEF AdminStrong, Orders, Admin!AdminTypeOK, Admin!LoggedIsDone
  <2>2. ASSUME AdminStrong PROVE Admin!AlikeUnlessMixed
    BY <2>2 DEF AdminStrong, Admin!AlikeUnlessMixed, Admin!Switching, SwitchesQueues
  <2> QED
    BY <2>1, <2>2 DEF QueuesCoherent, Admin!AdminInv
<1> QED
  BY <1>1, <1>2, <1>3, EachStarts, EachSteps, PTL DEF ServicesSpec

-----------------------------------------------------------------------------
(* Incidents and reports.                                                  *)

TicketKinds == {"update", "assign", "note", "resolve", "review"}

RecordRows ==
  [status : IF sort = "incident" THEN {"open", "investigating", "contained", "resolved", "closed"}
            ELSE {"pending", "under_review", "resolved", "dismissed"},
   ended : BOOLEAN, assigned : Calls \union {None}, notes : SUBSET Calls,
   settled : Calls \union {None}, review : Calls \union {None}]
RecordColumns == {"status", "ended", "assigned", "notes", "settled", "review"}

\* The absent value is no request.
RecordsApart == None \notin Calls

\* The row bears the mark of a request.
Bears(x, r) == r \in {x.assigned, x.settled, x.review} \/ r \in x.notes

\* What the row says that requests asked for.
AsKept(x) ==
  [ended |-> x.ended, assigned |-> x.assigned, notes |-> x.notes, settled |-> x.settled, review |-> x.review]

\* A request that is not over has left no mark, and what it has made of the row it loaded.
Holds(r, q) ==
  /\ q.pc # "done" /\ ~recordOverlaid => ~Bears(record, r)
  /\ q.pc \in {"loaded", "compared"} =>
       /\ q.kind \in TicketKinds /\ q.base \in RecordRows /\ q.copy \in RecordRows
       /\ ~q.stale => q.copy \in Records!Changed(q.kind, r, q.base)
       /\ q.pc = "compared" => q.columns = Records!Differing(q.copy, q.base)
       /\ ~recordOverlaid => (q.base.ended => record.ended) /\ ~Bears(q.base, r)

TicketFields == {"kind", "pc", "base", "copy", "columns", "stale"}

\* The inductive invariant.
RecordsStrong ==
  /\ sort \in {"incident", "report"} /\ record \in RecordRows /\ recordOverlaid \in BOOLEAN
  /\ DOMAIN ticket = Calls /\ \A r \in Calls : Holds(r, ticket[r]) /\ DOMAIN ticket[r] = TicketFields
  /\ ~recordOverlaid => /\ kept = AsKept(record)
                        /\ record.status \in {"resolved", "dismissed"} => record.ended
                        /\ \A w \in left : w[1] \in {"closed", "resolved", "dismissed"} => w \in Records!MayLeave

\* A kind of request moves a row from a status to another.
Moves(kind, from, to) == from # to =>
  /\ from \in {"closed", "resolved", "dismissed"} => <<from, kind>> \in Records!MayLeave
  /\ to \in {"resolved", "dismissed"} => kind \in {"update", "resolve"}

\* Two rows agree in some columns.
Same(x, y, columns) == \A f \in columns : x[f] = y[f]

\* An update may move a row from any status but "closed".
LEMMA MovesByUpdate ==
  ASSUME NEW from, NEW to, from # "closed"
  PROVE  Moves("update", from, to)
BY DEF Moves, Records!MayLeave

\* The columns of a row that a request has made of another.
Asks(e, x, kind, r) ==
  /\ e.ended <=> x.ended \/ kind = "resolve" \/ (kind = "update" /\ e.status \in {"resolved", "dismissed"})
  /\ e.assigned = IF kind = "assign" THEN r ELSE x.assigned
  /\ e.notes = IF kind = "note" THEN x.notes \union {r} ELSE x.notes
  /\ e.settled = IF kind = "resolve" THEN r ELSE x.settled
  /\ e.review = IF kind = "review" THEN r ELSE x.review

\* What each operation makes of an entity.
LEMMA ChangedRows ==
  ASSUME sort \in {"incident", "report"}, NEW kind \in TicketKinds, NEW r \in Calls, NEW x \in RecordRows,
         NEW e \in Records!Changed(kind, r, x)
  PROVE  /\ e \in RecordRows /\ Asks(e, x, kind, r)
         /\ Moves(kind, x.status, e.status)
<1>1. CASE sort = "incident" /\ kind = "update"
  <2>1. PICK s \in {"open", "investigating", "contained", "resolved", "closed"} :
          e = [x EXCEPT !.status = s, !.ended = x.ended \/ s = "resolved"] /\ x.status # "closed"
    BY <1>1 DEF Records!Changed, Records!UpdateIncident
  <2>2. /\ e \in RecordRows /\ e.status = s /\ (e.ended <=> x.ended \/ s = "resolved")
        /\ Same(e, x, {"assigned", "notes", "settled", "review"})
    BY <1>1, <2>1 DEF RecordRows, Same
  <2>3. x.status \in {"open", "investigating", "contained", "resolved"}
    BY <1>1, <2>1 DEF RecordRows
  <2> QED
    BY <1>1, <2>2, <2>3, MovesByUpdate DEF RecordRows, Same, Asks
<1>2. CASE kind = "assign"
  <2>1. PICK s \in {x.status, "investigating", "under_review"} :
          /\ e = [x EXCEPT !.assigned = r, !.status = s]
          /\ s = "investigating" => x.status = s \/ (x.status = "open" /\ sort = "incident")
          /\ s = "under_review" => x.status = s \/ (x.status = "pending" /\ sort = "report")
    <3>1. CASE sort = "incident"
      BY <1>2, <3>1 DEF Records!Changed, Records!AssignIncident, RecordRows
    <3>2. CASE sort = "report"
      BY <1>2, <3>2 DEF Records!Changed, Records!AssignReport, RecordRows
    <3> QED
      BY <3>1, <3>2
  <2>2. Moves(kind, x.status, s)
    BY <2>1 DEF Moves
  <2>3. s \in IF sort = "incident" THEN {"open", "investigating", "contained", "resolved", "closed"}
            ELSE {"pending", "under_review", "resolved", "dismissed"}
    BY <2>1 DEF RecordRows
  <2>4. /\ e \in RecordRows /\ e.status = s /\ e.assigned = r
        /\ Same(e, x, {"ended", "notes", "settled", "review"})
    BY <2>1, <2>3 DEF RecordRows, Same
  <2> QED
    BY <1>2, <2>2, <2>4 DEF RecordRows, Same, Asks
<1>3. CASE kind = "note"
  <2>1. e = [x EXCEPT !.notes = @ \union {r}]
    BY <1>3 DEF Records!Changed, Records!AddNote
  <2>2. /\ e \in RecordRows /\ e.notes = x.notes \union {r}
        /\ Same(e, x, {"status", "ended", "assigned", "settled", "review"})
    BY <2>1 DEF RecordRows, Same
  <2> QED
    BY <1>3, <2>2 DEF RecordRows, Same, Asks, Moves
<1>4. CASE kind = "resolve"
  <2>1. e = [x EXCEPT !.status = "resolved", !.settled = r, !.ended = TRUE]
    BY <1>4 DEF Records!Changed, Records!ResolveIncident, Records!ResolveReport
  <2>2. /\ e \in RecordRows /\ e.status = "resolved" /\ e.ended /\ e.settled = r
        /\ Same(e, x, {"assigned", "notes", "review"})
    BY <2>1 DEF RecordRows, Same
  <2> QED
    BY <1>4, <2>2 DEF RecordRows, Same, Asks, Moves, Records!MayLeave
<1>5. CASE kind = "review"
  <2>1. e = [x EXCEPT !.review = r]
    BY <1>5 DEF Records!Changed, Records!AddPostIncidentReport
  <2>2. /\ e \in RecordRows /\ e.review = r
        /\ Same(e, x, {"status", "ended", "assigned", "notes", "settled"})
    BY <2>1 DEF RecordRows, Same
  <2> QED
    BY <1>5, <2>2 DEF RecordRows, Same, Asks, Moves
<1>6. CASE sort = "report" /\ kind = "update"
  <2>1. PICK s \in {"pending", "under_review", "resolved", "dismissed"} :
          e = [x EXCEPT !.status = s, !.ended = x.ended \/ s \in {"resolved", "dismissed"}]
    BY <1>6 DEF Records!Changed, Records!UpdateReport
  <2>2. /\ e \in RecordRows /\ e.status = s /\ (e.ended <=> x.ended \/ s \in {"resolved", "dismissed"})
        /\ Same(e, x, {"assigned", "notes", "settled", "review"})
    BY <1>6, <2>1 DEF RecordRows, Same
  <2>3. x.status \in {"pending", "under_review", "resolved", "dismissed"}
    BY <1>6 DEF RecordRows
  <2> QED
    BY <1>6, <2>2, <2>3, MovesByUpdate DEF RecordRows, Same, Asks
<1> QED
  BY <1>1, <1>2, <1>3, <1>4, <1>5, <1>6 DEF TicketKinds

\* save writes some columns of the entity over the row.
LEMMA SavedRow ==
  ASSUME NEW x \in RecordRows, NEW y \in RecordRows, NEW cs, NEW z,
         z = [f \in DOMAIN y |-> IF f \in cs THEN x[f] ELSE y[f]]
  PROVE  /\ z \in RecordRows
         /\ z.status = IF "status" \in cs THEN x.status ELSE y.status
         /\ z.ended = IF "ended" \in cs THEN x.ended ELSE y.ended
         /\ z.assigned = IF "assigned" \in cs THEN x.assigned ELSE y.assigned
         /\ z.notes = IF "notes" \in cs THEN x.notes ELSE y.notes
         /\ z.settled = IF "settled" \in cs THEN x.settled ELSE y.settled
         /\ z.review = IF "review" \in cs THEN x.review ELSE y.review
<1>1. DOMAIN y = RecordColumns
  BY DEF RecordRows, RecordColumns
<1>2. z = [status |-> IF "status" \in cs THEN x.status ELSE y.status,
           ended |-> IF "ended" \in cs THEN x.ended ELSE y.ended,
           assigned |-> IF "assigned" \in cs THEN x.assigned ELSE y.assigned,
           notes |-> IF "notes" \in cs THEN x.notes ELSE y.notes,
           settled |-> IF "settled" \in cs THEN x.settled ELSE y.settled,
           review |-> IF "review" \in cs THEN x.review ELSE y.review]
  BY <1>1 DEF RecordColumns
<1> QED
  BY <1>2 DEF RecordRows

\* The columns in which two rows differ.
LEMMA DifferingColumns ==
  ASSUME NEW x \in RecordRows, NEW y
  PROVE  \A f \in RecordColumns : f \in Records!Differing(x, y) <=> x[f] # y[f]
BY DEF Records!Differing, RecordRows, RecordColumns

\* A request gets another ticket; the row stays.
LEMMA TicketStep ==
  ASSUME RecordsStrong, NEW r \in Calls, NEW q, ticket' = [ticket EXCEPT ![r] = q], Holds(r, q), DOMAIN q = TicketFields,
         UNCHANGED <<sort, record, kept, left, recordOverlaid>>
  PROVE  RecordsStrong'
<1>1. DOMAIN ticket' = Calls /\ \A c \in Calls : ticket'[c] = IF c = r THEN q ELSE ticket[c]
  BY DEF RecordsStrong
<1>2. RecordRows' = RecordRows
  BY DEF RecordRows
<1>3. \A c \in Calls : Holds(c, ticket'[c])
  BY <1>1 DEF RecordsStrong
<1>4. \A c \in Calls : Holds(c, ticket[c])'
  BY <1>2, <1>3 DEF Holds, Bears, Records!Changed
<1> QED
  BY <1>1, <1>2, <1>4 DEF RecordsStrong

LEMMA SubmittedIsDone ==
  /\ Records!Submitted.pc = "done" /\ Records!NoTicket.pc = "new"
  /\ DOMAIN Records!Submitted = TicketFields /\ DOMAIN Records!NoTicket = TicketFields
BY DEF Records!Submitted, Records!NoTicket, TicketFields

LEMMA LoadRecordStep ==
  ASSUME RecordsStrong, NEW r \in Calls, NEW kind \in TicketKinds, Records!LoadRecord(r, kind)
  PROVE  RecordsStrong'
<1>1. UNCHANGED <<sort, record, kept, left, recordOverlaid>>
  BY DEF Records!LoadRecord
<1>2. CASE ticket' = [ticket EXCEPT ![r] = Records!Submitted]
  BY <1>1, <1>2, SubmittedIsDone, TicketStep DEF Holds
<1>3. CASE \E x \in Records!Changed(kind, r, record) : ticket' = [ticket EXCEPT ![r] =
             [Records!NoTicket EXCEPT !.kind = kind, !.pc = "loaded", !.base = record, !.copy = x]]
  <2>1. PICK x \in Records!Changed(kind, r, record) : ticket' = [ticket EXCEPT ![r] =
             [Records!NoTicket EXCEPT !.kind = kind, !.pc = "loaded", !.base = record, !.copy = x]]
    BY <1>3
  <2> DEFINE q == [Records!NoTicket EXCEPT !.kind = kind, !.pc = "loaded", !.base = record, !.copy = x]
  <2>2. q.kind = kind /\ q.pc = "loaded" /\ q.base = record /\ q.copy = x /\ DOMAIN q = TicketFields
    BY SubmittedIsDone DEF TicketFields
  <2>5. ticket' = [ticket EXCEPT ![r] = q]
    BY <2>1
  <2> HIDE DEF q
  <2>3. x \in RecordRows /\ record \in RecordRows
    <3>1. sort \in {"incident", "report"} /\ record \in RecordRows
      BY DEF RecordsStrong
    <3> QED
      BY <3>1, ChangedRows
  <2>4. ~recordOverlaid => ~Bears(record, r)
    <3>1. ticket[r].pc = "new" /\ Holds(r, ticket[r])
      BY SubmittedIsDone DEF Records!LoadRecord, RecordsStrong
    <3> QED
      BY <3>1 DEF Holds
  <2>6. Holds(r, q)
    BY <2>2, <2>3, <2>4 DEF Holds
  <2> QED
    BY <1>1, <2>2, <2>5, <2>6, TicketStep
<1> QED
  BY <1>2, <1>3 DEF Records!LoadRecord

LEMMA CompareRecordStep ==
  ASSUME RecordsStrong, NEW r \in Calls, Records!CompareRecord(r)
  PROVE  RecordsStrong'
<1> DEFINE q == [ticket[r] EXCEPT !.pc = "compared", !.base = record, !.stale = (@ \/ ticket[r].base # record),
                                  !.columns = Records!Differing(ticket[r].copy, record)]
<1>1. /\ ticket' = [ticket EXCEPT ![r] = q] /\ UNCHANGED <<sort, record, kept, left, recordOverlaid>>
      /\ ticket[r].pc = "loaded"
  BY DEF Records!CompareRecord
<1>2. Holds(r, ticket[r]) /\ record \in RecordRows
  BY DEF RecordsStrong
<1>3. /\ q.pc = "compared" /\ q.base = record /\ q.kind = ticket[r].kind /\ q.copy = ticket[r].copy
      /\ q.stale = (ticket[r].stale \/ ticket[r].base # record) /\ q.columns = Records!Differing(ticket[r].copy, record)
      /\ DOMAIN q = TicketFields
  <2>1. DOMAIN ticket[r] = TicketFields
    BY DEF RecordsStrong
  <2> QED
    BY <2>1 DEF TicketFields
<1> HIDE DEF q
<1>4. Holds(r, q)
  BY <1>1, <1>2, <1>3 DEF Holds, Bears
<1> QED
  BY <1>1, <1>3, <1>4, TicketStep

LEMMA SaveFailsStep ==
  ASSUME RecordsStrong, NEW r \in Calls, Records!SaveFails(r)
  PROVE  RecordsStrong'
BY SubmittedIsDone, TicketStep DEF Records!SaveFails, Holds

LEMMA SaveRecordStep ==
  ASSUME RecordsStrong, NEW r \in Calls, Records!SaveRecord(r)
  PROVE  RecordsStrong'
<1> DEFINE q == ticket[r]
<1>1. /\ record' = [f \in DOMAIN record |-> IF f \in q.columns THEN q.copy[f] ELSE record[f]]
      /\ kept' = Records!WithAsked(kept, r, q.kind, q.copy.status)
      /\ left' = IF record'.status # record.status THEN left \union {<<record.status, q.kind>>} ELSE left
      /\ recordOverlaid' = (recordOverlaid \/ q.stale \/ Records!Differing(q.base, record) \intersect q.columns # {})
      /\ ticket' = [ticket EXCEPT ![r] = Records!Submitted] /\ sort' = sort /\ q.pc = "compared"
  BY DEF Records!SaveRecord
<1>2. /\ Holds(r, q) /\ record \in RecordRows /\ q.kind \in TicketKinds /\ q.base \in RecordRows /\ q.copy \in RecordRows
      /\ q.columns = Records!Differing(q.copy, q.base)
  BY <1>1 DEF RecordsStrong, Holds
<1>3. RecordRows' = RecordRows
  BY <1>1 DEF RecordRows
<1> HIDE DEF q
<1>4. record' \in RecordRows
  BY <1>1, <1>2, SavedRow
<1>5. ASSUME ~recordOverlaid'
      PROVE  /\ ~recordOverlaid /\ (record.ended => record'.ended)
             /\ \A c \in Calls : c # r /\ ~Bears(record, c) => ~Bears(record', c)
             /\ kept' = AsKept(record')
             /\ record'.status \in {"resolved", "dismissed"} => record'.ended
             /\ \A w \in left' : w[1] \in {"closed", "resolved", "dismissed"} => w \in Records!MayLeave
  <2>1. /\ ~recordOverlaid /\ ~q.stale /\ Records!Differing(q.base, record) \intersect q.columns = {}
        /\ (q.base.ended => record.ended) /\ ~Bears(q.base, r) /\ q.copy \in Records!Changed(q.kind, r, q.base)
    BY <1>1, <1>2, <1>5 DEF Holds, RecordsStrong
  <2>2. \A f \in RecordColumns : (f \in q.columns <=> q.copy[f] # q.base[f]) /\ (f \in q.columns => q.base[f] = record[f])
    BY <1>2, <2>1, DifferingColumns
  <2>3. /\ Asks(q.copy, q.base, q.kind, r)
        /\ Moves(q.kind, q.base.status, q.copy.status)
    <3>1. sort \in {"incident", "report"}
      BY DEF RecordsStrong
    <3>2. /\ q.kind \in TicketKinds /\ q.base \in RecordRows /\ q.copy \in Records!Changed(q.kind, r, q.base)
      BY <1>2, <2>1
    <3>3. PICK kind \in TicketKinds : kind = q.kind
      BY <3>2
    <3>4. PICK x \in RecordRows : x = q.base
      BY <3>2
    <3>5. PICK e \in Records!Changed(kind, r, x) : e = q.copy
      BY <3>2, <3>3, <3>4
    <3>6. Asks(e, x, kind, r) /\ Moves(kind, x.status, e.status)
      BY <3>1, ChangedRows
    <3> QED
      BY <3>3, <3>4, <3>5, <3>6
  <2>4. /\ record'.status = IF q.copy.status # q.base.status THEN q.copy.status ELSE record.status
        /\ record'.ended = IF q.copy.ended # q.base.ended THEN q.copy.ended ELSE record.ended
        /\ record'.assigned = IF q.copy.assigned # q.base.assigned THEN q.copy.assigned ELSE record.assigned
        /\ record'.notes = IF q.copy.notes # q.base.notes THEN q.copy.notes ELSE record.notes
        /\ record'.settled = IF q.copy.settled # q.base.settled THEN q.copy.settled ELSE record.settled
        /\ record'.review = IF q.copy.review # q.base.review THEN q.copy.review ELSE record.review
        /\ q.copy.status # q.base.status => q.base.status = record.status
        /\ q.copy.notes # q.base.notes => q.base.notes = record.notes
    <3>1. /\ record'.status = IF "status" \in q.columns THEN q.copy.status ELSE record.status
          /\ record'.ended = IF "ended" \in q.columns THEN q.copy.ended ELSE record.ended
          /\ record'.assigned = IF "assigned" \in q.columns THEN q.copy.assigned ELSE record.assigned
          /\ record'.notes = IF "notes" \in q.columns THEN q.copy.notes ELSE record.notes
          /\ record'.settled = IF "settled" \in q.columns THEN q.copy.settled ELSE record.settled
          /\ record'.review = IF "review" \in q.columns THEN q.copy.review ELSE record.review
      BY <1>1, <1>2, SavedRow
    <3> QED
      BY <2>2, <3>1 DEF RecordColumns
  <2>5. /\ record.ended \in BOOLEAN /\ q.copy.ended \in BOOLEAN /\ q.base.ended \in BOOLEAN
        /\ kept = AsKept(record) /\ (record.status \in {"resolved", "dismissed"} => record.ended)
        /\ \A w \in left : w[1] \in {"closed", "resolved", "dismissed"} => w \in Records!MayLeave
    BY <1>2, <2>1 DEF RecordsStrong, RecordRows
  <2>6. /\ q.copy.ended <=>
             q.base.ended \/ q.kind = "resolve" \/ (q.kind = "update" /\ q.copy.status \in {"resolved", "dismissed"})
        /\ q.copy.assigned = IF q.kind = "assign" THEN r ELSE q.base.assigned
        /\ q.copy.notes = IF q.kind = "note" THEN q.base.notes \union {r} ELSE q.base.notes
        /\ q.copy.settled = IF q.kind = "resolve" THEN r ELSE q.base.settled
        /\ q.copy.review = IF q.kind = "review" THEN r ELSE q.base.review
    BY <2>3 DEF Asks
  <2>7. /\ record'.ended \in BOOLEAN
        /\ record'.ended <=>
             record.ended \/ q.kind = "resolve" \/ (q.kind = "update" /\ q.copy.status \in {"resolved", "dismissed"})
    BY <2>1, <2>4, <2>5, <2>6
  <2>8. /\ record'.assigned = IF q.kind = "assign" THEN r ELSE record.assigned
        /\ record'.notes = IF q.kind = "note" THEN record.notes \union {r} ELSE record.notes
        /\ record'.settled = IF q.kind = "resolve" THEN r ELSE record.settled
        /\ record'.review = IF q.kind = "review" THEN r ELSE record.review
    BY <2>1, <2>4, <2>6 DEF Bears
  <2>9. kept' = AsKept(record')
    BY <1>1, <2>5, <2>7, <2>8 DEF AsKept, Records!WithAsked
  <2>10. record'.status \in {"resolved", "dismissed"} => record'.ended
    BY <2>3, <2>4, <2>5, <2>7 DEF Moves
  <2>11. \A w \in left' : w[1] \in {"closed", "resolved", "dismissed"} => w \in Records!MayLeave
    BY <1>1, <2>3, <2>4, <2>5 DEF Moves
  <2>12. \A c \in Calls : c # r /\ ~Bears(record, c) => ~Bears(record', c)
    BY <2>8 DEF Bears
  <2> QED
    BY <2>1, <2>7, <2>9, <2>10, <2>11, <2>12
<1>6. DOMAIN ticket' = Calls /\ \A c \in Calls : ticket'[c] = IF c = r THEN Records!Submitted ELSE ticket[c]
  BY <1>1 DEF RecordsStrong
<1>7. ASSUME NEW c \in Calls PROVE Holds(c, ticket[c])'
  <2>1. CASE c = r
    BY <2>1, <1>6, SubmittedIsDone DEF Holds
  <2>2. CASE c # r
    <3>1. Holds(c, ticket[c]) /\ ticket'[c] = ticket[c]
      BY <1>6, <2>2 DEF RecordsStrong
    <3>2. PICK p : p = ticket[c] /\ p = ticket'[c] /\ Holds(c, p)
      BY <3>1
    <3>3. ~recordOverlaid' => /\ p.pc # "done" => ~Bears(record', c)
                              /\ p.pc \in {"loaded", "compared"} =>
                                   (p.base.ended => record'.ended) /\ ~Bears(p.base, c)
      BY <1>5, <2>2, <3>2 DEF Holds
    <3>4. p.pc \in {"loaded", "compared"} => 
            /\ p.kind \in TicketKinds /\ p.base \in RecordRows' /\ p.copy \in RecordRows'
            /\ ~p.stale => p.copy \in Records!Changed(p.kind, c, p.base)'
            /\ p.pc = "compared" => p.columns = Records!Differing(p.copy, p.base)
      BY <1>1, <1>3, <3>2 DEF Holds, Records!Changed
    <3> QED
      BY <3>2, <3>3, <3>4 DEF Holds, Bears
  <2> QED
    BY <2>1, <2>2
<1>8. recordOverlaid' \in BOOLEAN
  BY <1>1 DEF RecordsStrong
<1>9. \A c \in Calls : DOMAIN ticket'[c] = TicketFields
  BY <1>6, SubmittedIsDone DEF RecordsStrong
<1>10. sort' \in {"incident", "report"} /\ DOMAIN ticket' = Calls
  BY <1>1, <1>6 DEF RecordsStrong
<1>11. record' \in RecordRows'
  BY <1>3, <1>4
<1> QED
  BY <1>5, <1>7, <1>8, <1>9, <1>10, <1>11 DEF RecordsStrong

LEMMA RecordsStart ==
  ASSUME RecordsApart, Records!RecordsInit
  PROVE  RecordsStrong
<1>1. /\ ticket = [r \in Calls |-> Records!NoTicket] /\ kept = Records!NothingKept /\ left = {} /\ recordOverlaid = FALSE
      /\ sort \in {"incident", "report"}
  BY DEF Records!RecordsInit
<1>2. /\ record \in RecordRows /\ record.status \in {"open", "pending"} /\ AsKept(record) = Records!NothingKept
      /\ \A r \in Calls : ~Bears(record, r)
  <2>1. CASE sort = "incident" /\ record = Records!Fresh("open")
    BY <2>1, RecordsApart DEF RecordsApart, Records!Fresh, Records!NothingKept, RecordRows, AsKept, Bears
  <2>2. CASE sort = "report" /\ record = Records!Fresh("pending")
    BY <2>2, RecordsApart DEF RecordsApart, Records!Fresh, Records!NothingKept, RecordRows, AsKept, Bears
  <2> QED
    BY <2>1, <2>2 DEF Records!RecordsInit
<1> QED
  BY <1>1, <1>2, SubmittedIsDone DEF RecordsStrong, Holds

LEMMA RecordsStep ==
  ASSUME RecordsStrong, [Records!RecordsNext]_recordVars
  PROVE  RecordsStrong'
<1>1. CASE UNCHANGED recordVars
  BY <1>1 DEF recordVars, RecordsStrong, Holds, RecordRows, Bears, Records!Changed
<1> QED
  BY <1>1, LoadRecordStep, CompareRecordStep, SaveRecordStep, SaveFailsStep DEF Records!RecordsNext, TicketKinds

\* Unless a request wrote over what another had changed since it looked: no note,
\* resolution, assignment, post-incident report or time of resolution that was
\* saved is missing, and a row leaves "closed", "resolved" and "dismissed" by the
\* requests in MayLeave only.
THEOREM RecordsKeepInvariant ==
  ASSUME RecordsApart
  PROVE  ServicesSpec => []RecordsKept
<1>1. Records!RecordsInit => RecordsStrong
  BY RecordsStart
<1>2. RecordsStrong /\ [Records!RecordsNext]_recordVars => RecordsStrong'
  BY RecordsStep
<1>3. RecordsStrong => RecordsKept
  BY DEF RecordsStrong, RecordsKept, Records!RecordsInv, Records!RecordsTypeOK, Records!KeptUnlessOverlaid,
         Records!ClosedUnlessOverlaid, RecordRows, AsKept
<1> QED
  BY <1>1, <1>2, <1>3, EachStarts, EachSteps, PTL DEF ServicesSpec

-----------------------------------------------------------------------------
(* Wallets, verifications and scores.                                      *)

\* The absent value is no user, nor an answer.
IdentityApart == None \notin Users /\ None \notin BOOLEAN

Errands == [kind : {"none", "unlink", "verify", "mark", "unmark", "score"},
            pc : {"new", "count", "delete", "claim", "prove", "mark", "compute", "record", "done"},
            user : Users \union {None}, about : Identity!Wallets \union Nullifiers \union {None},
            read : BOOLEAN \union {None}, late : BOOLEAN]

\* An unlink that counted and that no other crossed leaves its user a wallet.
UnlinkLeaves(q) ==
  q.pc \in {"count", "delete"} =>
    /\ q.kind = "unlink" /\ q.user \in Users /\ q.about \in Identity!Wallets
    /\ q.pc = "delete" /\ ~q.late => \E v, w \in Identity!Owned(q.user) : v # w

\* What a verification has claimed is its user's.
ClaimIsOwn(q) ==
  /\ q.kind = "verify" => q.user \in Users /\ q.about \in Nullifiers
  /\ q.pc \in {"claim", "prove"} => q.kind = "verify"
  /\ q.pc = "prove" => claimed[q.about] = q.user

\* What a computation of a score has read, and whether it has changed.
ReadIsTrue(q) ==
  /\ q.pc \in {"mark", "compute", "record"} => q.user \in Users
  /\ q.pc = "record" => /\ q.read \in BOOLEAN
                        /\ q.read => Identity!Proven(q.user)
                        /\ ~q.read /\ ~q.late => ~Identity!Proven(q.user)

\* A verification of u that has still to compute the score.
Scoring(q, u) == q.user = u /\ q.kind = "verify" /\ q.pc \in {"mark", "compute", "record"}
Proving(q, n) == q.kind = "verify" /\ q.pc = "prove" /\ q.about = n

IdentityTyped ==
  /\ owner \in [Identity!Wallets -> Users \union {None}]
  /\ claimed \in [Nullifiers -> Users \union {None}] /\ proven \in [Nullifiers -> Users \union {None}]
  /\ marked \subseteq Users /\ score \in [Users -> BOOLEAN \union {None}]
  /\ bare \subseteq Users /\ crossed \subseteq Users /\ errand \in [Calls -> Errands]

WalletsKept ==
  /\ Identity!OneOwner(owner) /\ bare \subseteq crossed
  /\ \A r \in Calls : UnlinkLeaves(errand[r])

ClaimsKept ==
  /\ \A n \in Nullifiers : /\ proven[n] # None => proven[n] = claimed[n]
                           /\ claimed[n] # None /\ proven[n] = None => n \in halted \/ \E r \in Calls : Proving(errand[r], n)
  /\ \A r \in Calls : ClaimIsOwn(errand[r])

ScoresKept ==
  /\ \A u \in Users : /\ score[u] = TRUE => Identity!Proven(u)
                      /\ score[u] = FALSE /\ Identity!Proven(u) => u \in halted \/ \E r \in Calls : Scoring(errand[r], u)
  /\ \A r \in Calls : ReadIsTrue(errand[r])

\* The inductive invariant.
IdentityStrong == IdentityTyped /\ WalletsKept /\ ClaimsKept /\ ScoresKept

LEMMA ErrandsAreTyped ==
  /\ Identity!NotSent \in Errands /\ Identity!NotSent.pc = "new" /\ Identity!NotSent.kind = "none"
  /\ Identity!Answered \in Errands /\ Identity!Answered.pc = "done" /\ Identity!Answered.kind = "none"
BY DEF Identity!NotSent, Identity!Answered, Identity!Errand, Errands

\* A request starts or goes on and changes no table.
LEMMA ErrandStep ==
  ASSUME IdentityStrong, NEW r \in Calls, NEW q \in Errands, errand' = [errand EXCEPT ![r] = q],
         UNCHANGED <<owner, claimed, proven, score, bare, crossed>>, marked' \subseteq Users, halted \subseteq halted',
         UnlinkLeaves(q), ClaimIsOwn(q), ReadIsTrue(q),
         \A n \in Nullifiers : Proving(errand[r], n) => Proving(q, n) \/ n \in halted' \/ claimed[n] = None,
         \A u \in Users : Scoring(errand[r], u) => Scoring(q, u) \/ u \in halted'
  PROVE  IdentityStrong'
<1> USE DEF IdentityStrong
<1>1. \A c \in Calls : errand'[c] = IF c = r THEN q ELSE errand[c]
  BY DEF IdentityTyped
<1>2. IdentityTyped'
  BY DEF IdentityTyped, Identity!Wallets
<1>3. WalletsKept'
  BY <1>1 DEF WalletsKept, UnlinkLeaves, Identity!OneOwner, Identity!Owned, Identity!Wallets
<1>4. ClaimsKept'
  <2>1. \A c \in Calls : ClaimIsOwn(errand[c])'
    BY <1>1 DEF ClaimsKept, ClaimIsOwn
  <2>2. ASSUME NEW n \in Nullifiers, claimed[n] # None, proven[n] = None, n \notin halted'
        PROVE  \E c \in Calls : Proving(errand'[c], n)
    <3>1. PICK c \in Calls : Proving(errand[c], n)
      BY <2>2 DEF ClaimsKept
    <3> QED
      BY <1>1, <2>2, <3>1
  <2> QED
    BY <2>1, <2>2 DEF ClaimsKept, Proving
<1>5. ScoresKept'
  <2>1. \A c \in Calls : ReadIsTrue(errand[c])'
    BY <1>1 DEF ScoresKept, ReadIsTrue, Identity!Proven
  <2>2. ASSUME NEW u \in Users, score[u] = FALSE, Identity!Proven(u), u \notin halted'
        PROVE  \E c \in Calls : Scoring(errand'[c], u)
    <3>1. PICK c \in Calls : Scoring(errand[c], u)
      BY <2>2 DEF ScoresKept
    <3> QED
      BY <1>1, <2>2, <3>1
  <2> QED
    BY <2>1, <2>2 DEF ScoresKept, Scoring, Identity!Proven
<1> QED
  BY <1>2, <1>3, <1>4, <1>5

\* Also those that fail, or change no table at their last step.
LEMMA ErrandEnds ==
  ASSUME IdentityStrong, NEW r \in Calls, errand' = [errand EXCEPT ![r] = Identity!Answered],
         UNCHANGED <<owner, claimed, proven, score, bare, crossed, marked>>, halted \subseteq halted',
         errand[r].kind = "verify" /\ errand[r].pc \in {"prove", "mark", "compute", "record"} =>
           errand[r].user \in halted' /\ errand[r].about \in halted'
  PROVE  IdentityStrong'
<1>1. PICK q \in Errands : q = Identity!Answered /\ q.pc = "done" /\ q.kind = "none"
  BY ErrandsAreTyped
<1>2. UnlinkLeaves(q) /\ ClaimIsOwn(q) /\ ReadIsTrue(q) /\ marked' \subseteq Users
  BY <1>1 DEF UnlinkLeaves, ClaimIsOwn, ReadIsTrue, IdentityStrong, IdentityTyped
<1>3. /\ \A n \in Nullifiers : Proving(errand[r], n) => n \in halted'
      /\ \A u \in Users : Scoring(errand[r], u) => u \in halted'
  BY DEF Proving, Scoring
<1> QED
  BY <1>1, <1>2, <1>3, ErrandStep

\* A request is sent: it has done nothing yet.
LEMMA SendStep ==
  ASSUME IdentityStrong, NEW r \in Calls, NEW kind \in {"unlink", "verify", "mark", "unmark", "score"},
         NEW pc \in {"count", "claim", "mark", "compute"}, NEW u \in Users,
         NEW about \in Identity!Wallets \union Nullifiers \union {None},
         pc = "count" => kind = "unlink" /\ about \in Identity!Wallets,
         pc = "claim" => kind = "verify", kind = "verify" => about \in Nullifiers,
         Identity!Send(r, kind, pc, u, about),
         UNCHANGED <<owner, claimed, proven, marked, score, bare, crossed, halted>>
  PROVE  IdentityStrong'
<1> DEFINE q == Identity!Errand(kind, pc, u, about)
<1>1. /\ q \in Errands /\ q.kind = kind /\ q.pc = pc /\ q.user = u /\ q.about = about
      /\ errand' = [errand EXCEPT ![r] = q] /\ errand[r] = Identity!NotSent
  BY DEF Identity!Errand, Errands, Identity!Send
<1> HIDE DEF q
<1>2. UnlinkLeaves(q) /\ ClaimIsOwn(q) /\ ReadIsTrue(q)
  BY <1>1 DEF UnlinkLeaves, ClaimIsOwn, ReadIsTrue
<1>3. /\ \A n \in Nullifiers : ~Proving(errand[r], n)
      /\ \A v \in Users : ~Scoring(errand[r], v)
      /\ marked' \subseteq Users
  BY <1>1, ErrandsAreTyped DEF Proving, Scoring, IdentityStrong, IdentityTyped
<1> QED
  BY <1>1, <1>2, <1>3, ErrandStep

LEMMA NotSentEnds ==
  ASSUME IdentityStrong, NEW r \in Calls, errand[r] = Identity!NotSent, Identity!Answer(r),
         UNCHANGED <<owner, claimed, proven, marked, score, bare, crossed, halted>>
  PROVE  IdentityStrong'
BY ErrandsAreTyped, ErrandEnds DEF Identity!Answer

LEMMA LinkWalletStep ==
  ASSUME IdentityApart, IdentityStrong, NEW r \in Calls, NEW u \in Users, NEW a \in Addresses, NEW c \in Chains,
         Identity!LinkWallet(r, u, a, c)
  PROVE  IdentityStrong'
<1>1. /\ errand[r] = Identity!NotSent /\ Identity!Answer(r)
      /\ UNCHANGED <<claimed, proven, marked, score, bare, crossed, halted>>
  BY DEF Identity!LinkWallet, Identity!traces
<1>2. CASE owner' = owner
  BY <1>1, <1>2, NotSentEnds
<1>3. CASE owner' # owner
  <2>1. /\ <<a, c>> \in Identity!Wallets /\ owner' = [owner EXCEPT ![<<a, c>>] = u] /\ owner[<<a, c>>] = None
        /\ Identity!LinkedRows(a, c) = {} \/ \E w \in Identity!LinkedRows(a, c) : owner[w] = u
    BY <1>3 DEF Identity!LinkWallet, Identity!Wallets
  <2>2. PICK l \in Identity!Wallets : l = <<a, c>> /\ l[1] = a
    BY <2>1
  <2>3. \A w \in Identity!Wallets : owner'[w] = IF w = l THEN u ELSE owner[w]
    BY <2>1, <2>2 DEF IdentityStrong, IdentityTyped
  <2>4. \A w \in Identity!Wallets : w[1] = a /\ owner[w] # None => owner[w] = u
    BY <2>1 DEF Identity!LinkedRows, IdentityStrong, WalletsKept, Identity!OneOwner
  <2>5. Identity!OneOwner(owner)'
    BY <2>2, <2>3, <2>4 DEF IdentityStrong, WalletsKept, Identity!OneOwner, Identity!Wallets
  <2>6. owner' \in [Identity!Wallets -> Users \union {None}]
    BY <2>1 DEF IdentityStrong, IdentityTyped
  <2>7. \A v \in Users : Identity!Owned(v) \subseteq Identity!Owned(v)'
    BY <2>1, <2>2, <2>3, IdentityApart DEF Identity!Owned, Identity!Wallets, IdentityApart
  <2>8. \A d \in Calls : errand'[d] = IF d = r THEN Identity!Answered ELSE errand[d]
    BY <1>1 DEF Identity!Answer, IdentityStrong, IdentityTyped
  <2>9. IdentityTyped'
    BY <1>1, <2>6, ErrandsAreTyped DEF IdentityStrong, IdentityTyped, Identity!Answer, Identity!Wallets
  <2>10. WalletsKept'
    <3>1. ASSUME NEW d \in Calls PROVE UnlinkLeaves(errand[d])'
      BY <2>7, <2>8, ErrandsAreTyped DEF IdentityStrong, WalletsKept, UnlinkLeaves
    <3> QED
      BY <1>1, <2>5, <3>1 DEF IdentityStrong, WalletsKept
  <2>11. errand[r].kind = "none" /\ errand[r].pc = "new"
    BY <1>1, ErrandsAreTyped
  <2>12. ClaimsKept'
    BY <1>1, <2>8, <2>11, ErrandsAreTyped DEF IdentityStrong, ClaimsKept, ClaimIsOwn, Proving
  <2>13. ScoresKept'
    BY <1>1, <2>8, <2>11, ErrandsAreTyped DEF IdentityStrong, ScoresKept, ReadIsTrue, Scoring, Identity!Proven
  <2> QED
    BY <2>9, <2>10, <2>12, <2>13 DEF IdentityStrong
<1> QED
  BY <1>2, <1>3

LEMMA FindOwnedStep ==
  ASSUME IdentityStrong, NEW r \in Calls, NEW u \in Users, NEW w \in Identity!Wallets, Identity!FindOwned(r, u, w)
  PROVE  IdentityStrong'
<1>1. UNCHANGED <<owner, claimed, proven, marked, score, bare, crossed, halted>> /\ errand[r] = Identity!NotSent
  BY DEF Identity!FindOwned, Identity!tables, Identity!traces
<1>2. CASE Identity!Send(r, "unlink", "count", u, w)
  BY <1>1, <1>2, SendStep
<1>3. CASE Identity!Answer(r)
  BY <1>1, <1>3, NotSentEnds
<1> QED
  BY <1>2, <1>3 DEF Identity!FindOwned

LEMMA MoreThanOne ==
  ASSUME NEW S, ~(Identity!Cardinality(S) <= 1)
  PROVE  \E v, w \in S : v # w
<1>1. Identity!Cardinality(S) = Cardinality(S)
  BY DEF Identity!Cardinality, Cardinality
<1>2. CASE S = {}
  BY <1>1, <1>2, FS_EmptySet
<1>3. ASSUME NEW v \in S, S = {v} PROVE FALSE
  BY <1>1, <1>3, FS_Singleton
<1> QED
  BY <1>2, <1>3

LEMMA CountWalletsStep ==
  ASSUME IdentityStrong, NEW r \in Calls, Identity!CountWallets(r)
  PROVE  IdentityStrong'
<1>1. /\ UNCHANGED <<owner, claimed, proven, marked, score, bare, crossed, halted>>
      /\ errand[r].kind = "unlink" /\ errand[r].pc = "count"
  BY DEF Identity!CountWallets, Identity!tables, Identity!traces, Identity!At
<1>2. CASE Identity!Answer(r)
  BY <1>1, <1>2, ErrandEnds DEF Identity!Answer
<1>3. CASE ~(Identity!Cardinality(Identity!Owned(errand[r].user)) <= 1) /\ Identity!Go(r, "delete")
  <2>1. errand[r] \in Errands /\ UnlinkLeaves(errand[r])
    BY DEF IdentityStrong, IdentityTyped, WalletsKept
  <2> DEFINE q == [errand[r] EXCEPT !.pc = "delete"]
  <2>2. /\ q \in Errands /\ q.pc = "delete" /\ q.kind = "unlink" /\ q.user = errand[r].user /\ q.about = errand[r].about
        /\ errand' = [errand EXCEPT ![r] = q]
    BY <1>1, <1>3, <2>1 DEF Errands, Identity!Go
  <2> HIDE DEF q
  <2>3. \E v, w \in Identity!Owned(errand[r].user) : v # w
    BY <1>3, MoreThanOne
  <2>4. UnlinkLeaves(q) /\ ClaimIsOwn(q) /\ ReadIsTrue(q)
    BY <1>1, <2>1, <2>2, <2>3 DEF UnlinkLeaves, ClaimIsOwn, ReadIsTrue
  <2>5. /\ \A n \in Nullifiers : ~Proving(errand[r], n)
        /\ \A v \in Users : ~Scoring(errand[r], v)
        /\ marked' \subseteq Users
    BY <1>1 DEF Proving, Scoring, IdentityStrong, IdentityTyped
  <2> QED
    BY <1>1, <2>2, <2>4, <2>5, ErrandStep
<1> QED
  BY <1>2, <1>3 DEF Identity!CountWallets

\* The unlinks of the same user that have counted are late now.
LEMMA DeleteWalletStep ==
  ASSUME IdentityApart, IdentityStrong, NEW r \in Calls, Identity!DeleteWallet(r)
  PROVE  IdentityStrong'
<1> USE DEF IdentityStrong
<1>1. PICK w \in Identity!Wallets : w = errand[r].about
  BY DEF Identity!DeleteWallet, Identity!At, WalletsKept, UnlinkLeaves
<1>2. PICK u \in Users : u = owner[w]
  BY <1>1 DEF Identity!DeleteWallet, IdentityTyped
<1>3. /\ UNCHANGED <<claimed, proven, marked, score, halted>>
      /\ errand[r].kind = "unlink" /\ errand[r].pc = "delete" /\ UnlinkLeaves(errand[r]) /\ errand[r] \in Errands
      /\ owner' = [owner EXCEPT ![w] = None]
      /\ bare' = IF Identity!Owned(u) = {w} THEN bare \union {u} ELSE bare
      /\ crossed' = IF errand[r].late \/ u # errand[r].user THEN crossed \union {u} ELSE crossed
      /\ errand' = [c \in Calls |->
            IF c = r THEN Identity!Answered
            ELSE IF Identity!At(c, "unlink", "delete") /\ errand[c].user = u THEN [errand[c] EXCEPT !.late = TRUE]
            ELSE errand[c]]
  BY <1>1, <1>2 DEF Identity!DeleteWallet, Identity!At, WalletsKept, IdentityTyped
<1>4. errand'[r] = Identity!Answered
  BY <1>3
<1>5. \A c \in Calls : c # r =>
        /\ errand'[c] \in Errands /\ errand'[c].kind = errand[c].kind /\ errand'[c].pc = errand[c].pc
        /\ errand'[c].user = errand[c].user /\ errand'[c].about = errand[c].about
        /\ errand'[c].read = errand[c].read
        /\ IF errand[c].kind = "unlink" /\ errand[c].pc = "delete" /\ errand[c].user = u
           THEN errand'[c].late ELSE errand'[c] = errand[c]
  <2> SUFFICES ASSUME NEW c \in Calls, c # r
               PROVE  /\ errand'[c] \in Errands /\ errand'[c].kind = errand[c].kind /\ errand'[c].pc = errand[c].pc
                      /\ errand'[c].user = errand[c].user /\ errand'[c].about = errand[c].about
                      /\ errand'[c].read = errand[c].read
                      /\ IF errand[c].kind = "unlink" /\ errand[c].pc = "delete" /\ errand[c].user = u
                         THEN errand'[c].late ELSE errand'[c] = errand[c]
    OBVIOUS
  <2>1. errand[c] \in Errands
    BY DEF IdentityTyped
  <2>2. CASE Identity!At(c, "unlink", "delete") /\ errand[c].user = u
    BY <1>3, <2>1, <2>2 DEF Errands, Identity!At
  <2>3. CASE ~(Identity!At(c, "unlink", "delete") /\ errand[c].user = u)
    BY <1>3, <2>1, <2>3 DEF Identity!At
  <2> QED
    BY <2>2, <2>3
<1>6. \A v \in Identity!Wallets : owner'[v] = IF v = w THEN None ELSE owner[v]
  BY <1>3 DEF IdentityTyped
<1>7. errand' \in [Calls -> Errands]
  <2>1. \A c \in Calls : errand'[c] \in Errands
    BY <1>4, <1>5, ErrandsAreTyped
  <2> QED
    BY <1>3, <2>1
<1>8. IdentityTyped'
  <2>1. owner' \in [Identity!Wallets -> Users \union {None}]
    BY <1>3 DEF IdentityTyped
  <2> QED
    BY <1>3, <1>7, <2>1 DEF IdentityTyped, Identity!Wallets
<1>9. Identity!OneOwner(owner)'
  BY <1>6 DEF WalletsKept, Identity!OneOwner, Identity!Wallets
<1>10. bare' \subseteq crossed'
  <2>1. ~errand[r].late /\ u = errand[r].user => Identity!Owned(u) # {w}
    BY <1>3 DEF UnlinkLeaves
  <2> QED
    BY <1>3, <2>1 DEF WalletsKept
<1>11. ASSUME NEW c \in Calls PROVE UnlinkLeaves(errand[c])'
  <2>1. CASE c = r
    BY <1>4, <2>1, ErrandsAreTyped DEF UnlinkLeaves
  <2>2. CASE c # r
    <3>1. UnlinkLeaves(errand[c])
      BY DEF WalletsKept
    <3>2. errand[c].pc = "delete" /\ ~errand'[c].late => errand[c].user # u /\ errand'[c] = errand[c]
      BY <1>5, <2>2, <3>1 DEF UnlinkLeaves
    <3>3. \A v \in Users : v # u => Identity!Owned(v)' = Identity!Owned(v)
      BY <1>2, <1>6, IdentityApart DEF Identity!Owned, Identity!Wallets, IdentityApart
    <3> QED
      BY <1>5, <2>2, <3>1, <3>2, <3>3 DEF UnlinkLeaves, Identity!Wallets
  <2> QED
    BY <2>1, <2>2
<1>12. WalletsKept'
  BY <1>9, <1>10, <1>11 DEF WalletsKept
<1>13. ClaimsKept'
  BY <1>3, <1>4, <1>5, ErrandsAreTyped DEF ClaimsKept, ClaimIsOwn, Proving
<1>14. ScoresKept'
  <2>1. ASSUME NEW c \in Calls PROVE ReadIsTrue(errand[c])'
    BY <1>3, <1>4, <1>5, ErrandsAreTyped DEF ScoresKept, ReadIsTrue, Identity!Proven
  <2>2. \A c \in Calls, v \in Users : Scoring(errand[c], v) => Scoring(errand'[c], v)
    BY <1>3, <1>5 DEF Scoring
  <2> QED
    BY <1>3, <2>1, <2>2 DEF ScoresKept, Identity!Proven, Scoring
<1> QED
  BY <1>8, <1>12, <1>13, <1>14

LEMMA CheckProofStep ==
  ASSUME IdentityStrong, NEW r \in Calls, NEW u \in Users, NEW n \in Nullifiers, Identity!CheckProof(r, u, n)
  PROVE  IdentityStrong'
<1>1. UNCHANGED <<owner, claimed, proven, marked, score, bare, crossed, halted>> /\ errand[r] = Identity!NotSent
  BY DEF Identity!CheckProof, Identity!tables, Identity!traces
<1>2. CASE Identity!Send(r, "verify", "claim", u, n)
  BY <1>1, <1>2, SendStep
<1>3. CASE Identity!Answer(r)
  BY <1>1, <1>3, NotSentEnds
<1> QED
  BY <1>2, <1>3 DEF Identity!CheckProof

\* The nullifier of a verification that goes on is its user's.
LEMMA ClaimNullifierStep ==
  ASSUME IdentityApart, IdentityStrong, NEW r \in Calls, Identity!ClaimNullifier(r)
  PROVE  IdentityStrong'
<1> USE DEF IdentityStrong
<1>1. /\ UNCHANGED <<owner, proven, marked, score, bare, crossed, halted>>
      /\ errand[r].kind = "verify" /\ errand[r].pc = "claim" /\ errand[r] \in Errands
      /\ errand[r].user \in Users /\ errand[r].about \in Nullifiers
  BY DEF Identity!ClaimNullifier, Identity!traces, Identity!At, IdentityTyped, ClaimsKept, ClaimIsOwn
<1>2. CASE Identity!Answer(r) /\ UNCHANGED claimed
  BY <1>1, <1>2, ErrandEnds DEF Identity!Answer
<1>3. CASE claimed[errand[r].about] = None /\ claimed' = [claimed EXCEPT ![errand[r].about] = errand[r].user] /\ Identity!Go(r, "prove")
  <2> DEFINE q == [errand[r] EXCEPT !.pc = "prove"]
             n == errand[r].about
  <2>1. /\ q \in Errands /\ q.pc = "prove" /\ q.kind = "verify" /\ q.user = errand[r].user /\ q.about = n
        /\ errand' = [errand EXCEPT ![r] = q]
    BY <1>1, <1>3 DEF Errands, Identity!Go
  <2>2. \A c \in Calls : errand'[c] = IF c = r THEN q ELSE errand[c]
    BY <2>1 DEF IdentityTyped
  <2>3. n \in Nullifiers /\ \A m \in Nullifiers : claimed'[m] = IF m = n THEN q.user ELSE claimed[m]
    BY <1>1, <1>3, <2>1 DEF IdentityTyped
  <2>4. claimed[n] = None /\ proven[n] = None
    BY <1>1, <1>3 DEF ClaimsKept
  <2> HIDE DEF q, n
  <2>5. claimed' \in [Nullifiers -> Users \union {None}]
    BY <1>1, <1>3 DEF IdentityTyped
  <2>6. IdentityTyped'
    BY <1>1, <2>1, <2>5 DEF IdentityTyped, Identity!Wallets
  <2>7. WalletsKept'
    BY <1>1, <2>1, <2>2 DEF WalletsKept, UnlinkLeaves, Identity!OneOwner, Identity!Owned, Identity!Wallets
  <2>8. ClaimsKept'
    <3>1. ASSUME NEW c \in Calls PROVE ClaimIsOwn(errand[c])'
      <4>1. CASE c = r
        BY <1>1, <2>1, <2>2, <2>3, <4>1 DEF ClaimIsOwn
      <4>2. CASE c # r
        BY <2>2, <2>3, <2>4, <4>2, IdentityApart DEF ClaimsKept, ClaimIsOwn, IdentityApart
      <4> QED
        BY <4>1, <4>2
    <3>2. ASSUME NEW m \in Nullifiers
          PROVE  /\ proven'[m] # None => proven'[m] = claimed'[m]
                 /\ claimed'[m] # None /\ proven'[m] = None => m \in halted' \/ \E c \in Calls : Proving(errand'[c], m)
      <4>1. CASE m = n
        BY <1>1, <2>1, <2>2, <2>3, <2>4, <4>1 DEF Proving
      <4>2. CASE m # n
        BY <1>1, <2>1, <2>2, <2>3, <4>2 DEF ClaimsKept, Proving
      <4> QED
        BY <4>1, <4>2
    <3> QED
      BY <3>1, <3>2 DEF ClaimsKept, Proving
  <2>9. ScoresKept'
    BY <1>1, <2>1, <2>2 DEF ScoresKept, ReadIsTrue, Scoring, Identity!Proven
  <2> QED
    BY <2>6, <2>7, <2>8, <2>9
<1> QED
  BY <1>2, <1>3 DEF Identity!ClaimNullifier, Identity!Unclaimed

\* The scores that are about to be recorded have read too early.
LEMMA StoreProofStep ==
  ASSUME IdentityApart, IdentityStrong, NEW r \in Calls, Identity!StoreProof(r)
  PROVE  IdentityStrong'
<1> USE DEF IdentityStrong
<1>1. PICK u \in Users, n \in Nullifiers : u = errand[r].user /\ n = errand[r].about
  BY DEF Identity!StoreProof, Identity!At, ClaimsKept, ClaimIsOwn
<1>2. /\ UNCHANGED <<owner, claimed, marked, score, bare, crossed, halted>>
      /\ errand[r].kind = "verify" /\ errand[r].pc = "prove" /\ errand[r] \in Errands /\ claimed[n] = u
      /\ proven' = [proven EXCEPT ![n] = u]
      /\ errand' = [c \in Calls |->
            IF c = r THEN [errand[r] EXCEPT !.pc = "mark"]
            ELSE IF errand[c].pc = "record" /\ errand[c].user = u THEN [errand[c] EXCEPT !.late = TRUE]
            ELSE errand[c]]
  BY <1>1 DEF Identity!StoreProof, Identity!At, Identity!traces, ClaimsKept, ClaimIsOwn, IdentityTyped
<1>3. \A c \in Calls :
        /\ errand'[c] \in Errands /\ errand'[c].kind = errand[c].kind /\ errand'[c].pc = IF c = r THEN "mark" ELSE errand[c].pc
        /\ errand'[c].user = errand[c].user /\ errand'[c].about = errand[c].about
        /\ errand'[c].read = errand[c].read
        /\ IF c # r /\ errand[c].pc = "record" /\ errand[c].user = u
           THEN errand'[c].late ELSE errand'[c].late = errand[c].late
  <2> SUFFICES ASSUME NEW c \in Calls
      PROVE /\ errand'[c] \in Errands /\ errand'[c].kind = errand[c].kind /\ errand'[c].pc = IF c = r THEN "mark" ELSE errand[c].pc
            /\ errand'[c].user = errand[c].user /\ errand'[c].about = errand[c].about
            /\ errand'[c].read = errand[c].read
            /\ IF c # r /\ errand[c].pc = "record" /\ errand[c].user = u
               THEN errand'[c].late ELSE errand'[c].late = errand[c].late
    OBVIOUS
  <2>1. errand[c] \in Errands
    BY DEF IdentityTyped
  <2>2. CASE c = r
    BY <1>2, <2>1, <2>2 DEF Errands
  <2>3. CASE c # r /\ errand[c].pc = "record" /\ errand[c].user = u
    BY <1>2, <2>1, <2>3 DEF Errands
  <2>4. CASE c # r /\ ~(errand[c].pc = "record" /\ errand[c].user = u)
    BY <1>2, <2>1, <2>4
  <2> QED
    BY <2>2, <2>3, <2>4
<1>4. \A m \in Nullifiers : proven'[m] = IF m = n THEN u ELSE proven[m]
  BY <1>2 DEF IdentityTyped
<1>5. proven[n] \in {None, u}
  BY <1>2 DEF ClaimsKept
<1>6. /\ \A v \in Users : Identity!Proven(v) => Identity!Proven(v)'
      /\ \A v \in Users : Identity!Proven(v)' /\ v # u => Identity!Proven(v)
  BY <1>4, <1>5, IdentityApart DEF Identity!Proven, IdentityApart
<1>7. IdentityTyped'
  <2>1. errand' \in [Calls -> Errands]
    BY <1>2, <1>3
  <2>2. proven' \in [Nullifiers -> Users \union {None}]
    BY <1>2 DEF IdentityTyped
  <2> QED
    BY <1>2, <2>1, <2>2 DEF IdentityTyped, Identity!Wallets
<1>8. WalletsKept'
  <2>1. ASSUME NEW c \in Calls PROVE UnlinkLeaves(errand[c])'
    <3>1. CASE c = r
      BY <1>3, <3>1 DEF UnlinkLeaves
    <3>2. CASE c # r
      BY <1>2, <1>3, <3>2 DEF WalletsKept, UnlinkLeaves, Identity!Owned, Identity!Wallets
    <3> QED
      BY <3>1, <3>2
  <2> QED
    BY <1>2, <2>1 DEF WalletsKept, Identity!OneOwner, Identity!Wallets
<1>9. ClaimsKept'
  <2>1. ASSUME NEW c \in Calls PROVE ClaimIsOwn(errand[c])'
    BY <1>2, <1>3 DEF ClaimsKept, ClaimIsOwn
  <2>2. ASSUME NEW m \in Nullifiers
        PROVE  /\ proven'[m] # None => proven'[m] = claimed'[m]
               /\ claimed'[m] # None /\ proven'[m] = None => m \in halted' \/ \E c \in Calls : Proving(errand'[c], m)
    <3>1. CASE m = n
      BY <1>2, <1>4, <3>1, IdentityApart DEF IdentityApart
    <3>2. CASE m # n
      <4>1. \A c \in Calls : Proving(errand[c], m) => Proving(errand'[c], m)
        BY <1>1, <1>3, <3>2 DEF Proving
      <4>2. (\E c \in Calls : Proving(errand[c], m)) => \E c \in Calls : Proving(errand'[c], m)
        BY <4>1
      <4>3. proven'[m] = proven[m] /\ claimed'[m] = claimed[m] /\ halted' = halted
        BY <1>2, <1>4, <3>2
      <4> QED
        BY <4>2, <4>3 DEF ClaimsKept
    <3> QED
      BY <3>1, <3>2
  <2> QED
    BY <2>1, <2>2 DEF ClaimsKept, Proving
<1>10. ScoresKept'
  <2>1. ASSUME NEW c \in Calls PROVE ReadIsTrue(errand[c])'
    <3>1. CASE c = r
      BY <1>1, <1>3, <3>1 DEF ReadIsTrue
    <3>2. CASE c # r
      <4>1. ReadIsTrue(errand[c])
        BY DEF ScoresKept
      <4>2. /\ errand'[c].pc = errand[c].pc /\ errand'[c].user = errand[c].user
            /\ errand'[c].read = errand[c].read
        BY <1>3, <3>2
      <4>3. errand[c].pc # "record" => ReadIsTrue(errand[c])'
        BY <4>1, <4>2 DEF ReadIsTrue
      <4>4. ASSUME errand[c].pc = "record" PROVE ReadIsTrue(errand[c])'
        <5>1. PICK v \in Users : v = errand[c].user
          BY <4>1, <4>4 DEF ReadIsTrue
        <5>2. errand[c].read \in BOOLEAN /\ (errand[c].read => Identity!Proven(v)')
          BY <1>6, <4>1, <4>4, <5>1 DEF ReadIsTrue
        <5>3. v # u /\ ~errand[c].read /\ ~errand'[c].late => ~Identity!Proven(v)'
          BY <1>3, <1>6, <3>2, <4>1, <4>4, <5>1 DEF ReadIsTrue
        <5>4. v = u => errand'[c].late
          BY <1>3, <3>2, <4>4, <5>1
        <5> QED
          BY <4>2, <4>4, <5>1, <5>2, <5>3, <5>4 DEF ReadIsTrue, Identity!Proven
      <4> QED
        BY <4>3, <4>4
    <3> QED
      BY <3>1, <3>2
  <2>2. \A c \in Calls, v \in Users : Scoring(errand[c], v) => Scoring(errand'[c], v)
    BY <1>2, <1>3 DEF Scoring
  <2>3. Scoring(errand'[r], u)
    BY <1>1, <1>2, <1>3 DEF Scoring
  <2>4. ASSUME NEW v \in Users
        PROVE  /\ score'[v] = TRUE => Identity!Proven(v)'
               /\ score'[v] = FALSE /\ Identity!Proven(v)' => v \in halted' \/ \E c \in Calls : Scoring(errand'[c], v)
    BY <1>2, <1>6, <2>2, <2>3 DEF ScoresKept
  <2> QED
    BY <2>1, <2>4 DEF ScoresKept, Scoring, Identity!Proven
<1> QED
  BY <1>7, <1>8, <1>9, <1>10

LEMMA MarkVerifiedStep ==
  ASSUME IdentityStrong, NEW r \in Calls, Identity!MarkVerified(r)
  PROVE  IdentityStrong'
<1>1. /\ UNCHANGED <<owner, claimed, proven, score, bare, crossed, halted>>
      /\ errand[r].pc = "mark" /\ errand[r] \in Errands /\ errand[r].user \in Users
      /\ ClaimIsOwn(errand[r])
  BY DEF Identity!MarkVerified, Identity!traces, IdentityStrong, IdentityTyped, ScoresKept, ReadIsTrue, ClaimsKept
<1> DEFINE q == [errand[r] EXCEPT !.pc = "compute"]
<1>2. /\ q \in Errands /\ q.pc = "compute" /\ q.kind = errand[r].kind /\ q.user = errand[r].user
      /\ q.about = errand[r].about
      /\ errand' = [errand EXCEPT ![r] = q]
  BY <1>1 DEF Errands, Identity!Go, Identity!MarkVerified
<1>3. marked' \subseteq Users
  BY <1>1 DEF Identity!MarkVerified, IdentityStrong, IdentityTyped
<1> HIDE DEF q
<1>4. UnlinkLeaves(q) /\ ClaimIsOwn(q) /\ ReadIsTrue(q)
  BY <1>1, <1>2 DEF UnlinkLeaves, ClaimIsOwn, ReadIsTrue
<1>5. /\ \A n \in Nullifiers : ~Proving(errand[r], n)
      /\ \A v \in Users : Scoring(errand[r], v) => Scoring(q, v)
  BY <1>1, <1>2 DEF Proving, Scoring
<1> QED
  BY <1>1, <1>2, <1>3, <1>4, <1>5, ErrandStep

LEMMA ComputeScoreStep ==
  ASSUME IdentityStrong, NEW r \in Calls, Identity!ComputeScore(r)
  PROVE  IdentityStrong'
<1>1. /\ UNCHANGED <<owner, claimed, proven, marked, score, bare, crossed, halted>>
      /\ errand[r].pc = "compute" /\ errand[r] \in Errands /\ errand[r].user \in Users
      /\ ClaimIsOwn(errand[r])
  BY DEF Identity!ComputeScore, Identity!tables, Identity!traces, IdentityStrong, IdentityTyped, ScoresKept, ReadIsTrue, ClaimsKept
<1>2. PICK b \in BOOLEAN : b = Identity!Proven(errand[r].user)
  BY DEF Identity!Proven
<1> DEFINE q == [errand[r] EXCEPT !.pc = "record", !.read = b]
<1>3. errand' = [errand EXCEPT ![r] = q]
  <2>1. errand' = [errand EXCEPT ![r].pc = "record", ![r].read = b]
    BY <1>2, Zenon DEF Identity!ComputeScore, Identity!Verified
  <2> QED
    BY <1>1, <2>1 DEF IdentityStrong, IdentityTyped
<1>4. /\ q \in Errands /\ q.pc = "record" /\ q.kind = errand[r].kind /\ q.user = errand[r].user
      /\ q.about = errand[r].about /\ q.read = b
  BY <1>1 DEF Errands
<1> HIDE DEF q
<1>5. UnlinkLeaves(q) /\ ClaimIsOwn(q) /\ ReadIsTrue(q)
  BY <1>1, <1>2, <1>4 DEF UnlinkLeaves, ClaimIsOwn, ReadIsTrue
<1>6. /\ \A n \in Nullifiers : ~Proving(errand[r], n)
      /\ \A v \in Users : Scoring(errand[r], v) => Scoring(q, v)
      /\ marked' \subseteq Users
  BY <1>1, <1>4 DEF Proving, Scoring, IdentityStrong, IdentityTyped
<1> QED
  BY <1>1, <1>3, <1>4, <1>5, <1>6, ErrandStep

\* The score of one user is another one; every errand ends or stays.
LEMMA RecordScoreStep ==
  ASSUME IdentityApart, IdentityStrong, NEW r \in Calls, Identity!RecordScore(r)
  PROVE  IdentityStrong'
<1> USE DEF IdentityStrong
<1>1. /\ UNCHANGED <<owner, claimed, proven, marked, bare, crossed>>
      /\ errand[r].pc = "record" /\ errand[r] \in Errands /\ errand[r].user \in Users
      /\ ReadIsTrue(errand[r]) /\ errand[r].read \in BOOLEAN
      /\ score' = [score EXCEPT ![errand[r].user] = errand[r].read]
      /\ halted' = IF errand[r].late THEN halted \union {errand[r].user} ELSE halted
      /\ errand' = [errand EXCEPT ![r] = Identity!Answered]
  BY DEF Identity!RecordScore, Identity!Answer, IdentityTyped, ScoresKept, ReadIsTrue
<1>2. PICK u \in Users : u = errand[r].user
  BY <1>1
<1>3. \A c \in Calls : errand'[c] = IF c = r THEN Identity!Answered ELSE errand[c]
  BY <1>1 DEF IdentityTyped
<1>4. \A v \in Users : score'[v] = IF v = u THEN errand[r].read ELSE score[v]
  BY <1>1, <1>2 DEF IdentityTyped
<1>5. IdentityTyped'
  <2>1. score' \in [Users -> BOOLEAN \union {None}]
    BY <1>1 DEF IdentityTyped
  <2> QED
    BY <1>1, <2>1, ErrandsAreTyped DEF IdentityTyped, Identity!Wallets
<1>6. WalletsKept'
  BY <1>1, <1>3, ErrandsAreTyped DEF WalletsKept, UnlinkLeaves, Identity!OneOwner, Identity!Owned, Identity!Wallets
<1>7. ClaimsKept'
  <2>1. \A c \in Calls, n \in Nullifiers : Proving(errand[c], n) => Proving(errand'[c], n)
    BY <1>1, <1>3 DEF Proving
  <2>2. \A c \in Calls : ClaimIsOwn(errand[c])'
    BY <1>1, <1>3, ErrandsAreTyped DEF ClaimsKept, ClaimIsOwn
  <2> QED
    BY <1>1, <2>1, <2>2 DEF ClaimsKept, Proving
<1>8. ScoresKept'
  <2>1. \A c \in Calls : ReadIsTrue(errand[c])'
    BY <1>1, <1>3, ErrandsAreTyped DEF ScoresKept, ReadIsTrue, Identity!Proven
  <2>2. ASSUME NEW v \in Users
        PROVE  /\ score'[v] = TRUE => Identity!Proven(v)
               /\ score'[v] = FALSE /\ Identity!Proven(v) => v \in halted' \/ \E c \in Calls : Scoring(errand'[c], v)
    <3>1. CASE v = u
      BY <1>1, <1>2, <1>4, <3>1 DEF ReadIsTrue
    <3>2. CASE v # u
      <4>1. \A c \in Calls : Scoring(errand[c], v) => Scoring(errand'[c], v)
        BY <1>2, <1>3, <3>2 DEF Scoring
      <4>2. (\E c \in Calls : Scoring(errand[c], v)) => \E c \in Calls : Scoring(errand'[c], v)
        BY <4>1
      <4>3. score'[v] = score[v] /\ halted \subseteq halted'
        BY <1>1, <1>4, <3>2
      <4> QED
        BY <4>2, <4>3 DEF ScoresKept
    <3> QED
      BY <3>1, <3>2
  <2>3. ASSUME NEW v \in Users
        PROVE  (/\ score[v] = TRUE => Identity!Proven(v)
                /\ score[v] = FALSE /\ Identity!Proven(v) => v \in halted \/ \E c \in Calls : Scoring(errand[c], v))'
    <3>1. Identity!Proven(v)' <=> Identity!Proven(v)
      BY <1>1 DEF Identity!Proven
    <3>2. \A c \in Calls : Scoring(errand[c], v)' <=> Scoring(errand'[c], v)
      BY DEF Scoring
    <3>3. (\E c \in Calls : Scoring(errand'[c], v)) => (\E c \in Calls : Scoring(errand[c], v))'
      BY <3>2
    <3> QED
      BY <2>2, <3>1, <3>3
  <2> QED
    BY <2>1, <2>3 DEF ScoresKept
<1> QED
  BY <1>5, <1>6, <1>7, <1>8

LEMMA CleanupScoresStep ==
  ASSUME IdentityApart, IdentityStrong, NEW r \in Calls, NEW u \in Users, Identity!CleanupScores(r, u)
  PROVE  IdentityStrong'
<1> USE DEF IdentityStrong
<1>1. /\ UNCHANGED <<owner, claimed, proven, marked, bare, crossed, halted>>
      /\ errand[r] = Identity!NotSent /\ score' = [score EXCEPT ![u] = None]
      /\ errand' = [errand EXCEPT ![r] = Identity!Answered]
  BY DEF Identity!CleanupScores, Identity!Answer, Identity!traces
<1>2. \A c \in Calls : errand'[c] = IF c = r THEN Identity!Answered ELSE errand[c]
  BY <1>1 DEF IdentityTyped
<1>3. \A v \in Users : score'[v] = IF v = u THEN None ELSE score[v]
  BY <1>1 DEF IdentityTyped
<1>4. IdentityTyped'
  <2>1. score' \in [Users -> BOOLEAN \union {None}]
    BY <1>1 DEF IdentityTyped
  <2> QED
    BY <1>1, <2>1, ErrandsAreTyped DEF IdentityTyped, Identity!Wallets
<1>5. WalletsKept'
  BY <1>1, <1>2, ErrandsAreTyped DEF WalletsKept, UnlinkLeaves, Identity!OneOwner, Identity!Owned, Identity!Wallets
<1>6. ClaimsKept'
  <2>1. \A c \in Calls, n \in Nullifiers : Proving(errand[c], n) => Proving(errand'[c], n)
    BY <1>1, <1>2, ErrandsAreTyped DEF Proving
  <2>2. \A c \in Calls : ClaimIsOwn(errand[c])'
    BY <1>1, <1>2, ErrandsAreTyped DEF ClaimsKept, ClaimIsOwn
  <2> QED
    BY <1>1, <2>1, <2>2 DEF ClaimsKept, Proving
<1>7. ScoresKept'
  <2>1. \A c \in Calls : ReadIsTrue(errand[c])'
    BY <1>1, <1>2, ErrandsAreTyped DEF ScoresKept, ReadIsTrue, Identity!Proven
  <2>2. \A c \in Calls, v \in Users : Scoring(errand[c], v) => Scoring(errand'[c], v)
    BY <1>1, <1>2, ErrandsAreTyped DEF Scoring
  <2>3. \A v \in Users : score'[v] \in BOOLEAN => score'[v] = score[v]
    BY <1>3, IdentityApart DEF IdentityApart
  <2>4. ASSUME NEW v \in Users
        PROVE  /\ score'[v] = TRUE => Identity!Proven(v)
               /\ score'[v] = FALSE /\ Identity!Proven(v) => v \in halted' \/ \E c \in Calls : Scoring(errand'[c], v)
    <3>1. (\E c \in Calls : Scoring(errand[c], v)) => \E c \in Calls : Scoring(errand'[c], v)
      BY <2>2
    <3> QED
      BY <1>1, <2>3, <3>1 DEF ScoresKept
  <2>5. ASSUME NEW v \in Users
        PROVE  (/\ score[v] = TRUE => Identity!Proven(v)
                /\ score[v] = FALSE /\ Identity!Proven(v) => v \in halted \/ \E c \in Calls : Scoring(errand[c], v))'
    <3>1. Identity!Proven(v)' <=> Identity!Proven(v)
      BY <1>1 DEF Identity!Proven
    <3>2. \A c \in Calls : Scoring(errand[c], v)' <=> Scoring(errand'[c], v)
      BY DEF Scoring
    <3>3. (\E c \in Calls : Scoring(errand'[c], v)) => (\E c \in Calls : Scoring(errand[c], v))'
      BY <3>2
    <3> QED
      BY <2>4, <3>1, <3>3
  <2> QED
    BY <2>1, <2>5 DEF ScoresKept
<1> QED
  BY <1>4, <1>5, <1>6, <1>7

LEMMA StatementFailsStep ==
  ASSUME IdentityStrong, NEW r \in Calls, Identity!StatementFails(r)
  PROVE  IdentityStrong'
BY ErrandEnds DEF Identity!StatementFails, Identity!Answer, Identity!tables

LEMMA ScoreRequestStep ==
  ASSUME IdentityStrong, NEW r \in Calls, NEW u \in Users,
         \/ \E v \in BOOLEAN : Identity!SetWorldcoinVerified(r, u, v)
         \/ Identity!LatestScore(r, u) \/ Identity!RecalculateScore(r, u)
  PROVE  IdentityStrong'
<1>1. /\ UNCHANGED <<owner, claimed, proven, marked, score, bare, crossed, halted>>
      /\ \/ Identity!Send(r, "mark", "mark", u, None) \/ Identity!Send(r, "unmark", "mark", u, None)
         \/ Identity!Send(r, "score", "compute", u, None)
  BY DEF Identity!SetWorldcoinVerified, Identity!LatestScore, Identity!RecalculateScore, Identity!tables, Identity!traces
<1> QED
  BY <1>1, SendStep

LEMMA IdentityStarts ==
  ASSUME IdentityApart, Identity!IdentityInit
  PROVE  IdentityStrong
<1>1. /\ claimed = [n \in Nullifiers |-> None] /\ proven = claimed
      /\ marked = {} /\ score = [u \in Users |-> None] /\ bare = {} /\ crossed = {} /\ halted = {}
      /\ errand = [r \in Calls |-> Identity!NotSent]
      /\ owner \in [Identity!Wallets -> Users \union {None}] /\ Identity!OneOwner(owner)
  BY DEF Identity!IdentityInit
<1>2. IdentityTyped
  BY <1>1, ErrandsAreTyped DEF IdentityTyped
<1>3. WalletsKept /\ ClaimsKept
  BY <1>1, ErrandsAreTyped DEF WalletsKept, ClaimsKept, UnlinkLeaves, ClaimIsOwn
<1>4. ScoresKept
  BY <1>1, ErrandsAreTyped, IdentityApart DEF ScoresKept, ReadIsTrue, IdentityApart
<1> QED
  BY <1>2, <1>3, <1>4 DEF IdentityStrong

LEMMA IdentityStep ==
  ASSUME IdentityApart, IdentityStrong, [Identity!IdentityNext]_identityVars
  PROVE  IdentityStrong'
<1>1. CASE UNCHANGED identityVars
  BY <1>1 DEF identityVars, IdentityStrong, IdentityTyped, WalletsKept, UnlinkLeaves, ClaimsKept, ClaimIsOwn, Proving,
     ScoresKept, ReadIsTrue, Scoring, Identity!OneOwner, Identity!Owned, Identity!Wallets, Identity!Proven
<1>2. CASE Identity!WalletNext
  <2>1. \A a \in Addresses, c \in Chains : <<a, c>> \in Identity!Wallets
    BY DEF Identity!Wallets
  <2> QED
    BY <1>2, <2>1, LinkWalletStep, FindOwnedStep, CountWalletsStep, DeleteWalletStep, StatementFailsStep DEF Identity!WalletNext
<1>3. CASE Identity!ScoreNext
  BY <1>3, CheckProofStep, ScoreRequestStep, CleanupScoresStep, ClaimNullifierStep, StoreProofStep, MarkVerifiedStep,
     ComputeScoreStep, RecordScoreStep, StatementFailsStep DEF Identity!ScoreNext
<1> QED
  BY <1>1, <1>2, <1>3 DEF Identity!IdentityNext

\* An address has one user, the two databases agree on who proved to be a
\* person and the scores follow from it, and nobody loses the last wallet,
\* except in the cases the invariant names: unlinks that crossed, requests that
\* failed halfway, scores computed from what had changed.
THEOREM IdentityKeepsInvariant ==
  ASSUME IdentityApart
  PROVE  ServicesSpec => []IdentityCoherent
<1>1. Identity!IdentityInit => IdentityStrong
  BY IdentityStarts
<1>2. IdentityStrong /\ [Identity!IdentityNext]_identityVars => IdentityStrong'
  BY IdentityStep
<1>3. ASSUME IdentityStrong PROVE Identity!IdentityInv
  <2>1. Identity!IdentityTypeOK /\ Identity!OneOwner(owner) /\ Identity!BareOnlyWhenCrossed
    BY <1>3 DEF IdentityStrong, IdentityTyped, WalletsKept, Identity!IdentityTypeOK, Identity!BareOnlyWhenCrossed
  <2>2. Identity!ProofsAgree
    BY <1>3 DEF IdentityStrong, ClaimsKept, Proving, Identity!ProofsAgree, Identity!At
  <2>3. Identity!ScoreUpToDate
    BY <1>3 DEF IdentityStrong, ScoresKept, Scoring, Identity!ScoreUpToDate
  <2> QED
    BY <2>1, <2>2, <2>3 DEF Identity!IdentityInv
<1>4. IdentityStrong => IdentityCoherent
  BY <1>3 DEF IdentityCoherent
<1> QED
  BY <1>1, <1>2, <1>4, EachStarts, EachSteps, PTL DEF ServicesSpec

-----------------------------------------------------------------------------
(* Scores and reputations.                                                 *)

TopicsFinite == IsFiniteSet(Topics)

Verdicts == {"open", "true", "false"}
Ratings  == [Raters -> 0 .. 100]
Runs == [job : {"none", "scores", "rating"}, pc : {"new", "users", "claims", "save", "done"},
         claims : [Topics -> Verdicts] \union {None}, users : Ratings \union {None},
         batch : SUBSET Raters, todo : SUBSET (Topics \union Raters), clean : BOOLEAN]

\* What a run has read when it saves, and what it still has to save.
HasRead(q) ==
  /\ q.pc = "users" => q.job = "scores" /\ q.todo \subseteq Topics
  /\ q.pc = "claims" => q.job = "rating"
  /\ q.pc = "save" /\ q.job = "scores" => q.users \in Ratings /\ q.todo \subseteq Topics
  /\ q.pc \in {"claims", "save"} /\ q.job = "rating" => q.users \in Ratings /\ q.todo \subseteq q.batch
  /\ q.pc = "save" => q.job \in {"scores", "rating"}
  /\ q.pc = "save" /\ q.job = "rating" =>
       /\ q.claims \in [Topics -> Verdicts]
       /\ \A c \in Topics : q.claims[c] = "true" => c \in everTrue

\* As long as no claim was finalized from outside, a run has read no reputation.
HasReadNothing(q) == q.pc \in {"claims", "save"} => (q.users \in Ratings => \A u \in Raters : q.users[u] = 0)

Rated(u) == Jobs!VotedOn(verdict, u) # {} => reputation[u] = Jobs!Rating(verdict, u)

\* A rating that nothing has disturbed has read what there is, and whom it has
\* dealt with is rated.
Undisturbed(q) ==
  q.job = "rating" /\ q.clean =>
    /\ q.pc = "claims" => q.todo = q.batch /\ q.users = reputation
    /\ q.pc = "save" => /\ q.claims = verdict
                        /\ \A u \in q.batch : IF u \in q.todo THEN reputation[u] = q.users[u] ELSE Rated(u)

JobsTyped ==
  /\ stakes \in [Raters \X Topics -> {"none", "withdrawn", "staked"}]
  /\ verdict \in [Topics -> Verdicts] /\ reputation \in Ratings /\ everTrue \subseteq Topics
  /\ outside \in BOOLEAN /\ uptodate \subseteq Raters /\ work \in [Calls -> Runs]

RunsKnow == \A r \in Calls : HasRead(work[r]) /\ Undisturbed(work[r])
TrueWasTrue == \A c \in Topics : verdict[c] = "true" => c \in everTrue
Seeded == ~outside => everTrue = {} /\ (\A u \in Raters : reputation[u] = 0) /\ \A r \in Calls : HasReadNothing(work[r])
Earned == \A u \in Raters : reputation[u] > 0 => \E c \in everTrue : stakes[<<u, c>>] # "none"
UpToDate ==
  /\ \A u \in uptodate : Rated(u)
  /\ uptodate # {} => \A r \in Calls : work[r].job = "rating" /\ work[r].pc = "save" => work[r].claims = verdict

\* The inductive invariant.
JobsStrong == JobsTyped /\ RunsKnow /\ TrueWasTrue /\ Seeded /\ Earned /\ UpToDate

LEMMA ProductsKeepOrder ==
  ASSUME NEW m \in Nat, NEW a \in Int, NEW b \in Int, a <= b
  PROVE  m * a <= m * b
OBVIOUS

LEMMA DivisionBounds ==
  ASSUME NEW a \in Nat, NEW b \in Nat, b > 0
  PROVE  (a \div b) \in Int /\ b * (a \div b) <= a /\ a < b * (a \div b) + b
OBVIOUS

\* A rounded percentage is one, and that of nothing is 0.
LEMMA Rounded ==
  ASSUME NEW n \in Nat, NEW m \in Nat, n <= m, m > 0
  PROVE  /\ (200 * n + m) \div (2 * m) \in 0 .. 100
         /\ n = 0 => (200 * n + m) \div (2 * m) = 0
<1>1. 200 * n + m \in Nat /\ 2 * m \in Nat /\ 2 * m > 0
  OBVIOUS
<1>2. PICK q \in Int : q = (200 * n + m) \div (2 * m)
  BY <1>1
<1>3. (2 * m) * q <= 200 * n + m /\ 200 * n + m < (2 * m) * q + 2 * m
  BY <1>1, <1>2, DivisionBounds
<1>4. q >= 0
  <2>1. CASE q <= -1
    <3>1. (2 * m) * q <= (2 * m) * (-1)
      BY <1>1, <2>1, ProductsKeepOrder
    <3> QED
      BY <1>3, <3>1
  <2> QED
    BY <2>1
<1>5. q <= 100
  <2>1. CASE q >= 101
    <3>1. (2 * m) * 101 <= (2 * m) * q
      BY <1>1, <2>1, ProductsKeepOrder
    <3> QED
      BY <1>3, <3>1
  <2> QED
    BY <2>1
<1>6. ASSUME n = 0 PROVE q = 0
  <2>1. CASE q >= 1
    <3>1. (2 * m) * 1 <= (2 * m) * q
      BY <1>1, <2>1, ProductsKeepOrder
    <3> QED
      BY <1>3, <3>1, <1>6
  <2> QED
    BY <2>1, <1>4
<1> QED
  BY <1>2, <1>4, <1>5, <1>6

\* A rating is a percentage, and is above 0 only for a vote that was right.
LEMMA RatingIsEarned ==
  ASSUME TopicsFinite, NEW claims, NEW u, Jobs!VotedOn(claims, u) # {}
  PROVE  /\ Jobs!Rating(claims, u) \in 0 .. 100
         /\ Jobs!Correct(claims, u) = {} => Jobs!Rating(claims, u) = 0
<1> DEFINE voted == Jobs!VotedOn(claims, u)
           right == Jobs!Correct(claims, u)
<1>1. voted \subseteq Topics /\ right \subseteq voted
  BY DEF Jobs!VotedOn, Jobs!Correct
<1>2. IsFiniteSet(voted)
  BY <1>1, FS_Subset DEF TopicsFinite
<1>3. IsFiniteSet(right) /\ Cardinality(right) <= Cardinality(voted)
  BY <1>1, <1>2, FS_Subset
<1>4. Cardinality(voted) \in Nat /\ Cardinality(right) \in Nat
  BY <1>2, <1>3, FS_CardinalityType
<1>5. Cardinality(voted) # 0
  BY <1>2, FS_EmptySet
<1>6. right = {} => Cardinality(right) = 0
  BY FS_EmptySet
<1>7. Jobs!Cardinality(voted) = Cardinality(voted) /\ Jobs!Cardinality(right) = Cardinality(right)
  BY DEF Jobs!Cardinality, Cardinality
<1>8. Jobs!Rating(claims, u) = (200 * Cardinality(right) + Cardinality(voted)) \div (2 * Cardinality(voted))
  BY <1>7 DEF Jobs!Rating
<1> HIDE DEF voted, right
<1>9. PICK n \in Nat, m \in Nat : n = Cardinality(right) /\ m = Cardinality(voted)
  BY <1>4
<1>10. /\ (200 * n + m) \div (2 * m) \in 0 .. 100
       /\ n = 0 => (200 * n + m) \div (2 * m) = 0
  <2>1. n <= m /\ m > 0
    BY <1>3, <1>5, <1>9
  <2> QED
    BY <2>1, Rounded
<1> QED
  BY <1>6, <1>8, <1>9, <1>10 DEF right

LEMMA FinishedIsARun ==
  /\ Jobs!NotRun \in Runs /\ Jobs!NotRun.pc = "new" /\ Jobs!NotRun.job = "none"
  /\ Jobs!Finished \in Runs /\ Jobs!Finished.pc = "done" /\ Jobs!Finished.job = "none"
BY DEF Jobs!NotRun, Jobs!Finished, Runs

\* A run goes on, and saves nothing.
LEMMA RunStep ==
  ASSUME JobsStrong, NEW r \in Calls, NEW w \in Runs, work' = [work EXCEPT ![r] = w],
         UNCHANGED <<stakes, verdict, reputation, outside, everTrue>>, uptodate' \subseteq Raters,
         HasRead(w), Undisturbed(w), ~outside => HasReadNothing(w),
         uptodate' # {} /\ w.job = "rating" /\ w.pc = "save" => w.claims = verdict,
         \/ uptodate' = uptodate
         \/ /\ \A u \in uptodate' : Rated(u)
            /\ uptodate' # {} => \A q \in Calls : q # r => ~(work[q].job = "rating" /\ work[q].pc = "save")
  PROVE  JobsStrong'
<1> USE DEF JobsStrong
<1>1. \A q \in Calls : work'[q] = IF q = r THEN w ELSE work[q]
  BY DEF JobsTyped
<1>2. JobsTyped'
  BY DEF JobsTyped, Ratings, Runs
<1>3. ASSUME NEW u \in Raters PROVE Rated(u)' <=> Rated(u)
  BY DEF Rated, Jobs!VotedOn, Jobs!Rating, Jobs!Correct
<1>4. ASSUME NEW q \in Calls PROVE HasRead(work[q])'
  BY <1>1 DEF RunsKnow, HasRead, Ratings
<1>5. ASSUME NEW q \in Calls PROVE Undisturbed(work[q])'
  <2>1. Undisturbed(work'[q]) /\ work'[q].batch \subseteq Raters
    BY <1>1 DEF RunsKnow, JobsTyped, Runs
  <2> QED
    BY <1>3, <2>1 DEF Undisturbed
<1>6. RunsKnow'
  BY <1>4, <1>5 DEF RunsKnow
<1>7. Seeded'
  <2>1. ASSUME ~outside, NEW q \in Calls PROVE HasReadNothing(work[q])'
    <3>1. HasReadNothing(work'[q])
      BY <1>1, <2>1 DEF Seeded
    <3> QED
      BY <3>1 DEF HasReadNothing, Ratings
  <2> QED
    BY <2>1 DEF Seeded
<1>8. TrueWasTrue' /\ Earned'
  BY DEF TrueWasTrue, Earned
<1>9. UpToDate'
  <2>1. \A u \in uptodate' : u \in Raters /\ Rated(u)
    BY DEF UpToDate
  <2>2. uptodate' # {} => \A q \in Calls : q # r /\ work[q].job = "rating" /\ work[q].pc = "save" => work[q].claims = verdict
    BY DEF UpToDate
  <2> QED
    BY <1>1, <1>3, <2>1, <2>2 DEF UpToDate
<1> QED
  BY <1>2, <1>6, <1>7, <1>8, <1>9

\* A run is disturbed by a change only, and knows what it knew.
LEMMA DisturbedRun ==
  ASSUME JobsTyped, NEW c \in Topics, NEW v \in Verdicts, NEW q \in Calls
  PROVE  /\ Jobs!Disturbed(c, v)[q] \in Runs
         /\ v = verdict[c] => Jobs!Disturbed(c, v)[q] = work[q]
         /\ v # verdict[c] => ~Jobs!Disturbed(c, v)[q].clean
         /\ \A f \in {"job", "pc", "claims", "users", "batch", "todo"} : Jobs!Disturbed(c, v)[q][f] = work[q][f]
<1>1. work[q] \in Runs
  BY DEF JobsTyped
<1>2. CASE v = verdict[c]
  BY <1>1, <1>2 DEF Jobs!Disturbed
<1>3. CASE v # verdict[c]
  <2>1. Jobs!Disturbed(c, v)[q] = [work[q] EXCEPT !.clean = FALSE]
    BY <1>3 DEF Jobs!Disturbed
  <2> QED
    BY <1>1, <1>3, <2>1 DEF Runs
<1> QED
  BY <1>2, <1>3

\* A claim becomes v, and a run that rates nobody has become w.
LEMMA VerdictStep ==
  ASSUME JobsStrong, NEW r \in Calls, NEW c \in Topics, NEW v \in Verdicts, Jobs!SetVerdict(c, v),
         NEW w \in Runs, w.job # "rating", HasRead(w), work' = [Jobs!Disturbed(c, v) EXCEPT ![r] = w],
         UNCHANGED <<stakes, reputation>>, outside' \in BOOLEAN,
         ~outside' => ~outside /\ v # "true" /\ HasReadNothing(w)
  PROVE  JobsStrong'
<1> USE DEF JobsStrong
<1>1. /\ verdict' = [verdict EXCEPT ![c] = v] /\ verdict' \in [Topics -> Verdicts]
      /\ \A d \in Topics : verdict'[d] = IF d = c THEN v ELSE verdict[d]
      /\ everTrue' = IF v = "true" THEN everTrue \union {c} ELSE everTrue
      /\ everTrue \subseteq everTrue' /\ everTrue' \subseteq Topics
      /\ uptodate' = IF v = verdict[c] THEN uptodate ELSE {}
  BY DEF Jobs!SetVerdict, JobsTyped
<1>2. v = verdict[c] => verdict' = verdict
  BY <1>1 DEF JobsTyped
<1>3. \A q \in Calls :
        /\ Jobs!Disturbed(c, v)[q] \in Runs
        /\ v = verdict[c] => Jobs!Disturbed(c, v)[q] = work[q]
        /\ v # verdict[c] => ~Jobs!Disturbed(c, v)[q].clean
        /\ \A f \in {"job", "pc", "claims", "users", "batch", "todo"} : Jobs!Disturbed(c, v)[q][f] = work[q][f]
  BY DisturbedRun
<1>4. DOMAIN Jobs!Disturbed(c, v) = Calls
  BY DEF Jobs!Disturbed, JobsTyped
<1>5. work' \in [Calls -> Runs] /\ work'[r] = w
  BY <1>3, <1>4
<1>6. ASSUME NEW q \in Calls, q # r
      PROVE  /\ v = verdict[c] => work'[q] = work[q]
             /\ v # verdict[c] => ~work'[q].clean
             /\ work'[q].job = work[q].job /\ work'[q].pc = work[q].pc /\ work'[q].claims = work[q].claims
             /\ work'[q].users = work[q].users /\ work'[q].batch = work[q].batch /\ work'[q].todo = work[q].todo
  BY <1>3, <1>4, <1>6
<1>7. JobsTyped'
  <2>1. uptodate' \subseteq Raters
    BY <1>1 DEF JobsTyped
  <2> QED
    BY <1>1, <1>5, <2>1 DEF JobsTyped, Ratings, Runs
<1>8. ASSUME NEW q \in Calls PROVE HasRead(work[q])'
  <2>1. CASE q = r
    BY <1>1, <1>5, <2>1 DEF HasRead, Ratings
  <2>2. CASE q # r
    BY <1>1, <1>6, <2>2 DEF RunsKnow, HasRead, Ratings
  <2> QED
    BY <2>1, <2>2
<1>9. ASSUME v = verdict[c], NEW u \in Raters PROVE Rated(u)' <=> Rated(u)
  BY <1>2, <1>9 DEF Rated, Jobs!VotedOn, Jobs!Rating, Jobs!Correct
<1>10. ASSUME NEW q \in Calls PROVE Undisturbed(work[q])'
  <2>1. CASE q = r
    BY <1>5, <2>1 DEF Undisturbed
  <2>2. CASE q # r /\ v # verdict[c]
    BY <1>6, <2>2 DEF Undisturbed
  <2>3. CASE q # r /\ v = verdict[c]
    <3>1. Undisturbed(work'[q]) /\ verdict' = verdict /\ work'[q].batch \subseteq Raters
      BY <1>2, <1>6, <2>3 DEF RunsKnow, JobsTyped, Runs
    <3> QED
      BY <1>9, <2>3, <3>1 DEF Undisturbed
  <2> QED
    BY <2>1, <2>2, <2>3
<1>11. TrueWasTrue' /\ Earned'
  <2>1. TrueWasTrue'
    BY <1>1 DEF TrueWasTrue
  <2>2. Earned'
    BY <1>1 DEF Earned
  <2> QED
    BY <2>1, <2>2
<1>12. Seeded'
  <2> SUFFICES ASSUME ~outside' PROVE (everTrue = {} /\ (\A u \in Raters : reputation[u] = 0) /\ \A q \in Calls : HasReadNothing(work[q]))'
    BY DEF Seeded
  <2>1. everTrue' = {} /\ \A u \in Raters : reputation'[u] = 0
    BY <1>1 DEF Seeded
  <2>2. ASSUME NEW q \in Calls PROVE HasReadNothing(work[q])'
    <3>1. CASE q = r
      BY <1>5, <3>1 DEF HasReadNothing, Ratings
    <3>2. CASE q # r
      BY <1>6, <3>2 DEF Seeded, HasReadNothing, Ratings
    <3> QED
      BY <3>1, <3>2
  <2> QED
    BY <2>1, <2>2
<1>13. UpToDate'
  <2> SUFFICES ASSUME uptodate' # {}
      PROVE /\ \A u \in uptodate' : Rated(u)'
            /\ \A q \in Calls : work'[q].job = "rating" /\ work'[q].pc = "save" => work'[q].claims = verdict'
    BY DEF UpToDate
  <2>1. uptodate' = uptodate /\ uptodate # {} /\ v = verdict[c] /\ verdict' = verdict /\ uptodate \subseteq Raters
    BY <1>1, <1>2 DEF JobsTyped
  <2>2. \A u \in uptodate' : Rated(u)'
    BY <1>9, <2>1 DEF UpToDate
  <2>3. \A q \in Calls : work'[q].job = "rating" /\ work'[q].pc = "save" => work'[q].claims = verdict'
    BY <1>5, <1>6, <2>1 DEF UpToDate
  <2> QED
    BY <2>2, <2>3
<1> QED
  BY <1>7, <1>8, <1>10, <1>11, <1>12, <1>13 DEF RunsKnow

LEMMA FinishStep ==
  ASSUME JobsStrong, NEW r \in Calls, work' = [work EXCEPT ![r] = Jobs!Finished],
         UNCHANGED <<stakes, verdict, reputation, outside, everTrue>>, uptodate' \subseteq Raters,
         \/ uptodate' = uptodate
         \/ /\ \A u \in uptodate' : Rated(u)
            /\ uptodate' # {} => \A q \in Calls : q # r => ~(work[q].job = "rating" /\ work[q].pc = "save")
  PROVE  JobsStrong'
<1>1. PICK w \in Runs : w = Jobs!Finished /\ w.pc = "done" /\ w.job = "none"
  BY FinishedIsARun
<1>2. HasRead(w) /\ Undisturbed(w) /\ HasReadNothing(w)
  BY <1>1 DEF HasRead, Undisturbed, HasReadNothing
<1> QED
  BY <1>1, <1>2, RunStep

LEMMA FinalizeOutsideStep ==
  ASSUME JobsStrong, NEW r \in Calls, NEW c \in Topics, NEW v \in {"true", "false"}, Jobs!FinalizeOutside(r, c, v)
  PROVE  JobsStrong'
<1>1. PICK w \in Runs : w = Jobs!Finished /\ w.pc = "done" /\ w.job = "none"
  BY FinishedIsARun
<1>2. HasRead(w) /\ v \in Verdicts
  BY <1>1 DEF HasRead, Verdicts
<1> QED
  BY <1>1, <1>2, VerdictStep DEF Jobs!FinalizeOutside

LEMMA BeginScoresStep ==
  ASSUME JobsStrong, NEW r \in Calls, Jobs!BeginScores(r)
  PROVE  JobsStrong'
<1>0. PICK batch \in SUBSET Topics :
        /\ work' = [work EXCEPT ![r] = [Jobs!NotRun EXCEPT !.job = "scores", !.pc = "users", !.todo = batch]]
        /\ UNCHANGED <<stakes, verdict, reputation, outside, everTrue, uptodate>>
  BY DEF Jobs!BeginScores, Jobs!Batches
<1> DEFINE w == [Jobs!NotRun EXCEPT !.job = "scores", !.pc = "users", !.todo = batch]
<1>1. /\ w \in Runs /\ w.job = "scores" /\ w.pc = "users" /\ w.todo \subseteq Topics
      /\ work' = [work EXCEPT ![r] = w]
      /\ UNCHANGED <<stakes, verdict, reputation, outside, everTrue, uptodate>>
  BY <1>0 DEF Jobs!NotRun, Runs
<1> HIDE DEF w
<1>2. HasRead(w) /\ Undisturbed(w) /\ HasReadNothing(w) /\ uptodate' \subseteq Raters
  BY <1>1 DEF HasRead, Undisturbed, HasReadNothing, JobsStrong, JobsTyped
<1> QED
  BY <1>1, <1>2, RunStep

LEMMA ReadStakersStep ==
  ASSUME JobsStrong, NEW r \in Calls, Jobs!ReadStakers(r)
  PROVE  JobsStrong'
<1> DEFINE w == [work[r] EXCEPT !.pc = "save", !.users = reputation]
<1>1. work[r] \in Runs /\ HasRead(work[r]) /\ reputation \in Ratings /\ work[r].job = "scores" /\ work[r].pc = "users"
  BY DEF JobsStrong, JobsTyped, RunsKnow, Jobs!ReadStakers
<1>2. w \in Runs /\ w.job = "scores" /\ w.pc = "save" /\ w.users = reputation /\ w.todo = work[r].todo
  BY <1>1 DEF Runs
<1>3. work' = [work EXCEPT ![r] = w] /\ UNCHANGED <<stakes, verdict, reputation, outside, everTrue, uptodate>>
  BY DEF Jobs!ReadStakers, JobsStrong, JobsTyped
<1> HIDE DEF w
<1>4. HasRead(w) /\ Undisturbed(w) /\ uptodate' \subseteq Raters
  BY <1>1, <1>2, <1>3 DEF HasRead, Undisturbed, JobsStrong, JobsTyped
<1>5. ~outside => HasReadNothing(w)
  BY <1>2 DEF HasReadNothing, JobsStrong, Seeded
<1> QED
  BY <1>2, <1>3, <1>4, <1>5, RunStep

\* Without a reputation nobody's vote weighs anything.
LEMMA SaveScoreStep ==
  ASSUME JobsStrong, NEW r \in Calls, Jobs!SaveScore(r)
  PROVE  JobsStrong'
<1>1. /\ work[r] \in Runs /\ HasRead(work[r]) /\ work[r].job = "scores" /\ work[r].pc = "save"
      /\ work[r].users \in Ratings /\ work[r].todo \subseteq Topics
  BY DEF JobsStrong, JobsTyped, RunsKnow, Jobs!SaveScore, HasRead
<1>2. PICK c \in work[r].todo :
        /\ Jobs!SetVerdict(c, Jobs!Aggregated(work[r].users, c))
        /\ work' = [Jobs!Disturbed(c, Jobs!Aggregated(work[r].users, c)) EXCEPT ![r].todo = @ \ {c}]
  BY DEF Jobs!SaveScore
<1>3. PICK v \in Verdicts : v = Jobs!Aggregated(work[r].users, c)
  BY DEF Jobs!Aggregated, Verdicts
<1>4. PICK d \in Runs : /\ d = Jobs!Disturbed(c, v)[r]
                        /\ d.job = "scores" /\ d.pc = "save" /\ d.users = work[r].users /\ d.todo = work[r].todo
  <2>1. c \in Topics /\ JobsTyped
    BY <1>1 DEF JobsStrong
  <2>2. \A f \in {"job", "pc", "claims", "users", "batch", "todo"} : Jobs!Disturbed(c, v)[r][f] = work[r][f]
    BY <2>1, DisturbedRun
  <2>3. Jobs!Disturbed(c, v)[r] \in Runs
    BY <2>1, DisturbedRun
  <2> QED
    BY <1>1, <2>2, <2>3
<1> DEFINE w == [d EXCEPT !.todo = d.todo \ {c}]
<1>5. w \in Runs /\ w.job = "scores" /\ w.pc = "save" /\ w.users = work[r].users /\ w.todo = work[r].todo \ {c}
  BY <1>4 DEF Runs
<1>6. work' = [Jobs!Disturbed(c, v) EXCEPT ![r] = w]
  BY <1>2, <1>3, <1>4
<1> HIDE DEF w
<1>7. HasRead(w)
  BY <1>1, <1>5 DEF HasRead
<1>8. ASSUME ~outside PROVE v # "true" /\ HasReadNothing(w)
  <2>1. \A u \in Raters : work[r].users[u] = 0
    BY <1>1, <1>8 DEF JobsStrong, Seeded, HasReadNothing
  <2>2. \A u \in Raters : ~Jobs!Weighs(work[r].users, u, c)
    BY <2>1 DEF Jobs!Weighs
  <2>3. v = "open"
    BY <1>3, <2>2 DEF Jobs!Aggregated
  <2> QED
    BY <1>5, <2>1, <2>3 DEF HasReadNothing
<1>9. outside' = outside /\ outside \in BOOLEAN /\ UNCHANGED <<stakes, reputation>>
  BY DEF Jobs!SaveScore, JobsStrong, JobsTyped
<1>10. c \in Topics /\ Jobs!SetVerdict(c, v) /\ w.job # "rating"
  BY <1>1, <1>2, <1>3, <1>5
<1> QED
  BY <1>5, <1>6, <1>7, <1>8, <1>9, <1>10, VerdictStep

LEMMA BeginRatingStep ==
  ASSUME JobsStrong, NEW r \in Calls, Jobs!BeginRating(r)
  PROVE  JobsStrong'
<1>0. PICK batch \in SUBSET Raters :
        /\ work' = [work EXCEPT ![r] = [Jobs!NotRun EXCEPT !.job = "rating", !.pc = "claims", !.users = reputation,
                                                           !.batch = batch, !.todo = batch, !.clean = TRUE]]
        /\ UNCHANGED <<stakes, verdict, reputation, outside, everTrue, uptodate>>
  BY DEF Jobs!BeginRating, Jobs!Batches
<1> DEFINE w == [Jobs!NotRun EXCEPT !.job = "rating", !.pc = "claims", !.users = reputation,
                                    !.batch = batch, !.todo = batch, !.clean = TRUE]
<1>1. reputation \in Ratings /\ uptodate \subseteq Raters
  BY DEF JobsStrong, JobsTyped
<1>2. w \in Runs /\ w.job = "rating" /\ w.pc = "claims" /\ w.users = reputation /\ w.todo = w.batch
  BY <1>1 DEF Jobs!NotRun, Runs
<1>3. work' = [work EXCEPT ![r] = w] /\ UNCHANGED <<stakes, verdict, reputation, outside, everTrue, uptodate>>
  BY <1>0
<1> HIDE DEF w
<1>4. HasRead(w) /\ Undisturbed(w)
  BY <1>1, <1>2 DEF HasRead, Undisturbed
<1>5. ~outside => HasReadNothing(w)
  BY <1>2 DEF HasReadNothing, JobsStrong, Seeded
<1> QED
  BY <1>1, <1>2, <1>3, <1>4, <1>5, RunStep

LEMMA ReadFinalizedStep ==
  ASSUME JobsStrong, NEW r \in Calls, Jobs!ReadFinalized(r)
  PROVE  JobsStrong'
<1> DEFINE w == [work[r] EXCEPT !.pc = "save", !.claims = verdict]
<1>1. /\ work[r] \in Runs /\ HasRead(work[r]) /\ Undisturbed(work[r]) /\ work[r].job = "rating" /\ work[r].pc = "claims"
      /\ verdict \in [Topics -> Verdicts] /\ uptodate \subseteq Raters
      /\ ~outside => HasReadNothing(work[r])
      /\ \A c \in Topics : verdict[c] = "true" => c \in everTrue
  BY DEF JobsStrong, JobsTyped, RunsKnow, Jobs!ReadFinalized, Seeded, TrueWasTrue
<1>2. /\ w \in Runs /\ w.job = "rating" /\ w.pc = "save" /\ w.users = work[r].users /\ w.todo = work[r].todo
      /\ w.batch = work[r].batch /\ w.claims = verdict /\ w.clean = work[r].clean
  BY <1>1 DEF Runs
<1>3. work' = [work EXCEPT ![r] = w] /\ UNCHANGED <<stakes, verdict, reputation, outside, everTrue, uptodate>>
  BY DEF Jobs!ReadFinalized, JobsStrong, JobsTyped
<1> HIDE DEF w
<1>4. HasRead(w) /\ Undisturbed(w)
  BY <1>1, <1>2 DEF HasRead, Undisturbed
<1>5. ~outside => HasReadNothing(w)
  BY <1>1, <1>2 DEF HasReadNothing
<1> QED
  BY <1>1, <1>2, <1>3, <1>4, <1>5, RunStep

LEMMA SaveRowFailsStep ==
  ASSUME JobsStrong, NEW r \in Calls, Jobs!SaveRowFails(r)
  PROVE  JobsStrong'
<1>1. PICK x \in work[r].todo : work' = [work EXCEPT ![r].todo = @ \ {x}, ![r].clean = FALSE]
  BY DEF Jobs!SaveRowFails
<1> DEFINE w == [work[r] EXCEPT !.todo = work[r].todo \ {x}, !.clean = FALSE]
<1>2. work[r] \in Runs /\ HasRead(work[r]) /\ work[r].pc = "save" /\ uptodate \subseteq Raters
  BY DEF JobsStrong, JobsTyped, RunsKnow, Jobs!SaveRowFails
<1>3. /\ w \in Runs /\ w.job = work[r].job /\ w.pc = "save" /\ w.users = work[r].users /\ w.todo \subseteq work[r].todo
      /\ w.batch = work[r].batch /\ w.claims = work[r].claims /\ ~w.clean
  BY <1>2 DEF Runs
<1>4. work' = [work EXCEPT ![r] = w] /\ UNCHANGED <<stakes, verdict, reputation, outside, everTrue, uptodate>>
  BY <1>1 DEF Jobs!SaveRowFails, JobsStrong, JobsTyped
<1> HIDE DEF w
<1>5. HasRead(w) /\ Undisturbed(w)
  BY <1>2, <1>3 DEF HasRead, Undisturbed
<1>6. ~outside => HasReadNothing(w)
  BY <1>2, <1>3 DEF HasReadNothing, JobsStrong, Seeded
<1>7. uptodate # {} /\ w.job = "rating" => w.claims = verdict
  BY <1>2, <1>3 DEF JobsStrong, UpToDate
<1> QED
  BY <1>2, <1>3, <1>4, <1>5, <1>6, <1>7, RunStep

\* The run that ends alone and undisturbed has rated whom it took by what is.
LEMMA EndRunStep ==
  ASSUME JobsStrong, NEW r \in Calls, Jobs!EndRun(r)
  PROVE  JobsStrong'
<1>1. /\ work' = [work EXCEPT ![r] = Jobs!Finished] /\ UNCHANGED <<stakes, verdict, reputation, outside, everTrue>>
      /\ work[r].pc = "save" /\ work[r].todo = {} /\ work[r] \in Runs /\ Undisturbed(work[r]) /\ uptodate \subseteq Raters
  BY DEF Jobs!EndRun, JobsStrong, JobsTyped, RunsKnow
<1>2. uptodate' \subseteq Raters
  BY <1>1 DEF Jobs!EndRun, Runs
<1>3. ASSUME uptodate' # uptodate, uptodate' # {}
      PROVE  /\ \A u \in uptodate' : Rated(u)
             /\ \A q \in Calls : q # r => ~(work[q].job = "rating" /\ work[q].pc = "save")
  <2>1. work[r].job = "rating" /\ work[r].clean /\ Jobs!Running("rating") = {r} /\ uptodate' = work[r].batch
    BY <1>3 DEF Jobs!EndRun
  <2>2. \A u \in uptodate' : Rated(u)
    BY <1>1, <2>1 DEF Undisturbed
  <2>3. \A q \in Calls : q # r => ~(work[q].job = "rating" /\ work[q].pc = "save")
    BY <2>1 DEF Jobs!Running
  <2> QED
    BY <2>2, <2>3
<1> QED
  BY <1>1, <1>2, <1>3, FinishStep

LEMMA LoseRunStep ==
  ASSUME JobsStrong, NEW r \in Calls, Jobs!LoseRun(r)
  PROVE  JobsStrong'
BY FinishStep DEF Jobs!LoseRun, JobsStrong, JobsTyped

\* One user is rated; ratings that others have under way are disturbed by it.
LEMMA SaveRatingStep ==
  ASSUME TopicsFinite, JobsStrong, NEW r \in Calls, Jobs!SaveRating(r)
  PROVE  JobsStrong'
<1> USE DEF JobsStrong
<1>1. /\ work[r] \in Runs /\ HasRead(work[r]) /\ Undisturbed(work[r]) /\ work[r].job = "rating" /\ work[r].pc = "save"
      /\ UNCHANGED <<stakes, verdict, outside, everTrue, uptodate>>
      /\ work[r].users \in Ratings /\ work[r].todo \subseteq work[r].batch /\ work[r].claims \in [Topics -> Verdicts]
  BY DEF JobsTyped, RunsKnow, Jobs!SaveRating, HasRead
<1> DEFINE Rates(x) == Jobs!VotedOn(work[r].claims, x) # {} /\ Jobs!Rating(work[r].claims, x) # work[r].users[x]
<1>2. PICK u \in work[r].todo :
        /\ reputation' = IF Rates(u) THEN [reputation EXCEPT ![u] = Jobs!Rating(work[r].claims, u)] ELSE reputation
        /\ work' = [q \in Calls |->
             IF q = r THEN [work[r] EXCEPT !.todo = work[r].todo \ {u}]
             ELSE [work[q] EXCEPT !.clean = work[q].clean /\ reputation' = reputation]]
  BY DEF Jobs!SaveRating
<1>3. u \in work[r].batch /\ u \in Raters /\ reputation \in Ratings
  BY <1>1 DEF JobsTyped, Runs
<1>4. PICK n : n = Jobs!Rating(work[r].claims, u)
  OBVIOUS
<1>5. Jobs!VotedOn(work[r].claims, u) # {} => n \in 0 .. 100 /\ (Jobs!Correct(work[r].claims, u) = {} => n = 0)
  BY <1>4, RatingIsEarned
<1>6. /\ reputation' \in Ratings
      /\ \A x \in Raters : reputation'[x] = IF x = u /\ Rates(u) THEN n ELSE reputation[x]
  <2>1. CASE Rates(u)
    BY <1>2, <1>3, <1>4, <1>5, <2>1 DEF Ratings
  <2>2. CASE ~Rates(u)
    BY <1>2, <1>3, <2>2 DEF Ratings
  <2> QED
    BY <2>1, <2>2
<1> DEFINE w == [work[r] EXCEPT !.todo = work[r].todo \ {u}]
<1>7. /\ w \in Runs /\ w.job = "rating" /\ w.pc = "save" /\ w.users = work[r].users /\ w.todo = work[r].todo \ {u}
      /\ w.batch = work[r].batch /\ w.claims = work[r].claims /\ w.clean = work[r].clean
      /\ work'[r] = w
  BY <1>1, <1>2 DEF Runs
<1> HIDE DEF w
<1>8. ASSUME NEW q \in Calls, q # r
      PROVE  /\ work'[q] \in Runs
             /\ work'[q].job = work[q].job /\ work'[q].pc = work[q].pc /\ work'[q].claims = work[q].claims
             /\ work'[q].users = work[q].users /\ work'[q].batch = work[q].batch /\ work'[q].todo = work[q].todo
             /\ work'[q].clean => work[q].clean /\ reputation' = reputation
  <2>1. work[q] \in Runs /\ (reputation' = reputation) \in BOOLEAN
    BY DEF JobsTyped
  <2>2. PICK b \in BOOLEAN : b = (work[q].clean /\ reputation' = reputation)
    BY <2>1 DEF Runs
  <2>3. work'[q] = [work[q] EXCEPT !.clean = b]
    BY <1>2, <1>8, <2>2
  <2> QED
    BY <2>1, <2>2, <2>3 DEF Runs
<1>9. JobsTyped'
  <2>1. work' \in [Calls -> Runs]
    BY <1>2, <1>7, <1>8
  <2> QED
    BY <1>1, <1>6, <2>1 DEF JobsTyped, Ratings, Runs
<1>10. ASSUME NEW q \in Calls PROVE HasRead(work[q])'
  <2>1. CASE q = r
    BY <1>1, <1>7, <2>1 DEF HasRead, Ratings
  <2>2. CASE q # r
    BY <1>1, <1>8, <2>2 DEF RunsKnow, HasRead, Ratings
  <2> QED
    BY <2>1, <2>2
<1>11. ASSUME NEW x \in Raters, x # u PROVE Rated(x)' <=> Rated(x)
  BY <1>1, <1>6, <1>11 DEF Rated, Jobs!VotedOn, Jobs!Rating, Jobs!Correct
<1>12. ASSUME work[r].claims = verdict, reputation[u] = work[r].users[u] \/ Rated(u) PROVE Rated(u)'
  <2>1. Jobs!VotedOn(verdict, u) # {} => reputation'[u] = Jobs!Rating(verdict, u)
    BY <1>3, <1>4, <1>6, <1>12 DEF Rated
  <2> QED
    BY <1>1, <2>1 DEF Rated, Jobs!VotedOn, Jobs!Rating, Jobs!Correct
<1>13. ASSUME NEW q \in Calls PROVE Undisturbed(work[q])'
  <2>1. CASE q = r
    <3> SUFFICES ASSUME w.clean
        PROVE  w.claims = verdict' /\ \A x \in w.batch : IF x \in w.todo THEN reputation'[x] = w.users[x] ELSE Rated(x)'
      BY <1>7, <2>1 DEF Undisturbed
    <3>1. /\ work[r].claims = verdict
          /\ \A x \in work[r].batch : IF x \in work[r].todo THEN reputation[x] = work[r].users[x] ELSE Rated(x)
      BY <1>1, <1>7 DEF Undisturbed
    <3>2. Rated(u)'
      BY <1>3, <1>12, <3>1
    <3>3. ASSUME NEW x \in w.batch PROVE IF x \in w.todo THEN reputation'[x] = w.users[x] ELSE Rated(x)'
      <4>1. CASE x = u
        BY <1>7, <3>2, <4>1
      <4>2. CASE x # u
        <5>1. x \in work[r].batch /\ x \in Raters
          BY <1>1, <1>7 DEF Runs
        <5> QED
          BY <1>6, <1>7, <1>11, <3>1, <4>2, <5>1
      <4> QED
        BY <4>1, <4>2
    <3> QED
      BY <1>1, <1>7, <3>1, <3>3
  <2>2. CASE q # r /\ ~work'[q].clean
    BY <2>2 DEF Undisturbed
  <2>3. CASE q # r /\ work'[q].clean
    <3>1. work[q].clean /\ reputation' = reputation /\ Undisturbed(work[q]) /\ work[q].batch \subseteq Raters
      BY <1>8, <2>3 DEF RunsKnow, JobsTyped, Runs
    <3>2. \A x \in Raters : Rated(x)' <=> Rated(x)
      BY <1>1, <3>1 DEF Rated, Jobs!VotedOn, Jobs!Rating, Jobs!Correct
    <3> QED
      BY <1>1, <1>8, <2>3, <3>1, <3>2 DEF Undisturbed
  <2> QED
    BY <2>1, <2>2, <2>3
<1>14. TrueWasTrue'
  BY <1>1 DEF TrueWasTrue
<1>15. \A c \in Jobs!Correct(work[r].claims, u) : c \in everTrue /\ stakes[<<u, c>>] # "none"
  BY <1>1 DEF HasRead, Jobs!Correct, Jobs!VotedOn
<1>16. Earned'
  <2> SUFFICES ASSUME NEW x \in Raters, reputation'[x] > 0 PROVE \E c \in everTrue : stakes[<<x, c>>] # "none"
    BY <1>1 DEF Earned
  <2>1. CASE x = u /\ Rates(u)
    <3>1. Jobs!Correct(work[r].claims, u) # {}
      BY <1>5, <1>6, <2>1
    <3> QED
      BY <1>15, <2>1, <3>1
  <2>2. CASE ~(x = u /\ Rates(u))
    BY <1>6, <2>2 DEF Earned
  <2> QED
    BY <2>1, <2>2
<1>17. Seeded'
  <2> SUFFICES ASSUME ~outside' PROVE everTrue' = {} /\ (\A x \in Raters : reputation'[x] = 0) /\ \A q \in Calls : HasReadNothing(work[q])'
    BY DEF Seeded
  <2>1. everTrue = {} /\ (\A x \in Raters : reputation[x] = 0) /\ \A q \in Calls : HasReadNothing(work[q])
    BY <1>1 DEF Seeded
  <2>2. Jobs!Correct(work[r].claims, u) = {}
    BY <1>15, <2>1
  <2>3. \A x \in Raters : reputation'[x] = 0
    BY <1>5, <1>6, <2>1, <2>2
  <2>4. ASSUME NEW q \in Calls PROVE HasReadNothing(work[q])'
    <3>1. CASE q = r
      BY <1>1, <1>7, <2>1, <3>1 DEF HasReadNothing, Ratings
    <3>2. CASE q # r
      BY <1>8, <2>1, <3>2 DEF HasReadNothing, Ratings
    <3> QED
      BY <3>1, <3>2
  <2> QED
    BY <1>1, <2>1, <2>3, <2>4
<1>18. UpToDate'
  <2> SUFFICES ASSUME uptodate' # {}
      PROVE /\ \A x \in uptodate' : Rated(x)'
            /\ \A q \in Calls : work'[q].job = "rating" /\ work'[q].pc = "save" => work'[q].claims = verdict'
    BY DEF UpToDate
  <2>1. /\ uptodate' = uptodate /\ \A x \in uptodate : x \in Raters /\ Rated(x)
        /\ \A q \in Calls : work[q].job = "rating" /\ work[q].pc = "save" => work[q].claims = verdict
    BY <1>1 DEF UpToDate, JobsTyped
  <2>2. \A x \in uptodate' : Rated(x)'
    BY <1>1, <1>3, <1>11, <1>12, <2>1
  <2>3. \A q \in Calls : work'[q].job = "rating" /\ work'[q].pc = "save" => work'[q].claims = verdict'
    BY <1>1, <1>7, <1>8, <2>1
  <2> QED
    BY <2>2, <2>3
<1> QED
  BY <1>9, <1>10, <1>13, <1>14, <1>16, <1>17, <1>18 DEF RunsKnow

LEMMA JobsStart ==
  ASSUME Jobs!JobsInit
  PROVE  JobsStrong
<1>1. /\ verdict = [c \in Topics |-> "open"] /\ reputation = [u \in Raters |-> 0]
      /\ work = [r \in Calls |-> Jobs!NotRun] /\ outside = FALSE /\ everTrue = {} /\ uptodate = {}
      /\ stakes \in [Raters \X Topics -> {"none", "withdrawn", "staked"}]
  BY DEF Jobs!JobsInit
<1>2. JobsTyped
  <2>1. reputation \in Ratings /\ verdict \in [Topics -> Verdicts]
    BY <1>1 DEF Verdicts, Ratings
  <2>2. work \in [Calls -> Runs]
    BY <1>1, FinishedIsARun
  <2> QED
    BY <1>1, <2>1, <2>2 DEF JobsTyped
<1>3. RunsKnow
  <2>1. ASSUME NEW r \in Calls PROVE HasRead(work[r]) /\ Undisturbed(work[r])
    <3>1. work[r].pc = "new" /\ work[r].job = "none"
      BY <1>1, FinishedIsARun
    <3> QED
      BY <3>1 DEF HasRead, Undisturbed
  <2> QED
    BY <2>1 DEF RunsKnow
<1>4. TrueWasTrue /\ Earned /\ UpToDate
  BY <1>1 DEF TrueWasTrue, Earned, UpToDate
<1>5. Seeded
  BY <1>1, FinishedIsARun DEF Seeded, HasReadNothing
<1> QED
  BY <1>2, <1>3, <1>4, <1>5 DEF JobsStrong

LEMMA JobsStep ==
  ASSUME TopicsFinite, JobsStrong, [Jobs!JobsNext]_jobsVars
  PROVE  JobsStrong'
<1>1. CASE UNCHANGED jobsVars
  <2>1. UNCHANGED <<stakes, verdict, reputation, work, outside, everTrue, uptodate>>
    BY <1>1 DEF jobsVars
  <2>2. JobsTyped'
    BY <2>1 DEF JobsStrong, JobsTyped, Ratings, Runs
  <2>3. \A u \in Raters : Rated(u)' <=> Rated(u)
    BY <2>1 DEF Rated, Jobs!VotedOn, Jobs!Rating, Jobs!Correct
  <2>4. ASSUME NEW r \in Calls PROVE HasRead(work[r])'
    BY <2>1 DEF JobsStrong, RunsKnow, HasRead, Ratings
  <2>5. ASSUME NEW r \in Calls PROVE Undisturbed(work[r])'
    <3>1. Undisturbed(work[r]) /\ work[r].batch \subseteq Raters
      BY DEF JobsStrong, RunsKnow, JobsTyped, Runs
    <3> QED
      BY <2>1, <2>3, <3>1 DEF Undisturbed
  <2>6. TrueWasTrue' /\ Earned'
    BY <2>1 DEF JobsStrong, TrueWasTrue, Earned
  <2>7. Seeded'
    BY <2>1 DEF JobsStrong, Seeded, HasReadNothing, Ratings
  <2>8. UpToDate'
    BY <2>1, <2>3 DEF JobsStrong, UpToDate, JobsTyped
  <2> QED
    BY <2>2, <2>4, <2>5, <2>6, <2>7, <2>8 DEF JobsStrong, RunsKnow
<1> QED
  BY <1>1, FinalizeOutsideStep, BeginScoresStep, ReadStakersStep, SaveScoreStep, BeginRatingStep, ReadFinalizedStep,
     SaveRatingStep, SaveRowFailsStep, EndRunStep, LoseRunStep DEF Jobs!JobsNext

\* However runs of JobsService overlap, are repeated or lost: nobody has a
\* reputation before somebody else than a job has finalized a claim, a
\* reputation was earned by a stake in a claim that turned out true, and a rating
\* that nothing disturbed rates everybody it took by what is, until a claim changes.
THEOREM JobsKeepInvariant ==
  ASSUME TopicsFinite
  PROVE  ServicesSpec => []RatingsEarned
<1>1. Jobs!JobsInit => JobsStrong
  BY JobsStart
<1>2. JobsStrong /\ [Jobs!JobsNext]_jobsVars => JobsStrong'
  BY JobsStep
<1>3. JobsStrong => RatingsEarned
  BY DEF JobsStrong, JobsTyped, Seeded, Earned, UpToDate, Rated, Ratings, Verdicts, RatingsEarned,
         Jobs!JobsInv, Jobs!JobsTypeOK, Jobs!NeedsASeed, Jobs!ReputationEarned, Jobs!RatedAsVoted
<1> QED
  BY <1>1, <1>2, <1>3, EachStarts, EachSteps, PTL DEF ServicesSpec

-----------------------------------------------------------------------------
(* RPC providers.                                                          *)

\* Providers are numbered in their order, and the limits are numbers.
RpcLimits ==
  /\ Providers \subseteq Nat \ {0} /\ Threshold \in Nat \ {0}
  /\ Reset \in Nat /\ Pause \in Nat /\ MaxRetries \in Nat /\ MaxTime \in Nat

Circuits == [open : BOOLEAN, failures : Nat, retryAt : Nat, limitedUntil : Nat]
RpcCalls == [pc : {"idle", "network", "attempt", "sleep", "done", "failed"},
             at : Providers \union {0}, attempt : 0 .. MaxRetries]

\* What the state s of a provider says at time t, after n failures in a row.
Fits(s, n, t) ==
  /\ s.failures <= n /\ s.limitedUntil <= t + Pause
  /\ s.open => n >= Threshold /\ s.retryAt <= t + Reset
  /\ n = 0 => s.limitedUntil = 0

\* A call that tries a provider has tried or passed over all before it.
Through(q, tried, passed) ==
  /\ tried \intersect passed = {}
  /\ q.pc = "idle" => q.at = 0 /\ tried = {} /\ passed = {}
  /\ q.pc \in {"network", "attempt", "sleep", "done"} =>
       q.at \in Providers /\ \A p \in Providers : p \in tried \union passed <=> p < q.at
  /\ q.pc = "sleep" => q.attempt < MaxRetries
  /\ q.pc = "failed" => q.at = 0 /\ tried \union passed = Providers

\* The inductive invariant.
RpcStrong ==
  /\ now \in 0 .. MaxTime /\ circuit \in [Providers -> Circuits] /\ streak \in [Providers -> Nat]
  /\ rpc \in [Calls -> RpcCalls]
  /\ failed \in [Calls -> SUBSET Providers] /\ skipped \in [Calls -> SUBSET Providers]
  /\ \A p \in Providers : Fits(circuit[p], streak[p], now)
  /\ \A c \in Calls : Through(rpc[c], failed[c], skipped[c])

\* A set of naturals that has a member has a smallest one, and Min finds it.
LEMMA SmallestProvider ==
  ASSUME NEW T \in SUBSET Nat, T # {}
  PROVE  Rpc!Min(T) \in T /\ \A y \in T : Rpc!Min(T) <= y
<1>1. PICK m \in T : \A y \in T : ~ (<<y, m>> \in OpToRel(<, Nat))
  BY NatLessThanWellFounded, WFMin
<1>2. ASSUME NEW y \in T PROVE m <= y
  <2>1. ~ (y < m)
    BY <1>1 DEF OpToRel
  <2> QED
    BY <2>1
<1> QED
  BY <1>2 DEF Rpc!Min

LEMMA ReachedFits ==
  ASSUME NEW s \in Circuits, NEW n \in Nat, NEW t \in Nat, Fits(s, n, t)
  PROVE  Rpc!Reached(s) \in Circuits /\ Fits(Rpc!Reached(s), n, t)
<1>1. CASE s.open /\ now >= s.retryAt
  <2>1. Rpc!Reached(s) = [s EXCEPT !.open = FALSE, !.failures = 0]
    BY <1>1 DEF Rpc!Reached
  <2>2. PICK q \in Circuits : q = [s EXCEPT !.open = FALSE, !.failures = 0]
    BY DEF Circuits
  <2>3. ~q.open /\ q.failures = 0 /\ q.retryAt = s.retryAt /\ q.limitedUntil = s.limitedUntil
    BY <2>2 DEF Circuits
  <2> QED
    BY <2>1, <2>2, <2>3 DEF Fits
<1> QED
  BY <1>1 DEF Rpc!Reached

LEMMA MarkFailureFits ==
  ASSUME RpcLimits, now \in Nat, NEW s \in Circuits, NEW n \in Nat, Fits(s, n, now), NEW limited \in BOOLEAN
  PROVE  Rpc!MarkFailure(s, limited) \in Circuits /\ Fits(Rpc!MarkFailure(s, limited), n + 1, now)
<1>1. /\ s.open \in BOOLEAN /\ s.failures \in Nat /\ s.retryAt \in Nat /\ s.limitedUntil \in Nat
      /\ Threshold \in Nat /\ Reset \in Nat /\ Pause \in Nat
  BY DEF Circuits, RpcLimits
<1> DEFINE q == Rpc!MarkFailure(s, limited)
<1>2. /\ q.open = (s.open \/ s.failures + 1 >= Threshold) /\ q.failures = s.failures + 1
      /\ q.retryAt = IF s.failures + 1 >= Threshold THEN now + Reset ELSE s.retryAt
      /\ q.limitedUntil = IF limited THEN now + Pause ELSE s.limitedUntil
  BY DEF Rpc!MarkFailure
<1>3. q \in Circuits
  BY <1>1 DEF Rpc!MarkFailure, Circuits
<1> HIDE DEF q
<1>4. Fits(q, n + 1, now)
  BY <1>1, <1>2 DEF Fits
<1> QED
  BY <1>3, <1>4 DEF q

\* The loop passes over providers up to one it can use, or over all.
LEMMA GoOnStops ==
  ASSUME RpcLimits, NEW c \in Calls, NEW i \in Nat, NEW s, Rpc!GoOn(c, i, s)
  PROVE  \E behind \in SUBSET Providers :
           /\ skipped' = [skipped EXCEPT ![c] = @ \union behind]
           /\ \/ /\ \A p \in Providers : p \in behind <=> p > i
                 /\ rpc' = [rpc EXCEPT ![c] = [pc |-> "failed", at |-> 0, attempt |-> 0]]
              \/ \E m \in Providers :
                   /\ m > i /\ \A p \in Providers : p \in behind <=> p > i /\ p < m
                   /\ rpc' = [rpc EXCEPT ![c] = [pc |-> "network", at |-> m, attempt |-> 0]]
<1> DEFINE ahead == {p \in Providers : p > i}
           next  == {p \in ahead : Rpc!Usable(s[p])}
<1>1. CASE next = {}
  <2>1. /\ skipped' = [skipped EXCEPT ![c] = @ \union ahead]
        /\ rpc' = [rpc EXCEPT ![c] = [pc |-> "failed", at |-> 0, attempt |-> 0]]
    BY <1>1 DEF Rpc!GoOn
  <2>2. ahead \in SUBSET Providers /\ \A p \in Providers : p \in ahead <=> p > i
    OBVIOUS
  <2> HIDE DEF ahead
  <2> QED
    BY <2>1, <2>2
<1>2. CASE next # {}
  <2>1. next \in SUBSET Nat
    BY DEF RpcLimits
  <2>2. Rpc!Min(next) \in next
    BY <1>2, <2>1, SmallestProvider
  <2>3. PICK m \in Providers : m = Rpc!Min(next) /\ m > i
    BY <2>2
  <2> DEFINE behind == {p \in ahead : p < m}
  <2>4. /\ skipped' = [skipped EXCEPT ![c] = @ \union behind]
        /\ rpc' = [rpc EXCEPT ![c] = [pc |-> "network", at |-> m, attempt |-> 0]]
    BY <1>2, <2>3 DEF Rpc!GoOn
  <2>5. behind \in SUBSET Providers /\ \A p \in Providers : p \in behind <=> p > i /\ p < m
    OBVIOUS
  <2> HIDE DEF behind
  <2> QED
    BY <2>3, <2>4, <2>5
<1> QED
  BY <1>1, <1>2

LEMMA GoOnCircuits ==
  ASSUME NEW c \in Calls, NEW i \in Nat, NEW s, Rpc!GoOn(c, i, s)
  PROVE  /\ circuit' = [p \in Providers |-> circuit'[p]]
         /\ \A p \in Providers : circuit'[p] = Rpc!Reached(s[p]) \/ circuit'[p] = s[p]
<1>1. PICK seen : circuit' = [p \in Providers |-> IF p \in seen THEN Rpc!Reached(s[p]) ELSE s[p]]
  BY DEF Rpc!GoOn
<1> QED
  BY <1>1

\* The loop goes on behind provider i with the providers in the states s.
LEMMA GoOnStep ==
  ASSUME RpcLimits, RpcStrong, NEW c \in Calls, NEW i \in Nat, NEW s \in [Providers -> Circuits], NEW tried \in SUBSET Providers,
         Rpc!GoOn(c, i, s), now' = now, streak' \in [Providers -> Nat],
         \A p \in Providers : Fits(s[p], streak'[p], now),
         failed' = [failed EXCEPT ![c] = tried], tried \intersect skipped[c] = {},
         \A p \in Providers : p \in tried \union skipped[c] <=> p <= i
  PROVE  RpcStrong'
<1> USE DEF RpcStrong
<1>1. PICK behind \in SUBSET Providers :
        /\ skipped' = [skipped EXCEPT ![c] = @ \union behind]
        /\ \/ /\ \A p \in Providers : p \in behind <=> p > i
              /\ rpc' = [rpc EXCEPT ![c] = [pc |-> "failed", at |-> 0, attempt |-> 0]]
           \/ \E m \in Providers :
                /\ m > i /\ \A p \in Providers : p \in behind <=> p > i /\ p < m
                /\ rpc' = [rpc EXCEPT ![c] = [pc |-> "network", at |-> m, attempt |-> 0]]
  BY GoOnStops
<1>2. /\ circuit' = [p \in Providers |-> circuit'[p]]
      /\ \A p \in Providers : circuit'[p] = Rpc!Reached(s[p]) \/ circuit'[p] = s[p]
  BY GoOnCircuits
<1>3. now \in Nat
  BY DEF RpcLimits
<1>4. \A p \in Providers : circuit'[p] \in Circuits /\ Fits(circuit'[p], streak'[p], now')
  BY <1>2, <1>3, ReachedFits
<1>5. circuit' \in [Providers -> Circuits]
  BY <1>2, <1>4
<1>6. /\ failed' \in [Calls -> SUBSET Providers] /\ skipped' \in [Calls -> SUBSET Providers]
      /\ \A d \in Calls : failed'[d] = IF d = c THEN tried ELSE failed[d]
      /\ \A d \in Calls : skipped'[d] = IF d = c THEN skipped[c] \union behind ELSE skipped[d]
  BY <1>1
<1>7. Providers \subseteq Nat \ {0} /\ tried \intersect (skipped[c] \union behind) = {}
  <2>1. \A p \in behind : p \in Nat /\ p > i
    BY <1>1 DEF RpcLimits
  <2>2. \A p \in tried : ~(p > i)
    BY DEF RpcLimits
  <2>3. tried \intersect behind = {}
    BY <2>1, <2>2
  <2> QED
    BY <2>3 DEF RpcLimits
<1>8. /\ rpc' \in [Calls -> RpcCalls] /\ \A d \in Calls : d # c => rpc'[d] = rpc[d]
      /\ Through(rpc'[c], tried, skipped[c] \union behind)
  <2>1. CASE (\A p \in Providers : p \in behind <=> p > i) /\ rpc' = [rpc EXCEPT ![c] = [pc |-> "failed", at |-> 0, attempt |-> 0]]
    <3> DEFINE q == [pc |-> "failed", at |-> 0, attempt |-> 0]
    <3>1. q \in RpcCalls /\ q.pc = "failed" /\ q.at = 0
      BY DEF RpcCalls, RpcLimits
    <3> HIDE DEF q
    <3>2. rpc' \in [Calls -> RpcCalls] /\ rpc'[c] = q /\ \A d \in Calls : d # c => rpc'[d] = rpc[d]
      BY <2>1, <3>1 DEF q
    <3>3. tried \union (skipped[c] \union behind) = Providers
      <4>1. \A p \in Providers : p <= i \/ p > i
        BY DEF RpcLimits
      <4>2. \A p \in Providers : p \in tried \union (skipped[c] \union behind)
        BY <2>1, <4>1
      <4>3. tried \union (skipped[c] \union behind) \subseteq Providers
        OBVIOUS
      <4> QED
        BY <4>2, <4>3
    <3> QED
      BY <1>7, <3>1, <3>2, <3>3 DEF Through
  <2>2. ASSUME NEW m \in Providers, m > i, \A p \in Providers : p \in behind <=> p > i /\ p < m,
               rpc' = [rpc EXCEPT ![c] = [pc |-> "network", at |-> m, attempt |-> 0]]
        PROVE  /\ rpc' \in [Calls -> RpcCalls] /\ \A d \in Calls : d # c => rpc'[d] = rpc[d]
               /\ Through(rpc'[c], tried, skipped[c] \union behind)
    <3> DEFINE q == [pc |-> "network", at |-> m, attempt |-> 0]
    <3>1. q \in RpcCalls /\ q.pc = "network" /\ q.at = m
      BY DEF RpcCalls, RpcLimits
    <3> HIDE DEF q
    <3>2. rpc' \in [Calls -> RpcCalls] /\ rpc'[c] = q /\ \A d \in Calls : d # c => rpc'[d] = rpc[d]
      BY <2>2, <3>1 DEF q
    <3>3. \A p \in Providers : p \in tried \union (skipped[c] \union behind) <=> p < m
      BY <2>2, <1>7
    <3> QED
      BY <1>7, <3>1, <3>2, <3>3 DEF Through
  <2> QED
    BY <1>1, <2>1, <2>2
<1>9. ASSUME NEW d \in Calls PROVE Through(rpc[d], failed[d], skipped[d])'
  <2>1. CASE d = c
    BY <1>6, <1>8, <2>1 DEF Through
  <2>2. CASE d # c
    BY <1>6, <1>8, <2>2 DEF Through
  <2> QED
    BY <2>1, <2>2
<1>10. \A p \in Providers : Fits(circuit[p], streak[p], now)'
  BY <1>4 DEF Fits
<1> QED
  BY <1>5, <1>6, <1>8, <1>9, <1>10 DEF Circuits, RpcCalls

LEMMA CallStep ==
  ASSUME RpcLimits, RpcStrong, NEW c \in Calls, Rpc!Call(c)
  PROVE  RpcStrong'
<1>1. /\ rpc[c].pc = "idle" /\ Rpc!GoOn(c, 0, circuit) /\ UNCHANGED <<now, failed, streak>>
      /\ failed[c] = {} /\ skipped[c] = {} /\ \A p \in Providers : p > 0
  BY DEF Rpc!Call, RpcStrong, Through, RpcLimits
<1>2. PICK tried \in SUBSET Providers : tried = {}
  OBVIOUS
<1>3. /\ failed' = [failed EXCEPT ![c] = tried] /\ tried \intersect skipped[c] = {}
      /\ \A p \in Providers : p \in tried \union skipped[c] <=> p <= 0
  BY <1>1, <1>2 DEF RpcLimits, RpcStrong
<1>4. streak' \in [Providers -> Nat] /\ \A p \in Providers : Fits(circuit[p], streak'[p], now)
  BY <1>1 DEF RpcStrong
<1> QED
  BY <1>1, <1>2, <1>3, <1>4, GoOnStep DEF RpcStrong

\* A provider fails in a call: one more failure in a row.
LEMMA FailsStep ==
  ASSUME RpcLimits, RpcStrong, NEW c \in Calls, NEW limited \in BOOLEAN, Rpc!Fails(c, limited),
         rpc[c].pc \in {"network", "attempt"}
  PROVE  RpcStrong'
<1>1. PICK i \in Providers : i = rpc[c].at
  BY DEF RpcStrong, Through
<1> DEFINE s == [circuit EXCEPT ![i] = Rpc!MarkFailure(circuit[i], limited)]
           tried == failed[c] \union {i}
<1>2. /\ Rpc!GoOn(c, i, s) /\ failed' = [failed EXCEPT ![c] = tried]
      /\ streak' = [streak EXCEPT ![i] = streak[i] + 1] /\ now' = now
  BY <1>1 DEF Rpc!Fails
<1>3. now \in Nat /\ i \in Nat /\ Providers \subseteq Nat \ {0}
  BY DEF RpcLimits, RpcStrong
<1>4. Rpc!MarkFailure(circuit[i], limited) \in Circuits /\ Fits(Rpc!MarkFailure(circuit[i], limited), streak[i] + 1, now)
  BY <1>3, MarkFailureFits DEF RpcStrong
<1>5. s \in [Providers -> Circuits] /\ streak' \in [Providers -> Nat]
  BY <1>2, <1>4 DEF RpcStrong
<1>6. \A p \in Providers : Fits(s[p], streak'[p], now)
  BY <1>2, <1>4 DEF RpcStrong
<1>7. /\ failed[c] \in SUBSET Providers /\ skipped[c] \in SUBSET Providers /\ failed[c] \intersect skipped[c] = {}
      /\ \A p \in Providers : p \in failed[c] \union skipped[c] <=> p < i
  BY <1>1 DEF RpcStrong, Through
<1>8. tried \in SUBSET Providers /\ tried \intersect skipped[c] = {}
  BY <1>3, <1>7
<1>9. \A p \in Providers : p \in tried \union skipped[c] <=> p <= i
  BY <1>3, <1>7
<1> HIDE DEF s, tried
<1> QED
  BY <1>2, <1>3, <1>5, <1>6, <1>8, <1>9, GoOnStep

\* A call goes on at the provider it is at.
LEMMA StaysStep ==
  ASSUME RpcStrong, NEW c \in Calls, NEW q \in RpcCalls, rpc' = [rpc EXCEPT ![c] = q],
         q.pc \in {"attempt", "sleep"}, q.pc = "sleep" => q.attempt < MaxRetries, q.at = rpc[c].at, rpc[c].pc \in {"network", "attempt", "sleep"},
         UNCHANGED <<now, circuit, failed, skipped, streak>>
  PROVE  RpcStrong'
<1>1. \A d \in Calls : rpc'[d] = IF d = c THEN q ELSE rpc[d]
  BY DEF RpcStrong
<1>2. ASSUME NEW d \in Calls PROVE Through(rpc[d], failed[d], skipped[d])'
  BY <1>1 DEF RpcStrong, Through
<1> QED
  BY <1>2 DEF RpcStrong, Fits, Circuits, RpcCalls

LEMMA NetworkStep ==
  ASSUME RpcLimits, RpcStrong, NEW c \in Calls, Rpc!Network(c)
  PROVE  RpcStrong'
<1>1. CASE rpc' = [rpc EXCEPT ![c].pc = "attempt"] /\ UNCHANGED <<now, circuit, failed, skipped, streak>>
  <2> DEFINE q == [rpc[c] EXCEPT !.pc = "attempt"]
  <2>1. q \in RpcCalls /\ q.pc = "attempt" /\ q.at = rpc[c].at /\ rpc' = [rpc EXCEPT ![c] = q]
    BY <1>1 DEF RpcStrong, RpcCalls
  <2> HIDE DEF q
  <2> QED
    BY <1>1, <2>1, StaysStep DEF Rpc!Network
<1> QED
  BY <1>1, FailsStep DEF Rpc!Network

LEMMA SleepStep ==
  ASSUME RpcStrong, NEW c \in Calls, Rpc!Sleep(c)
  PROVE  RpcStrong'
<1> DEFINE q == [rpc[c] EXCEPT !.pc = "sleep"]
<1>1. /\ q \in RpcCalls /\ q.pc = "sleep" /\ q.at = rpc[c].at /\ q.attempt < MaxRetries
      /\ rpc' = [rpc EXCEPT ![c] = q]
  BY DEF RpcStrong, RpcCalls, Rpc!Sleep
<1> HIDE DEF q
<1> QED
  BY <1>1, StaysStep DEF Rpc!Sleep

\* A sleeping call had a retry left.
LEMMA WakeStep ==
  ASSUME RpcLimits, RpcStrong, NEW c \in Calls, Rpc!Wake(c)
  PROVE  RpcStrong'
<1> DEFINE q == [rpc[c] EXCEPT !.pc = "attempt", !.attempt = rpc[c].attempt + 1]
<1>1. rpc[c] \in RpcCalls /\ rpc[c].attempt + 1 \in 0 .. MaxRetries
  BY DEF RpcStrong, RpcCalls, RpcLimits, Rpc!Wake, Through
<1>2. q \in RpcCalls /\ q.pc = "attempt" /\ q.at = rpc[c].at
  BY <1>1 DEF RpcCalls
<1>3. rpc' = [rpc EXCEPT ![c] = q]
  BY <1>1 DEF Rpc!Wake, RpcStrong
<1> HIDE DEF q
<1> QED
  BY <1>2, <1>3, StaysStep DEF Rpc!Wake

\* An answer clears the provider's state.
LEMMA AnswersStep ==
  ASSUME RpcLimits, RpcStrong, NEW c \in Calls, Rpc!Answers(c)
  PROVE  RpcStrong'
<1>1. PICK i \in Providers : i = rpc[c].at
  BY DEF RpcStrong, Through, Rpc!Answers
<1> DEFINE q == [rpc[c] EXCEPT !.pc = "done"]
<1>2. /\ circuit' = [circuit EXCEPT ![i] = Rpc!Closed] /\ streak' = [streak EXCEPT ![i] = 0]
      /\ rpc' = [rpc EXCEPT ![c] = q] /\ UNCHANGED <<now, failed, skipped>> /\ rpc[c].pc = "attempt"
  BY <1>1 DEF Rpc!Answers, Rpc!MarkSuccess
<1>3. q \in RpcCalls /\ q.pc = "done" /\ q.at = rpc[c].at
  BY DEF RpcStrong, RpcCalls
<1> HIDE DEF q
<1>4. Rpc!Closed \in Circuits /\ Fits(Rpc!Closed, 0, now)
  BY DEF Rpc!Closed, Circuits, Fits, RpcStrong, RpcLimits
<1>5. circuit' \in [Providers -> Circuits] /\ streak' \in [Providers -> Nat] /\ rpc' \in [Calls -> RpcCalls]
  BY <1>2, <1>3, <1>4 DEF RpcStrong
<1>6. ASSUME NEW p \in Providers PROVE Fits(circuit[p], streak[p], now)'
  BY <1>2, <1>4 DEF RpcStrong, Fits
<1>7. ASSUME NEW d \in Calls PROVE Through(rpc[d], failed[d], skipped[d])'
  BY <1>2, <1>3 DEF RpcStrong, Through
<1> QED
  BY <1>2, <1>5, <1>6, <1>7 DEF RpcStrong, Circuits, RpcCalls

LEMMA TickStep ==
  ASSUME RpcLimits, RpcStrong, Rpc!Tick
  PROVE  RpcStrong'
<1>1. now' \in 0 .. MaxTime /\ now' = now + 1 /\ UNCHANGED <<circuit, rpc, failed, skipped, streak>>
  BY DEF Rpc!Tick, RpcStrong, RpcLimits
<1>2. ASSUME NEW p \in Providers PROVE Fits(circuit[p], streak[p], now)'
  BY <1>1 DEF RpcStrong, RpcLimits, Fits, Circuits
<1>3. ASSUME NEW d \in Calls PROVE Through(rpc[d], failed[d], skipped[d])'
  BY <1>1 DEF RpcStrong, Through
<1> QED
  BY <1>1, <1>2, <1>3 DEF RpcStrong, Circuits, RpcCalls

LEMMA RpcStarts ==
  ASSUME RpcLimits, Rpc!RpcInit
  PROVE  RpcStrong
<1>1. Rpc!Closed \in Circuits /\ Fits(Rpc!Closed, 0, 0)
  BY DEF Rpc!Closed, Circuits, Fits, RpcLimits
<1>2. ASSUME NEW c \in Calls PROVE rpc[c] \in RpcCalls /\ Through(rpc[c], failed[c], skipped[c])
  BY DEF Rpc!RpcInit, RpcCalls, Through, RpcLimits
<1>3. circuit \in [Providers -> Circuits] /\ streak \in [Providers -> Nat] /\ now = 0
  BY <1>1 DEF Rpc!RpcInit
<1>4. rpc \in [Calls -> RpcCalls] /\ failed \in [Calls -> SUBSET Providers] /\ skipped \in [Calls -> SUBSET Providers]
  BY <1>2 DEF Rpc!RpcInit
<1>5. \A p \in Providers : Fits(circuit[p], streak[p], now)
  BY <1>1 DEF Rpc!RpcInit
<1> QED
  BY <1>2, <1>3, <1>4, <1>5 DEF RpcStrong, RpcLimits

LEMMA RpcMoves ==
  ASSUME RpcLimits, RpcStrong, [Rpc!RpcNext]_rpcVars
  PROVE  RpcStrong'
<1>1. CASE UNCHANGED rpcVars
  BY <1>1 DEF rpcVars, RpcStrong, Fits, Through, Circuits, RpcCalls
<1>2. ASSUME NEW c \in Calls, Rpc!GiveUp(c) PROVE RpcStrong'
  BY <1>2, FailsStep DEF Rpc!GiveUp
<1> QED
  BY <1>1, <1>2, TickStep, CallStep, NetworkStep, AnswersStep, SleepStep, WakeStep DEF Rpc!RpcNext, Rpc!RpcStep

\* However calls of RpcProviderManager overlap and however old the outcomes are
\* that they record: a circuit is open after enough failures without an answer
\* between them, a provider that answered last is passed over by nobody, and a
\* call throws only after it tried or passed over all.
THEOREM RpcKeepsInvariant ==
  ASSUME RpcLimits
  PROVE  ServicesSpec => []GivesUpLast
<1>1. Rpc!RpcInit => RpcStrong
  BY RpcStarts
<1>2. RpcStrong /\ [Rpc!RpcNext]_rpcVars => RpcStrong'
  BY RpcMoves
<1>3. ASSUME RpcStrong PROVE Rpc!RpcInv
  <2>1. Rpc!RpcTypeOK /\ Rpc!OpenAfterStreak
    BY <1>3 DEF RpcStrong, Fits, Circuits, RpcCalls, Rpc!RpcTypeOK, Rpc!OpenAfterStreak
  <2>2. Rpc!AnsweringIsUsable
    <3> SUFFICES ASSUME NEW p \in Providers, streak[p] = 0 PROVE Rpc!Usable(circuit[p])
      BY DEF Rpc!AnsweringIsUsable
    <3>1. ~circuit[p].open /\ circuit[p].limitedUntil = 0 /\ now \in Nat
      BY <1>3 DEF RpcStrong, Fits, Circuits, RpcLimits
    <3> QED
      BY <3>1 DEF Rpc!Usable, Rpc!Reached
  <2>3. Rpc!ThrowsAfterAll
    <3> SUFFICES ASSUME NEW c \in Calls
                 PROVE  /\ rpc[c].pc = "failed" => failed[c] \union skipped[c] = Providers
                        /\ rpc[c].at \notin skipped[c] \union failed[c]
                        /\ failed[c] \intersect skipped[c] = {}
      BY DEF Rpc!ThrowsAfterAll
    <3>1. rpc[c] \in RpcCalls /\ Through(rpc[c], failed[c], skipped[c])
          /\ failed[c] \subseteq Providers /\ skipped[c] \subseteq Providers
      BY <1>3 DEF RpcStrong
    <3>2. rpc[c].at \notin skipped[c] \union failed[c]
      <4>1. CASE rpc[c].pc \in {"idle", "failed"}
        BY <3>1, <4>1 DEF Through, RpcLimits
      <4>2. CASE rpc[c].pc \in {"network", "attempt", "sleep", "done"}
        <5>1. PICK i \in Providers : i = rpc[c].at
          BY <3>1, <4>2 DEF Through
        <5>2. i \in failed[c] \union skipped[c] <=> i < i
          BY <3>1, <4>2, <5>1 DEF Through
        <5>3. i \in Nat
          BY <5>1 DEF RpcLimits
        <5>4. ~(i < i)
          BY <5>3
        <5> QED
          BY <5>1, <5>2, <5>4
      <4> QED
        BY <3>1, <4>1, <4>2 DEF RpcCalls
    <3> QED
      BY <3>1, <3>2 DEF Through
  <2> QED
    BY <2>1, <2>2, <2>3 DEF Rpc!RpcInv
<1>4. RpcStrong => GivesUpLast
  BY <1>3 DEF GivesUpLast
<1> QED
  BY <1>1, <1>2, <1>4, EachStarts, EachSteps, PTL DEF ServicesSpec

=============================================================================
