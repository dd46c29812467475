---------------------------- MODULE AdminRecords ----------------------------
(***************************************************************************)
(* IncidentService and ModerationService (src/src/admin): requests that    *)
(* load a row, change the entity and save it, with no lock between.        *)
(*                                                                         *)
(* TypeORM's save reads the row again and updates the columns in which the *)
(* entity differs from it, also those that another request has changed     *)
(* since the entity was loaded.                                            *)
(***************************************************************************)
EXTENDS FiniteSets

CONSTANTS Calls, \* requests, and the authors of what they write
          None   \* no resolution, report or assignee

VARIABLES
  sort,     \* whether the row is an "incident" or a "report"
  record,   \* the row: [status, ended, assigned, notes, settled, review]
  ticket,   \* each request: [kind, pc, base, copy, columns, stale], base being the row as last read
  kept,     \* history: what the requests asked for that were saved:
            \* [ended, assigned, notes, settled, review]
  left,     \* history: <<status, kind>> where a request of the kind moved the row from the status
  overlaid  \* history: whether a request saved an entity loaded before the row changed, or
            \* a column that had changed since save compared it

recordVars == <<sort, record, ticket, kept, left, overlaid>>

Fresh(status) ==
  [status |-> status, ended |-> FALSE, assigned |-> None, notes |-> {}, settled |-> None, review |-> None]
NothingKept == [ended |-> FALSE, assigned |-> None, notes |-> {}, settled |-> None, review |-> None]
NoTicket  == [kind |-> "none", pc |-> "new", base |-> Fresh("open"), copy |-> Fresh("open"), columns |-> {},
              stale |-> FALSE]
Submitted == [NoTicket EXCEPT !.pc = "done"]

\* create, createReport.
RecordsInit ==
  /\ \/ sort = "incident" /\ record = Fresh("open")
     \/ sort = "report" /\ record = Fresh("pending")
  /\ ticket = [r \in Calls |-> NoTicket]
  /\ kept = NothingKept /\ left = {} /\ overlaid = FALSE

-----------------------------------------------------------------------------
(* What a request makes of the entity it loaded.                           *)

\* Fault: the time of resolution is set by the request to resolve only.
FaultUpdateIncident(x) ==
  IF x.status = "closed" THEN {}
  ELSE {[x EXCEPT !.status = s] : s \in {"open", "investigating", "contained", "resolved", "closed"}}

\* update: to any status; it is refused for a closed incident.
UpdateIncident(x) ==
  IF x.status = "closed" THEN {}
  ELSE {[x EXCEPT !.status = s, !.ended = x.ended \/ s = "resolved"] :
          s \in {"open", "investigating", "contained", "resolved", "closed"}}

AssignIncident(x, r) == {[x EXCEPT !.assigned = r, !.status = IF @ = "open" THEN "investigating" ELSE @]}
AddNote(x, r) == {[x EXCEPT !.notes = @ \union {r}]}
ResolveIncident(x, r) == {[x EXCEPT !.status = "resolved", !.settled = r, !.ended = TRUE]}
AddPostIncidentReport(x, r) == {[x EXCEPT !.review = r]}

UpdateReport(x) ==
  {[x EXCEPT !.status = s, !.ended = x.ended \/ s \in {"resolved", "dismissed"}] :
     s \in {"pending", "under_review", "resolved", "dismissed"}}
AssignReport(x, r) == {[x EXCEPT !.assigned = r, !.status = IF @ = "pending" THEN "under_review" ELSE @]}
ResolveReport(x, r) == {[x EXCEPT !.status = "resolved", !.settled = r, !.ended = TRUE]}

Changed(kind, r, x) ==
  CASE sort = "incident" /\ kind = "update"  -> UpdateIncident(x)
    [] sort = "incident" /\ kind = "assign"  -> AssignIncident(x, r)
    [] sort = "incident" /\ kind = "note"    -> AddNote(x, r)
    [] sort = "incident" /\ kind = "resolve" -> ResolveIncident(x, r)
    [] sort = "incident" /\ kind = "review"  -> AddPostIncidentReport(x, r)
    [] sort = "report" /\ kind = "update"    -> UpdateReport(x)
    [] sort = "report" /\ kind = "assign"    -> AssignReport(x, r)
    [] sort = "report" /\ kind = "resolve"   -> ResolveReport(x, r)
    [] OTHER -> {}

-----------------------------------------------------------------------------
(* The steps.                                                              *)

\* What has been saved once a request is saved too that asked for that status.
WithAsked(was, r, kind, status) ==
  [ended    |-> was.ended \/ kind = "resolve" \/ (kind = "update" /\ status \in {"resolved", "dismissed"}),
   assigned |-> IF kind = "assign" THEN r ELSE was.assigned,
   notes    |-> IF kind = "note" THEN was.notes \union {r} ELSE was.notes,
   settled  |-> IF kind = "resolve" THEN r ELSE was.settled,
   review   |-> IF kind = "review" THEN r ELSE was.review]

Differing(x, y) == {f \in DOMAIN x : x[f] # y[f]}

\* findById, and the change.
LoadRecord(r, kind) ==
  /\ ticket[r] = NoTicket
  /\ \/ /\ Changed(kind, r, record) = {}
        /\ ticket' = [ticket EXCEPT ![r] = Submitted]
     \/ \E x \in Changed(kind, r, record) :
          ticket' = [ticket EXCEPT ![r] =
            [NoTicket EXCEPT !.kind = kind, !.pc = "loaded", !.base = record, !.copy = x]]
  /\ UNCHANGED <<sort, record, kept, left, overlaid>>

\* save reads the row,
CompareRecord(r) ==
  /\ ticket[r].pc = "loaded"
  /\ ticket' = [ticket EXCEPT ![r].pc = "compared", ![r].base = record, ![r].stale = (@ \/ ticket[r].base # record),
                  ![r].columns = Differing(ticket[r].copy, record)]
  /\ UNCHANGED <<sort, record, kept, left, overlaid>>

\* and updates it.  The audit row that follows may be lost without a trace.
SaveRecord(r) ==
  /\ ticket[r].pc = "compared"
  /\ record' = [f \in DOMAIN record |-> IF f \in ticket[r].columns THEN ticket[r].copy[f] ELSE record[f]]
  /\ kept' = WithAsked(kept, r, ticket[r].kind, ticket[r].copy.status)
  /\ left' = IF record'.status # record.status THEN left \union {<<record.status, ticket[r].kind>>} ELSE left
  /\ overlaid' = (overlaid \/ ticket[r].stale \/ Differing(ticket[r].base, record) \intersect ticket[r].columns # {})
  /\ ticket' = [ticket EXCEPT ![r] = Submitted]
  /\ UNCHANGED sort

\* A statement fails: nothing was written.
SaveFails(r) ==
  /\ ticket[r].pc \in {"loaded", "compared"}
  /\ ticket' = [ticket EXCEPT ![r] = Submitted]
  /\ UNCHANGED <<sort, record, kept, left, overlaid>>

RecordsNext == \E r \in Calls :
  \/ \E kind \in {"update", "assign", "note", "resolve", "review"} : LoadRecord(r, kind)
  \/ CompareRecord(r) \/ SaveRecord(r) \/ SaveFails(r)

-----------------------------------------------------------------------------
(* The properties.                                                         *)

\* The row is well formed.
RecordsTypeOK ==
  /\ sort \in {"incident", "report"} /\ record.notes \subseteq Calls
  /\ {record.assigned, record.settled, record.review} \subseteq Calls \union {None}

\* Unless a request overlaid another: the row has every note that was saved, the
\* last resolution, assignee and post-incident report that was, and the time of
\* resolution exactly when a request that was saved set one, which every row has
\* that is resolved or dismissed.
KeptUnlessOverlaid == ~overlaid =>
  /\ \A f \in DOMAIN kept : record[f] = kept[f]
  /\ record.status \in {"resolved", "dismissed"} => record.ended

\* The statuses that end the work, and the requests that may move a row from them:
\* resolve asks for no status, nor does the update of a report.
MayLeave == {<<"closed", "resolve">>, <<"resolved", "update">>, <<"dismissed", "update">>, <<"dismissed", "resolve">>}

\* Unless a request overlaid another, a row leaves such a status in these ways
\* only: no assignment, note or report takes it back, nor an update that had
\* loaded an incident before it was closed.
ClosedUnlessOverlaid ==
  ~overlaid => \A w \in left : w[1] \in {"closed", "resolved", "dismissed"} => w \in MayLeave

\* What every state of an incident or a report keeps.
RecordsInv == RecordsTypeOK /\ KeptUnlessOverlaid /\ ClosedUnlessOverlaid
=============================================================================
