--------------------------- MODULE ClaimLifecycle ---------------------------
(***************************************************************************)
(* One claim: its row, its copies in Redis, and the calls that read and    *)
(* change them: ClaimsService (create, resolve, finalize and the three     *)
(* reads), ClaimResolutionService.resolveClaim ("settle") and the hourly   *)
(* JobsService.computeScores ("score"), over the state machine of          *)
(* claim.entity.ts and the cache of claims.cache.ts.                       *)
(*                                                                         *)
(* A call is a sequence of awaits, and calls interleave at each of them.   *)
(* TypeORM's save is two of them: it reads the row, then updates the       *)
(* columns in which the entity differs from what it read.                  *)
(***************************************************************************)
EXTENDS Naturals, FiniteSets

CONSTANTS Calls,       \* the calls made, each at most once
          Null,        \* SQL null, and a Redis key that is not set
          NoClaim,     \* the row before the claim is created
          Kinds,       \* what the calls of this instance may be
          Keys,        \* the cache keys that are read: claim, latest, user
          MaxWriters,  \* how many calls that change the row overlap
          MayFail,     \* whether calls may break off and Redis may be down
          StartsCreated \* whether the claim exists at the start

Writers == {"create", "resolve", "finalize", "settle", "score"}
AllKeys == {"claim", "latest", "user"}

ASSUME ClaimAssumption ==
  /\ Kinds \subseteq Writers \union {"read"} /\ Keys \subseteq AllKeys
  /\ MaxWriters \in Nat /\ {MayFail, StartsCreated} \subseteq BOOLEAN

VARIABLES row,    \* the claim's row, or NoClaim
          cache,  \* what Redis holds under each key: a copy of the row, or Null
          call,   \* each call: [kind, key, pc, entity, changes]
          behind  \* the keys whose copy is not the row for a reason named below

vars == <<row, cache, call, behind>>

Verdicts == {"true", "false"}
Fields   == {"verdict", "confidence", "finalized", "resolvedAt"}
Row      == [verdict : Verdicts \union {Null}, confidence : {"none", "some", Null},
             finalized : BOOLEAN, resolvedAt : Calls \union {Null}]
Fresh    == [verdict |-> Null, confidence |-> Null, finalized |-> FALSE, resolvedAt |-> Null]
Idle     == [kind |-> Null, key |-> Null, pc |-> "idle", entity |-> Null, changes |-> {}]

\* Null is a value of no other kind, and the row before its creation is no row.
ASSUME NullAssumption ==
  /\ Null \notin Calls \union Verdicts \union {"none", "some"} \union Writers \union {"read"}
  /\ {Null, NoClaim} \intersect Row = {} /\ Null # NoClaim

-----------------------------------------------------------------------------
(* The entity: getCurrentState and transitionTo.                           *)

CurrentState(e) ==
  IF e.finalized THEN "FINALIZED"
  ELSE IF e.verdict # Null /\ e.confidence # Null THEN "RESOLVED" ELSE "PENDING"

\* Fault: the time of the resolution is written at every transition.
FaultStamp(e, c) == [e EXCEPT !.resolvedAt = c]

\* resolvedAt is set exactly once, by the transition that leaves PENDING.
Stamp(e, c) == [e EXCEPT !.resolvedAt = IF @ = Null THEN c ELSE @]

Decide(e, verdict) == [e EXCEPT !.verdict = verdict, !.confidence = "some"]

\* transitionTo(RESOLVED, {verdict, confidence}); {} stands for its throws.
ToResolved(e, c, verdict) ==
  CASE CurrentState(e) = "FINALIZED" -> {}
    [] CurrentState(e) = "PENDING"   -> {Stamp(Decide(e, verdict), c)}
    [] OTHER                         -> {Decide(e, verdict)}

\* transitionTo(FINALIZED, {verdict, confidence})
ToFinalizedAs(e, c, verdict) ==
  {[d EXCEPT !.finalized = TRUE] : d \in ToResolved(e, c, verdict)}

\* transitionTo(FINALIZED) without data: only from RESOLVED.
ToFinalized(e) == IF CurrentState(e) = "RESOLVED" THEN {[e EXCEPT !.finalized = TRUE]} ELSE {}

\* ClaimResolutionService: votes enough for a verdict, or an inconclusive end.
Settled(e, c) ==
  (UNION {ToFinalizedAs(e, c, v) : v \in Verdicts})
    \union {Stamp([e EXCEPT !.verdict = Null, !.confidence = Null, !.finalized = TRUE], c)}

\* computeScores: no stakes, a confidence below the threshold, or a verdict.
Scored(e, c) ==
  {[e EXCEPT !.confidence = "none"], [e EXCEPT !.confidence = "some"]}
    \union UNION {ToFinalizedAs([e EXCEPT !.confidence = "some"], c, v) : v \in Verdicts}

\* The entities a call may save, having loaded e.
Outcomes(kind, e, c) ==
  CASE kind = "resolve"  -> UNION {ToResolved(e, c, v) : v \in Verdicts}
    [] kind = "finalize" -> ToFinalized(e)
    [] kind = "settle"   -> Settled(e, c)
    [] kind = "score"    -> Scored(e, c)

-----------------------------------------------------------------------------
(* The calls.                                                              *)

Init ==
  /\ row = IF StartsCreated THEN Fresh ELSE NoClaim
  /\ cache = [k \in AllKeys |-> Null] /\ behind = {}
  /\ call = [c \in Calls |-> Idle]

Running(kinds) == {c \in Calls : call[c].kind \in kinds /\ call[c].pc \notin {"idle", "done", "failed"}}

Goto(c, pc) == call' = [call EXCEPT ![c].pc = pc]

\* Fault: the lists that show the claim are forgotten.
FaultInvalidated(kind) == IF kind = "create" THEN {"latest"} ELSE {"claim"}

\* The keys deleted: invalidateClaim is never given a wallet, create deletes
\* the list of the latest claims only.
Invalidated(kind) == IF kind = "create" THEN {"latest"} ELSE {"claim", "latest"}

\* A call, at q, has changed the row and is still to delete key k.
Deletes(q, k) ==
  /\ k \in Invalidated(q.kind)
  /\ q.pc = "invalidate" \/ (q.kind = "create" /\ q.pc = "fill")

\* The copies under keys may be left behind: those that are not the row are.
Behind(keys) == behind' = {k \in behind \union keys : cache'[k] \notin {Null, row'}}

\* The reads of findOne start at the cache, the others at the database.
FirstStep(kind) ==
  CASE kind \in {"read", "resolve", "finalize"} -> "get"
    [] kind = "create" -> "insert"
    [] OTHER           -> "load"

Call(c) ==
  /\ call[c] = Idle
  /\ \E kind \in Kinds, key \in Keys :
       /\ kind # "read" => key = "claim"
       /\ kind \in Writers => Cardinality(Running(Writers)) < MaxWriters
       /\ call' = [call EXCEPT ![c] =
            [Idle EXCEPT !.kind = kind, !.key = key, !.pc = FirstStep(kind)]]
  /\ UNCHANGED <<row, cache, behind>>

\* getClaim, getLatestClaims, getUserClaims.  A hit answers a read; it gives
\* resolve and finalize a parsed object without transitionTo: a TypeError.
\* A Redis that is down answers like a miss.
ReadCache(c) ==
  /\ call[c].pc = "get"
  /\ \/ /\ cache[call[c].key] # Null
        /\ Goto(c, IF call[c].kind = "read" THEN "done" ELSE "failed")
     \/ /\ cache[call[c].key] = Null \/ MayFail
        /\ Goto(c, "load")
  /\ UNCHANGED <<row, cache, behind>>

\* Fault: a finalized claim is taken for one that may still change.
FaultMayLoad(kind, r) == TRUE

\* Who works on the row read: settle refuses a finalized claim, score does not
\* find one; the claim of the other calls only has to exist.
MayLoad(kind, r) == kind \in {"settle", "score"} => ~r.finalized

\* findOneBy, find
LoadRow(c) ==
  /\ call[c].pc = "load"
  /\ IF row = NoClaim \/ (call[c].kind # "read" /\ ~MayLoad(call[c].kind, row))
     THEN IF call[c].key = "claim" THEN Goto(c, "failed")
          ELSE call' = [call EXCEPT ![c].entity = row, ![c].pc = "fill"]
     ELSE call' = [call EXCEPT ![c].entity = row,
                     ![c].pc = IF call[c].kind \in {"settle", "score"} THEN "save" ELSE "fill"]
  /\ UNCHANGED <<row, cache, behind>>

\* setClaim, setLatestClaims, setUserClaims of what was read or created, which
\* may not be the row any more.
FillCache(c) ==
  /\ call[c].pc = "fill"
  /\ UNCHANGED row
  /\ \/ cache' = [cache EXCEPT ![call[c].key] = call[c].entity] /\ Behind({call[c].key})
     \/ MayFail /\ UNCHANGED <<cache, behind>>
  /\ Goto(c, CASE call[c].kind = "read"   -> "done"
               [] call[c].kind = "create" -> "invalidate"
               [] OTHER                   -> "save")

\* createClaim: the insert.
InsertRow(c) ==
  /\ call[c].pc = "insert"
  /\ row = NoClaim
  /\ row' = Fresh
  /\ call' = [call EXCEPT ![c].entity = Fresh, ![c].pc = "fill"]
  /\ UNCHANGED cache /\ Behind({"user"})

\* The transition, and the read of the row with which save begins.
BeginSave(c) ==
  /\ call[c].pc = "save"
  /\ LET outcomes == Outcomes(call[c].kind, call[c].entity, c)
     IN IF outcomes = {} THEN Goto(c, "failed")
        ELSE \E e \in outcomes :
               call' = [call EXCEPT ![c].entity = e, ![c].pc = "update",
                          ![c].changes = {f \in Fields : e[f] # row[f]}]
  /\ UNCHANGED <<row, cache, behind>>

\* The UPDATE of save.  The score of a claim without stakes is the one save
\* that no invalidation follows.
UpdateRow(c) ==
  /\ call[c].pc = "update"
  /\ row' = [f \in Fields |-> IF f \in call[c].changes THEN call[c].entity[f] ELSE row[f]]
  /\ UNCHANGED cache
  /\ IF call[c].kind = "score" /\ call[c].entity.confidence = "none"
     THEN Goto(c, "done") /\ Behind(AllKeys)
     ELSE Goto(c, "invalidate") /\ Behind({"user"})

Invalidate(c) ==
  /\ call[c].pc = "invalidate"
  /\ UNCHANGED row
  /\ \E lost \in IF MayFail THEN SUBSET Invalidated(call[c].kind) ELSE {{}} :
       /\ cache' = [k \in AllKeys |-> IF k \in Invalidated(call[c].kind) \ lost THEN Null ELSE cache[k]]
       /\ Behind(lost)
  /\ Goto(c, "done")

\* The call breaks off: a database error, or the loss of the process.
Fail(c) ==
  /\ MayFail /\ c \in Running(Kinds)
  /\ Goto(c, "failed")
  /\ UNCHANGED <<row, cache>> /\ Behind({k \in AllKeys : Deletes(call[c], k)})

\* The time to live of a key runs out.
Expire(k) ==
  /\ cache[k] # Null
  /\ cache' = [cache EXCEPT ![k] = Null]
  /\ UNCHANGED <<row, call>> /\ Behind({})

Next ==
  \/ \E c \in Calls :
       \/ Call(c) \/ ReadCache(c) \/ LoadRow(c) \/ FillCache(c) \/ InsertRow(c)
       \/ BeginSave(c) \/ UpdateRow(c) \/ Invalidate(c) \/ Fail(c)
  \/ \E k \in AllKeys : Expire(k)

Spec == Init /\ [][Next]_vars

-----------------------------------------------------------------------------
(* The properties.                                                         *)

\* The row, its copies and the calls are well typed.
TypeOK ==
  /\ row \in Row \union {NoClaim}
  /\ \A k \in AllKeys : cache[k] \in Row \union {NoClaim, Null}
  /\ behind \subseteq AllKeys
  /\ \A c \in Calls :
       /\ call[c].pc \in {"idle", "get", "load", "fill", "insert", "save", "update",
                          "invalidate", "done", "failed"}
       /\ call[c].entity \in Row \union {NoClaim, Null}
       /\ call[c].changes \subseteq Fields

State(r) == IF r = NoClaim THEN "NONE" ELSE CurrentState(r)

\* "Finalized claims are immutable": no call changes the row of a finalized
\* claim, nor un-finalizes it.
FinalizedIsImmutable == [][State(row) = "FINALIZED" => row' = row]_row

\* "Claims cannot be unresolved", and "Set resolvedAt exactly once": neither the
\* resolution nor its time is ever taken back.
NeverUnresolved ==
  [][/\ State(row) = "RESOLVED" => State(row') # "PENDING"
     /\ row # NoClaim /\ row.resolvedAt # Null => row'.resolvedAt = row.resolvedAt]_row

\* A claim that is resolved or finalized has the time of its resolution, and
\* one that is neither has none.
ResolvedHasTime ==
  row # NoClaim => (row.resolvedAt # Null <=> CurrentState(row) # "PENDING")

\* A copy in Redis never runs ahead of the row or past its end: one that says
\* "finalized" is the row itself.
CachedFinalIsFinal ==
  \A k \in AllKeys : cache[k] \in Row /\ cache[k].finalized => cache[k] = row

\* A copy in Redis is the row, or about to be deleted, or behind: it was filled
\* with what had been read before an update, its deletion was lost or its call
\* broke off before, the score of a claim without stakes was saved, or it is in a
\* user's list.  Nothing else lets a reader see an old claim.
CopiesCurrent ==
  \A k \in AllKeys \ behind : cache[k] \in {Null, row} \/ \E c \in Calls : Deletes(call[c], k)

\* What every state of the row and its copies keeps.
Inv == TypeOK /\ ResolvedHasTime /\ CachedFinalIsFinal /\ CopiesCurrent

=============================================================================
