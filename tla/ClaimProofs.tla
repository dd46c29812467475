---------------------------- MODULE ClaimProofs ----------------------------
(***************************************************************************)
(* Proofs about ClaimLifecycle, for any number of calls and readers,       *)
(* failures and a cache that loses what it is told: about the row as long  *)
(* as the calls that change it do not overlap, about its copies in Redis   *)
(* however they overlap.                                                   *)
(***************************************************************************)
EXTENDS ClaimLifecycle, FiniteSetTheorems, TLAPS

Stages == {"idle", "get", "load", "fill", "insert", "save", "update", "invalidate", "done", "failed"}

Requests == [kind : Writers \union {"read", Null}, key : AllKeys \union {Null}, pc : Stages,
             entity : Row \union {NoClaim, Null}, changes : SUBSET Fields]

\* A request under way that changes the row.
Writing(q) == q.kind \in Writers /\ q.pc \notin {"idle", "done", "failed"}

\* The time of the resolution belongs to it, and a verdict has a confidence.
Timed(r) ==
  /\ r.resolvedAt # Null <=> CurrentState(r) # "PENDING"
  /\ r.verdict # Null => r.confidence # Null

\* What the request q of c, one that changes the row, has read is the row.
Holds(c, q) ==
  /\ q.key = "claim"
  /\ q.pc = "insert" => q.kind = "create"
  /\ q.kind = "create" => q.pc \notin {"save", "update"}
  /\ q.pc \in {"fill", "save"} =>
       /\ row \in Row /\ q.entity = row
       /\ q.kind \in {"settle", "score"} => ~row.finalized
  /\ q.pc = "update" =>
       /\ row \in Row /\ ~row.finalized
       /\ q.entity \in Outcomes(q.kind, row, c)
       /\ q.changes = {f \in Fields : q.entity[f] # row[f]}

\* A request fills the cache with no final claim but the row, and a read
\* changes nothing.
Reads(q) ==
  /\ q.pc = "fill" /\ q.entity \in Row /\ q.entity.finalized => q.entity = row
  /\ q.kind = "read" => q.pc \notin {"insert", "save", "update", "invalidate"}
  /\ q.pc # "idle" => q.kind # Null

\* The inductive invariant.
OneWriter ==
  /\ row \in Row \union {NoClaim} /\ cache \in [AllKeys -> Row \union {NoClaim, Null}]
  /\ call \in [Calls -> Requests]
  /\ row # NoClaim => Timed(row)
  /\ CachedFinalIsFinal
  /\ \A c \in Calls : Reads(call[c]) /\ (Writing(call[c]) => Holds(c, call[c]))
  /\ \A c, d \in Calls : Writing(call[c]) /\ Writing(call[d]) => c = d

-----------------------------------------------------------------------------
(* The state machine of the entity.                                        *)

\* What a claim becomes when it is given a verdict.
LEMMA ResolvedBy ==
  ASSUME NEW r \in Row, ~r.finalized, Timed(r), NEW c \in Calls, NEW v \in Verdicts,
         NEW x \in ToResolved(r, c, v)
  PROVE  /\ x \in Row /\ x.verdict = v /\ x.confidence = "some" /\ ~x.finalized
         /\ x.resolvedAt # Null
         /\ r.resolvedAt # Null => x.resolvedAt = r.resolvedAt
<1> USE NullAssumption
<1> DEFINE d == [r EXCEPT !.verdict = v, !.confidence = "some"]
<1>1. /\ d \in Row /\ d.verdict = v /\ d.confidence = "some" /\ ~d.finalized
      /\ d.resolvedAt = r.resolvedAt
  BY DEF Row, Verdicts
<1>2. d = Decide(r, v)
  BY DEF Decide
<1> HIDE DEF d
<1>3. CASE CurrentState(r) = "PENDING"
  <2>1. x = [d EXCEPT !.resolvedAt = IF @ = Null THEN c ELSE @]
    BY <1>2, <1>3 DEF ToResolved, Stamp
  <2> QED
    BY <1>1, <2>1, <1>3 DEF Row, Timed
<1>4. CASE CurrentState(r) # "PENDING"
  <2>1. CurrentState(r) = "RESOLVED"
    BY <1>4 DEF CurrentState
  <2>2. x = d
    BY <1>2, <2>1 DEF ToResolved
  <2> QED
    BY <1>1, <2>2, <1>4 DEF Timed
<1> QED
  BY <1>3, <1>4

\* A claim with a verdict and a confidence is not pending.
LEMMA DecidedState ==
  ASSUME NEW x \in Row, x.verdict \in Verdicts, x.confidence = "some", x.resolvedAt # Null
  PROVE  Timed(x) /\ CurrentState(x) # "PENDING"
BY NullAssumption DEF Timed, CurrentState, Row, Verdicts

\* Finalizing a claim with a verdict, which the transition gives it first.
LEMMA FinalizedBy ==
  ASSUME NEW r \in Row, ~r.finalized, Timed(r), NEW c \in Calls, NEW v \in Verdicts,
         NEW e \in ToFinalizedAs(r, c, v)
  PROVE  /\ e \in Row /\ Timed(e) /\ CurrentState(e) # "PENDING"
         /\ r.resolvedAt # Null => e.resolvedAt = r.resolvedAt
<1>1. PICK x \in ToResolved(r, c, v) : e = [x EXCEPT !.finalized = TRUE]
  BY DEF ToFinalizedAs
<1>2. /\ x \in Row /\ x.verdict = v /\ x.confidence = "some" /\ ~x.finalized
      /\ x.resolvedAt # Null
      /\ r.resolvedAt # Null => x.resolvedAt = r.resolvedAt
  BY ResolvedBy
<1>3. /\ e \in Row /\ e.verdict = v /\ e.confidence = "some"
      /\ e.resolvedAt = x.resolvedAt
  BY <1>1, <1>2 DEF Row
<1> QED
  BY <1>2, <1>3, DecidedState

\* A settlement has a verdict or none.
LEMMA SettledAs ==
  ASSUME NEW r, NEW c, NEW e \in Settled(r, c)
  PROVE  \/ \E v \in Verdicts : e \in ToFinalizedAs(r, c, v)
         \/ e = Stamp([r EXCEPT !.verdict = Null, !.confidence = Null, !.finalized = TRUE], c)
BY DEF Settled

\* A claim that may still change becomes one whose resolution has its time,
\* and keeps the time and the resolution it has.
LEMMA OutcomesKeep ==
  ASSUME NEW r \in Row, ~r.finalized, Timed(r), NEW c \in Calls,
         NEW kind \in Writers \ {"create"}, NEW e \in Outcomes(kind, r, c)
  PROVE  /\ e \in Row /\ Timed(e)
         /\ r.resolvedAt # Null => e.resolvedAt = r.resolvedAt
         /\ CurrentState(r) = "RESOLVED" => CurrentState(e) # "PENDING"
<1> USE NullAssumption
<1>1. CASE kind = "resolve"
  <2>1. PICK v \in Verdicts : e \in ToResolved(r, c, v)
    BY <1>1 DEF Outcomes
  <2>2. /\ e \in Row /\ e.verdict = v /\ e.confidence = "some" /\ ~e.finalized
        /\ e.resolvedAt # Null
        /\ r.resolvedAt # Null => e.resolvedAt = r.resolvedAt
    BY <2>1, ResolvedBy
  <2> QED
    BY <2>2, DecidedState
<1>2. CASE kind = "finalize"
  BY <1>2 DEF Outcomes, ToFinalized, CurrentState, Timed, Row, Writers
<1>3. CASE kind = "settle"
  <2>1. e \in Settled(r, c)
    BY <1>3 DEF Outcomes
  <2>2. CASE \E v \in Verdicts : e \in ToFinalizedAs(r, c, v)
    BY <2>2, FinalizedBy
  <2>3. CASE ~ \E v \in Verdicts : e \in ToFinalizedAs(r, c, v)
    <3>1. e = Stamp([r EXCEPT !.verdict = Null, !.confidence = Null, !.finalized = TRUE], c)
      BY <2>1, <2>3, SettledAs
    <3>2. DEFINE d == [r EXCEPT !.verdict = Null, !.confidence = Null, !.finalized = TRUE]
    <3>3. d \in Row /\ d.verdict = Null /\ d.finalized /\ d.resolvedAt = r.resolvedAt
      BY DEF Row
    <3>4. e = [d EXCEPT !.resolvedAt = IF @ = Null THEN c ELSE @]
      BY <3>1 DEF Stamp
    <3> HIDE DEF d
    <3>5. /\ e \in Row /\ e.verdict = Null /\ e.finalized /\ e.resolvedAt # Null
          /\ r.resolvedAt # Null => e.resolvedAt = r.resolvedAt
      BY <3>3, <3>4 DEF Row
    <3> QED
      BY <3>5 DEF Timed, CurrentState
  <2> QED
    BY <2>2, <2>3
<1>4. CASE kind = "score"
  <2>1. e \in Scored(r, c)
    BY <1>4 DEF Outcomes
  <2>2. ASSUME NEW w \in {"none", "some"}
        PROVE  LET q == [r EXCEPT !.confidence = w]
               IN  /\ q \in Row /\ ~q.finalized /\ Timed(q) /\ q.resolvedAt = r.resolvedAt
                   /\ CurrentState(q) = CurrentState(r)
    BY DEF Row, Timed, CurrentState
  <2>3. CASE \E w \in {"none", "some"} : e = [r EXCEPT !.confidence = w]
    BY <2>2, <2>3
  <2>4. CASE \E v \in Verdicts : e \in ToFinalizedAs([r EXCEPT !.confidence = "some"], c, v)
    BY <2>2, <2>4, FinalizedBy
  <2> QED
    BY <2>1, <2>3, <2>4 DEF Scored
<1> QED
  BY <1>1, <1>2, <1>3, <1>4 DEF Writers

\* resolve and finalize throw on a finalized claim.
LEMMA FinalHasNoOutcome ==
  ASSUME NEW r \in Row, r.finalized, NEW c \in Calls, NEW kind \in {"resolve", "finalize"}
  PROVE  Outcomes(kind, r, c) = {}
BY DEF Outcomes, ToResolved, ToFinalized, CurrentState

-----------------------------------------------------------------------------
(* The steps.                                                              *)

\* A step of c that leaves it the request q, and leaves alone the row or
\* changes one that is not final.
LEMMA RequestStep ==
  ASSUME OneWriter, NEW c \in Calls, NEW q \in Requests, call' = [call EXCEPT ![c] = q],
         row' \in Row \union {NoClaim}, cache' \in [AllKeys -> Row \union {NoClaim, Null}],
         row' # NoClaim => Timed(row'), CachedFinalIsFinal',
         row' = row \/ (Writing(call[c]) /\ ~(row \in Row /\ row.finalized)),
         Reads(q)',
         Writing(q) => Writing(call[c]) \/ \A d \in Calls : ~Writing(call[d]),
         Writing(q) => Holds(c, q)'
  PROVE  OneWriter'
<1>1. call' \in [Calls -> Requests] /\ call'[c] = q /\ \A d \in Calls \ {c} : call'[d] = call[d]
  BY DEF OneWriter
<1>2. \A d \in Calls : Reads(call[d])'
  BY <1>1 DEF OneWriter, Reads
<1>3. \A d, f \in Calls : Writing(call'[d]) /\ Writing(call'[f]) => d = f
  BY <1>1 DEF OneWriter
<1>4. ASSUME NEW d \in Calls, Writing(call'[d])
      PROVE  Holds(d, call[d])'
  <2>1. CASE d = c
    BY <1>1, <1>4, <2>1
  <2>2. CASE d # c
    <3>1. ~Writing(call[c]) /\ row' = row /\ Writing(call[d]) /\ call'[d] = call[d]
      BY <1>1, <1>4, <2>2 DEF OneWriter
    <3> QED
      BY <3>1 DEF OneWriter, Holds
  <2> QED
    BY <2>1, <2>2
<1> QED
  BY <1>1, <1>2, <1>3, <1>4 DEF OneWriter, Writing

\* While no two may, a call that changes the row starts when none is under way.
LEMMA OneAtATime ==
  ASSUME MaxWriters = 1, IsFiniteSet(Calls), Cardinality(Running(Writers)) < MaxWriters
  PROVE  \A d \in Calls : ~Writing(call[d])
<1>1. IsFiniteSet(Running(Writers))
  BY FS_Subset DEF Running
<1>2. Cardinality(Running(Writers)) = 0
  BY <1>1, FS_CardinalityType
<1>3. Running(Writers) = {}
  BY <1>1, <1>2, FS_EmptySet
<1> QED
  BY <1>3 DEF Running, Writing

LEMMA CallStep ==
  ASSUME MaxWriters = 1, IsFiniteSet(Calls), OneWriter, NEW c \in Calls, Call(c)
  PROVE  OneWriter'
<1> USE NullAssumption
<1>1. PICK kind \in Kinds, key \in Keys :
        /\ kind # "read" => key = "claim"
        /\ kind \in Writers => Cardinality(Running(Writers)) < MaxWriters
        /\ call' = [call EXCEPT ![c] =
             [Idle EXCEPT !.kind = kind, !.key = key, !.pc = FirstStep(kind)]]
  BY DEF Call
<1> DEFINE q == [Idle EXCEPT !.kind = kind, !.key = key, !.pc = FirstStep(kind)]
<1>2. Idle \in Requests
  BY DEF Idle, Requests, Stages
<1>3. kind \in Writers \union {"read"} /\ key \in AllKeys
  BY ClaimAssumption
<1>4. FirstStep(kind) \in {"get", "insert", "load"} /\ (FirstStep(kind) = "insert" => kind = "create")
  BY <1>3 DEF FirstStep, Writers
<1>5. q \in Requests /\ q.kind = kind /\ q.key = key /\ q.pc = FirstStep(kind)
  BY <1>2, <1>3, <1>4 DEF Requests, Stages
<1>6. call' = [call EXCEPT ![c] = q]
  BY <1>1
<1>7. UNCHANGED <<row, cache>>
  BY DEF Call
<1> HIDE DEF q
<1>9. Writing(q) => kind \in Writers /\ \A d \in Calls : ~Writing(call[d])
  BY <1>1, <1>5, OneAtATime DEF Writing
<1>10. Writing(q) => Holds(c, q)'
  BY <1>1, <1>4, <1>5, <1>9 DEF Holds, Writers
<1>11. Reads(q)'
  BY <1>3, <1>4, <1>5 DEF Reads, Writers
<1>12. /\ row' \in Row \union {NoClaim} /\ cache' \in [AllKeys -> Row \union {NoClaim, Null}]
       /\ row' # NoClaim => Timed(row')
       /\ CachedFinalIsFinal'
  BY <1>7 DEF OneWriter, CachedFinalIsFinal
<1> QED
  BY <1>5, <1>6, <1>7, <1>9, <1>10, <1>11, <1>12, RequestStep

\* Goto changes the stage of a request and nothing else of it.
LEMMA Moved ==
  ASSUME call \in [Calls -> Requests], NEW c \in Calls, NEW pc \in Stages, Goto(c, pc)
  PROVE  \E q \in Requests :
           /\ call' = [call EXCEPT ![c] = q]
           /\ q.kind = call[c].kind /\ q.key = call[c].key /\ q.pc = pc
           /\ q.entity = call[c].entity /\ q.changes = call[c].changes
<1> DEFINE q == [call[c] EXCEPT !.pc = pc]
<1>1. /\ q \in Requests /\ q.kind = call[c].kind /\ q.key = call[c].key /\ q.pc = pc
      /\ q.entity = call[c].entity /\ q.changes = call[c].changes
  BY DEF Requests
<1>2. call' = [call EXCEPT ![c] = q]
  BY DEF Goto
<1> HIDE DEF q
<1> QED
  BY <1>1, <1>2

\* Where a request is after a step that leaves the row and the cache alone.
LEMMA QuietStep ==
  ASSUME OneWriter, UNCHANGED <<row, cache>>, NEW c \in Calls, NEW q \in Requests,
         call' = [call EXCEPT ![c] = q], q.kind = call[c].kind,
         Reads(q),
         Writing(q) => Writing(call[c]) /\ Holds(c, q)
  PROVE  OneWriter'
<1>1. /\ row' \in Row \union {NoClaim} /\ cache' \in [AllKeys -> Row \union {NoClaim, Null}]
      /\ row' # NoClaim => Timed(row')
      /\ CachedFinalIsFinal'
  BY DEF OneWriter, CachedFinalIsFinal
<1>2. (Writing(q) => Holds(c, q)') /\ Reads(q)'
  BY DEF Holds, Reads
<1> QED
  BY <1>1, <1>2, RequestStep

LEMMA ReadCacheStep ==
  ASSUME OneWriter, NEW c \in Calls, ReadCache(c)
  PROVE  OneWriter'
<1>1. call[c] \in Requests /\ call[c].pc = "get"
  BY DEF OneWriter, ReadCache
<1>2. PICK pc \in {"done", "failed", "load"} : Goto(c, pc)
  BY DEF ReadCache
<1> DEFINE q == [call[c] EXCEPT !.pc = pc]
<1>3. /\ q \in Requests /\ q.kind = call[c].kind /\ q.key = call[c].key /\ q.pc = pc
  BY <1>1 DEF Requests, Stages
<1>4. call' = [call EXCEPT ![c] = q]
  BY <1>2 DEF Goto
<1>5. UNCHANGED <<row, cache>>
  BY DEF ReadCache
<1> HIDE DEF q
<1>6. Writing(q) => Writing(call[c]) /\ Holds(c, q)
  BY <1>1, <1>3 DEF OneWriter, Writing, Holds
<1>7. Reads(q)
  BY <1>1, <1>2, <1>3 DEF OneWriter, Reads
<1> QED
  BY <1>3, <1>4, <1>5, <1>6, <1>7, QuietStep

LEMMA LoadRowStep ==
  ASSUME OneWriter, NEW c \in Calls, LoadRow(c)
  PROVE  OneWriter'
<1>1. call[c] \in Requests /\ call[c].pc = "load"
  BY DEF OneWriter, LoadRow
<1>2. /\ UNCHANGED <<row, cache>> /\ row \in Row \union {NoClaim}
      /\ Writing(call[c]) => call[c].key = "claim"
  BY DEF OneWriter, LoadRow, Holds
<1>3. CASE Goto(c, "failed")
  <2> DEFINE q == [call[c] EXCEPT !.pc = "failed"]
  <2>1. /\ q \in Requests /\ q.kind = call[c].kind /\ q.pc = "failed"
    BY <1>1 DEF Requests, Stages
  <2>2. call' = [call EXCEPT ![c] = q]
    BY <1>3 DEF Goto
  <2> HIDE DEF q
  <2>3. Reads(q)
    BY <1>1, <2>1 DEF OneWriter, Reads
  <2> QED
    BY <1>2, <2>1, <2>2, <2>3, QuietStep DEF Writing
<1>4. CASE ~Goto(c, "failed")
  <2>1. PICK pc \in {"fill", "save"} :
          /\ call' = [call EXCEPT ![c].entity = row, ![c].pc = pc]
          /\ Writing(call[c]) => row \in Row
          /\ Writing(call[c]) /\ call[c].kind \in {"settle", "score"} => ~row.finalized
          /\ pc = "save" => call[c].kind \in {"settle", "score"}
    <3>1. CASE row = NoClaim \/ (call[c].kind # "read" /\ ~MayLoad(call[c].kind, row))
      <4>1. call[c].key # "claim" /\ call' = [call EXCEPT ![c].entity = row, ![c].pc = "fill"]
        BY <1>4, <3>1 DEF LoadRow
      <4> QED
        BY <1>2, <4>1
    <3>2. CASE ~(row = NoClaim \/ (call[c].kind # "read" /\ ~MayLoad(call[c].kind, row)))
      <4>1. call' = [call EXCEPT ![c].entity = row,
                       ![c].pc = IF call[c].kind \in {"settle", "score"} THEN "save" ELSE "fill"]
        BY <3>2 DEF LoadRow
      <4>2. row \in Row /\ (call[c].kind \in {"settle", "score"} => ~row.finalized)
        BY <1>2, <3>2 DEF MayLoad
      <4> QED
        BY <4>1, <4>2
    <3> QED
      BY <3>1, <3>2
  <2> DEFINE q == [call[c] EXCEPT !.entity = row, !.pc = pc]
  <2>2. /\ q \in Requests /\ q.kind = call[c].kind /\ q.key = call[c].key /\ q.pc = pc
        /\ q.entity = row
    BY <1>1, <1>2 DEF Requests, Stages
  <2>3. call' = [call EXCEPT ![c] = q]
    BY <2>1
  <2> HIDE DEF q
  <2>4. Writing(q) => Writing(call[c])
    BY <1>1, <2>2 DEF Writing
  <2>5. Writing(q) => Holds(c, q)
    BY <1>2, <2>1, <2>2, <2>4 DEF Holds
  <2>6. Reads(q)
    BY <1>1, <2>1, <2>2 DEF OneWriter, Reads
  <2> QED
    BY <1>2, <2>2, <2>3, <2>4, <2>5, <2>6, QuietStep
<1> QED
  BY <1>3, <1>4

LEMMA FillCacheStep ==
  ASSUME OneWriter, NEW c \in Calls, FillCache(c)
  PROVE  OneWriter'
<1>1. call[c] \in Requests /\ call[c].pc = "fill" /\ Reads(call[c])
  BY DEF OneWriter, FillCache
<1>2. PICK pc \in {"done", "invalidate", "save"} :
        /\ Goto(c, pc)
        /\ call[c].kind = "read" => pc = "done"
        /\ call[c].kind = "create" => pc = "invalidate"
  BY DEF FillCache
<1>3. PICK q \in Requests :
        /\ call' = [call EXCEPT ![c] = q]
        /\ q.kind = call[c].kind /\ q.key = call[c].key /\ q.pc = pc
        /\ q.entity = call[c].entity
  BY <1>2, Moved DEF OneWriter, Stages
<1>5. row' = row /\ (cache' = cache \/ cache' = [cache EXCEPT ![call[c].key] = call[c].entity])
  BY DEF FillCache
<1>6. Writing(q) => Writing(call[c])
  BY <1>1, <1>3 DEF Writing
<1>7. Writing(q) => Holds(c, q)
  BY <1>1, <1>2, <1>3, <1>6 DEF OneWriter, Holds
<1>8. Writing(q) => Holds(c, q)'
  BY <1>5, <1>7 DEF Holds
<1>9. /\ row' \in Row \union {NoClaim} /\ cache' \in [AllKeys -> Row \union {NoClaim, Null}]
      /\ row' # NoClaim => Timed(row')
  BY <1>1, <1>5 DEF OneWriter, Requests
<1>10. CachedFinalIsFinal'
  BY <1>1, <1>5 DEF OneWriter, CachedFinalIsFinal, Reads
<1>11. Reads(q)'
  BY <1>1, <1>2, <1>3 DEF Reads
<1> QED
  BY <1>3, <1>5, <1>6, <1>8, <1>9, <1>10, <1>11, RequestStep

LEMMA InsertRowStep ==
  ASSUME OneWriter, NEW c \in Calls, InsertRow(c)
  PROVE  OneWriter'
<1> USE NullAssumption
<1>1. call[c] \in Requests /\ call[c].pc = "insert" /\ row = NoClaim /\ row' = Fresh /\ cache' = cache
  BY DEF OneWriter, InsertRow
<1>2. Fresh \in Row /\ ~Fresh.finalized /\ Timed(Fresh)
  BY DEF Fresh, Row, Timed, CurrentState
<1>3. PICK q \in Requests :
        /\ call' = [call EXCEPT ![c] = q]
        /\ q.kind = call[c].kind /\ q.key = call[c].key /\ q.pc = "fill"
        /\ q.entity = Fresh
  <2> DEFINE p == [call[c] EXCEPT !.entity = Fresh, !.pc = "fill"]
  <2>1. /\ p \in Requests /\ p.kind = call[c].kind /\ p.key = call[c].key /\ p.pc = "fill"
        /\ p.entity = Fresh
    BY <1>1, <1>2 DEF Requests, Stages
  <2>2. call' = [call EXCEPT ![c] = p]
    BY DEF InsertRow
  <2> HIDE DEF p
  <2> QED
    BY <2>1, <2>2
<1>4. /\ call[c].kind \in Writers \ {"read"}
  BY <1>1 DEF OneWriter, Requests, Reads
<1>5. Writing(call[c])
  BY <1>1, <1>4 DEF Writing
<1>6. Holds(c, q)'
  BY <1>1, <1>2, <1>3, <1>5 DEF OneWriter, Holds
<1>7. /\ row' \in Row \union {NoClaim} /\ cache' \in [AllKeys -> Row \union {NoClaim, Null}]
      /\ row' # NoClaim => Timed(row')
      /\ CachedFinalIsFinal' /\ ~(row \in Row /\ row.finalized)
  BY <1>1, <1>2 DEF OneWriter, CachedFinalIsFinal
<1>8. Reads(q)'
  BY <1>1, <1>3, <1>4 DEF Reads, Writers
<1> QED
  BY <1>3, <1>5, <1>6, <1>7, <1>8, RequestStep

\* What a call is about to save or to write.
LEMMA Saving ==
  ASSUME OneWriter, NEW c \in Calls, call[c].pc \in {"save", "update"}
  PROVE  /\ Writing(call[c]) /\ Holds(c, call[c]) /\ call[c].kind \in Writers \ {"create"}
         /\ call[c] \in Requests /\ row \in Row /\ Timed(row)
<1>1. call[c] \in Requests /\ call[c].kind \in Writers
  BY DEF OneWriter, Reads, Requests
<1>2. Writing(call[c]) /\ Holds(c, call[c])
  BY <1>1 DEF OneWriter, Writing
<1>3. call[c].kind # "create" /\ row \in Row /\ Timed(row)
  BY <1>2, NullAssumption DEF OneWriter, Holds
<1> QED
  BY <1>1, <1>2, <1>3

LEMMA BeginSaveStep ==
  ASSUME OneWriter, NEW c \in Calls, BeginSave(c)
  PROVE  OneWriter'
<1>1. call[c].pc = "save" /\ UNCHANGED <<row, cache>>
  BY DEF BeginSave
<1>2. /\ Writing(call[c]) /\ Holds(c, call[c]) /\ call[c].kind \in Writers \ {"create"}
      /\ call[c] \in Requests /\ row \in Row /\ Timed(row)
  BY <1>1, Saving
<1>3. /\ call[c].key = "claim" /\ call[c].entity = row
      /\ call[c].kind \in {"settle", "score"} => ~row.finalized
  BY <1>1, <1>2 DEF Holds
<1>4. CASE Goto(c, "failed")
  <2>1. PICK q \in Requests :
          call' = [call EXCEPT ![c] = q] /\ q.kind = call[c].kind /\ q.pc = "failed"
    BY <1>4, Moved DEF OneWriter, Stages
  <2>2. Reads(q) /\ ~Writing(q)
    BY <1>2, <2>1, NullAssumption DEF Reads, Writing, Writers
  <2> QED
    BY <1>1, <2>1, <2>2, QuietStep
<1>5. CASE ~Goto(c, "failed")
  <2>1. PICK e \in Outcomes(call[c].kind, row, c) :
          call' = [call EXCEPT ![c].entity = e, ![c].pc = "update",
                     ![c].changes = {f \in Fields : e[f] # row[f]}]
    BY <1>3, <1>5 DEF BeginSave
  <2>2. ~row.finalized
    BY <1>2, <1>3, <2>1, FinalHasNoOutcome DEF Writers
  <2>3. e \in Row
    BY <1>2, <2>1, <2>2, OutcomesKeep
  <2> DEFINE q == [call[c] EXCEPT !.entity = e, !.pc = "update",
                     !.changes = {f \in Fields : e[f] # row[f]}]
  <2>4. /\ q \in Requests /\ q.kind = call[c].kind /\ q.key = call[c].key /\ q.pc = "update"
        /\ q.entity = e /\ q.changes = {f \in Fields : e[f] # row[f]}
    BY <1>2, <2>3 DEF Requests, Stages
  <2>5. call' = [call EXCEPT ![c] = q]
    BY <2>1
  <2> HIDE DEF q
  <2>6. Reads(q)
    BY <1>2, <2>4, NullAssumption DEF Reads, Writers
  <2>7. Holds(c, q)
    BY <1>2, <1>3, <2>1, <2>2, <2>4 DEF Holds
  <2> QED
    BY <1>1, <1>2, <2>4, <2>5, <2>6, <2>7, QuietStep
<1> QED
  BY <1>4, <1>5

\* Writing the columns in which the entity differs from the row makes the row
\* the entity.
LEMMA Written ==
  ASSUME NEW r \in Row, NEW e \in Row
  PROVE  [f \in Fields |-> IF f \in {g \in Fields : e[g] # r[g]} THEN e[f] ELSE r[f]] = e
BY DEF Row, Fields

\* The UPDATE makes the row an outcome of the row it finds, which is not final.
LEMMA UpdateWrites ==
  ASSUME OneWriter, NEW c \in Calls, UpdateRow(c)
  PROVE  /\ row \in Row /\ ~row.finalized /\ Timed(row)
         /\ row' \in Row /\ Timed(row') /\ row' = call[c].entity
         /\ row.resolvedAt # Null => row'.resolvedAt = row.resolvedAt
         /\ CurrentState(row) = "RESOLVED" => CurrentState(row') # "PENDING"
<1>1. call[c].pc = "update"
  BY DEF UpdateRow
<1>2. /\ Writing(call[c]) /\ Holds(c, call[c]) /\ call[c].kind \in Writers \ {"create"}
      /\ row \in Row /\ Timed(row)
  BY <1>1, Saving
<1>3. /\ ~row.finalized
      /\ call[c].entity \in Outcomes(call[c].kind, row, c)
      /\ call[c].changes = {f \in Fields : call[c].entity[f] # row[f]}
  BY <1>1, <1>2 DEF Holds
<1>4. /\ call[c].entity \in Row /\ Timed(call[c].entity)
      /\ row.resolvedAt # Null => call[c].entity.resolvedAt = row.resolvedAt
      /\ CurrentState(row) = "RESOLVED" => CurrentState(call[c].entity) # "PENDING"
  BY <1>2, <1>3, OutcomesKeep
<1>5. row' = call[c].entity
  BY <1>2, <1>3, <1>4, Written DEF UpdateRow
<1> QED
  BY <1>2, <1>3, <1>4, <1>5

LEMMA UpdateRowStep ==
  ASSUME OneWriter, NEW c \in Calls, UpdateRow(c)
  PROVE  OneWriter'
<1>1. call[c].pc = "update" /\ cache' = cache
  BY DEF UpdateRow
<1>2. /\ Writing(call[c]) /\ Holds(c, call[c]) /\ call[c].kind \in Writers \ {"create"}
      /\ call[c] \in Requests
  BY <1>1, Saving
<1>3. row \in Row /\ ~row.finalized /\ row' \in Row /\ Timed(row')
  BY UpdateWrites
<1>4. PICK pc \in {"done", "invalidate"} : Goto(c, pc)
  BY DEF UpdateRow
<1>5. PICK q \in Requests :
        /\ call' = [call EXCEPT ![c] = q]
        /\ q.kind = call[c].kind /\ q.key = call[c].key /\ q.pc = pc
  BY <1>4, Moved DEF OneWriter, Stages
<1>6. Reads(q)'
  BY <1>2, <1>4, <1>5, NullAssumption DEF Reads, Writers
<1>7. Holds(c, q)'
  BY <1>1, <1>2, <1>4, <1>5 DEF Holds
<1>8. cache' \in [AllKeys -> Row \union {NoClaim, Null}] /\ CachedFinalIsFinal'
  BY <1>1, <1>3 DEF OneWriter, CachedFinalIsFinal
<1> QED
  BY <1>2, <1>3, <1>5, <1>6, <1>7, <1>8, RequestStep

LEMMA InvalidateStep ==
  ASSUME OneWriter, NEW c \in Calls, Invalidate(c)
  PROVE  OneWriter'
<1>1. call[c].pc = "invalidate" /\ row' = row /\ Goto(c, "done")
  BY DEF Invalidate
<1>2. PICK gone \in SUBSET AllKeys : cache' = [k \in AllKeys |-> IF k \in gone THEN Null ELSE cache[k]]
  <2>1. PICK lost : cache' = [k \in AllKeys |->
                       IF k \in Invalidated(call[c].kind) \ lost THEN Null ELSE cache[k]]
    BY DEF Invalidate
  <2>2. Invalidated(call[c].kind) \ lost \in SUBSET AllKeys
    BY DEF Invalidated, AllKeys
  <2> QED
    BY <2>1, <2>2
<1>3. PICK q \in Requests :
        call' = [call EXCEPT ![c] = q] /\ q.kind = call[c].kind /\ q.pc = "done"
  BY <1>1, Moved DEF OneWriter, Stages
<1>4. Reads(q)' /\ ~Writing(q)
  BY <1>1, <1>3 DEF OneWriter, Reads, Writing
<1>5. /\ row' \in Row \union {NoClaim} /\ cache' \in [AllKeys -> Row \union {NoClaim, Null}]
      /\ row' # NoClaim => Timed(row')
      /\ CachedFinalIsFinal'
  BY <1>1, <1>2, NullAssumption DEF OneWriter, CachedFinalIsFinal
<1> QED
  BY <1>1, <1>3, <1>4, <1>5, RequestStep

LEMMA FailStep ==
  ASSUME OneWriter, NEW c \in Calls, Fail(c)
  PROVE  OneWriter'
<1>1. UNCHANGED <<row, cache>> /\ Goto(c, "failed") /\ call[c].pc # "idle"
  BY DEF Fail, Running
<1>2. PICK q \in Requests :
        call' = [call EXCEPT ![c] = q] /\ q.kind = call[c].kind /\ q.pc = "failed"
  BY <1>1, Moved DEF OneWriter, Stages
<1>3. Reads(q) /\ ~Writing(q)
  BY <1>1, <1>2 DEF OneWriter, Reads, Writing
<1> QED
  BY <1>1, <1>2, <1>3, QuietStep

LEMMA ExpireStep ==
  ASSUME OneWriter, NEW k \in AllKeys, Expire(k)
  PROVE  OneWriter'
BY NullAssumption DEF OneWriter, Expire, CachedFinalIsFinal, Reads, Holds

-----------------------------------------------------------------------------
(* The copies in Redis, however many calls change the row at once.         *)

\* A request has its five fields; only a creation inserts, and it saves nothing.
Shaped(q) ==
  /\ q = [kind |-> q.kind, key |-> q.key, pc |-> q.pc, entity |-> q.entity, changes |-> q.changes]
  /\ q.pc = "insert" => q.kind = "create"
  /\ q.kind = "create" => q.pc \notin {"save", "update"}
  /\ q.pc = "fill" /\ q.key = "claim" => q.entity # NoClaim
  /\ q.pc # "idle" => q.key \in AllKeys

\* The inductive invariant: that there is no claim is cached in lists only.
Tracked ==
  /\ call = [c \in Calls |-> call[c]] /\ \A c \in Calls : Shaped(call[c])
  /\ cache = [k \in AllKeys |-> cache[k]] /\ cache["claim"] # NoClaim
  /\ behind \subseteq AllKeys
  /\ CopiesCurrent

\* The request of c, moved on.
Moves(c, pc, e, changes) ==
  [kind |-> call[c].kind, key |-> call[c].key, pc |-> pc, entity |-> e, changes |-> changes]

\* A call other than c has changed the row and is still to delete key k.
OthersDelete(c, k) == \E d \in Calls \ {c} : Deletes(call[d], k)

LEMMA CopyIs ==
  ASSUME Tracked, NEW c \in Calls, NEW k \in AllKeys \ behind
  PROVE  cache[k] \in {Null, row} \/ Deletes(call[c], k) \/ OthersDelete(c, k)
BY DEF Tracked, CopiesCurrent, OthersDelete

\* A step of c that leaves it the request q: a copy is the row, or is still to be
\* deleted, by c or by another, or is behind.
LEMMA TrackedStep ==
  ASSUME Tracked, NEW c \in Calls, NEW q, call' = [call EXCEPT ![c] = q], Shaped(q),
         cache' = [k \in AllKeys |-> cache'[k]], cache'["claim"] # NoClaim,
         behind' \subseteq AllKeys,
         \A k \in AllKeys \ behind' : cache'[k] \in {Null, row'} \/ Deletes(q, k) \/ OthersDelete(c, k)
  PROVE  Tracked'
<1>1. /\ call'[c] = q /\ \A d \in Calls \ {c} : call'[d] = call[d]
      /\ call' = [d \in Calls |-> call'[d]]
  BY DEF Tracked
<1>2. \A d \in Calls : Shaped(call'[d])
  BY <1>1 DEF Tracked
<1>3. ASSUME NEW k \in AllKeys \ behind'
      PROVE  cache'[k] \in {Null, row'} \/ \E d \in Calls : Deletes(call'[d], k)
  <2>1. CASE OthersDelete(c, k)
    <3>1. PICK d \in Calls \ {c} : Deletes(call[d], k)
      BY <2>1 DEF OthersDelete
    <3>2. call'[d] = call[d]
      BY <1>1
    <3> QED
      BY <3>1, <3>2
  <2>2. CASE Deletes(q, k)
    BY <1>1, <2>2
  <2> QED
    BY <1>3, <2>1, <2>2
<1>4. CopiesCurrent'
  BY <1>3 DEF CopiesCurrent
<1> QED
  BY <1>1, <1>2, <1>4 DEF Tracked

\* The forms in which a step writes the request it leaves.
LEMMA Rewritten ==
  ASSUME Tracked, NEW c \in Calls, NEW pc, NEW e
  PROVE  /\ [call[c] EXCEPT !.pc = pc] = Moves(c, pc, call[c].entity, call[c].changes)
         /\ [call[c] EXCEPT !.entity = e, !.pc = pc] = Moves(c, pc, e, call[c].changes)
<1>1. PICK kind, key, p, x, h :
        call[c] = [kind |-> kind, key |-> key, pc |-> p, entity |-> x, changes |-> h]
  BY DEF Tracked, Shaped
<1>2. /\ call[c].kind = kind /\ call[c].key = key /\ call[c].entity = x /\ call[c].changes = h
  BY <1>1
<1>3. [call[c] EXCEPT !.pc = pc] = [kind |-> kind, key |-> key, pc |-> pc, entity |-> x, changes |-> h]
  BY <1>1
<1>4. PICK q : q = [call[c] EXCEPT !.entity = e]
  OBVIOUS
<1>5. q = [kind |-> kind, key |-> key, pc |-> p, entity |-> e, changes |-> h]
  BY <1>1, <1>4
<1>6. PICK r : r = [q EXCEPT !.pc = pc]
  OBVIOUS
<1>7. r = [kind |-> kind, key |-> key, pc |-> pc, entity |-> e, changes |-> h]
  BY <1>5, <1>6
<1>8. r = [call[c] EXCEPT !.entity = e, !.pc = pc]
  BY <1>4, <1>6, Zenon
<1> QED
  BY <1>2, <1>3, <1>7, <1>8 DEF Moves

LEMMA IsShaped ==
  ASSUME Tracked, NEW c \in Calls
  PROVE  Shaped(call[c])
BY DEF Tracked

LEMMA StageMoves ==
  ASSUME Tracked, NEW c \in Calls, NEW pc, Goto(c, pc)
  PROVE  call' = [call EXCEPT ![c] = Moves(c, pc, call[c].entity, call[c].changes)]
<1>1. [call[c] EXCEPT !.pc = pc] = Moves(c, pc, call[c].entity, call[c].changes)
  BY Rewritten
<1> QED
  BY <1>1 DEF Goto, Tracked

LEMMA EntityMoves ==
  ASSUME Tracked, NEW c \in Calls, NEW pc, NEW e,
         call' = [call EXCEPT ![c].entity = e, ![c].pc = pc]
  PROVE  call' = [call EXCEPT ![c] = Moves(c, pc, e, call[c].changes)]
<1>1. [call[c] EXCEPT !.entity = e, !.pc = pc] = Moves(c, pc, e, call[c].changes)
  BY Rewritten
<1>2. call = [d \in Calls |-> call[d]]
  BY DEF Tracked
<1> QED
  BY <1>1, <1>2

\* What a request that has moved on is, and when it is shaped.
LEMMA MovesFields ==
  ASSUME NEW c \in Calls, NEW pc, NEW e, NEW changes, NEW q, q = Moves(c, pc, e, changes)
  PROVE  /\ q.kind = call[c].kind /\ q.key = call[c].key /\ q.pc = pc /\ q.entity = e
         /\ q = [kind |-> q.kind, key |-> q.key, pc |-> q.pc, entity |-> q.entity, changes |-> q.changes]
BY DEF Moves

\* A step that leaves the row and the copies alone, by a call with nothing to delete.
LEMMA TrackedQuiet ==
  ASSUME Tracked, NEW c \in Calls, NEW q, call' = [call EXCEPT ![c] = q], Shaped(q),
         UNCHANGED <<row, cache, behind>>, \A k : ~Deletes(call[c], k)
  PROVE  Tracked'
<1>1. /\ cache' = [k \in AllKeys |-> cache'[k]] /\ cache'["claim"] # NoClaim /\ behind' \subseteq AllKeys
  BY DEF Tracked
<1>2. \A k \in AllKeys \ behind' : cache'[k] \in {Null, row'} \/ OthersDelete(c, k)
  BY CopyIs
<1> QED
  BY <1>1, <1>2, TrackedStep

\* What Behind leaves behind.
LEMMA LeftBehind ==
  ASSUME NEW keys \in SUBSET AllKeys, behind \subseteq AllKeys, Behind(keys)
  PROVE  /\ behind' \subseteq AllKeys
         /\ \A k \in AllKeys \ behind' : cache'[k] \in {Null, row'} \/ (k \notin behind /\ k \notin keys)
BY DEF Behind

LEMMA TrackedCall ==
  ASSUME Tracked, NEW c \in Calls, Call(c)
  PROVE  Tracked'
<1>1. PICK kind \in Kinds, key \in Keys :
        call' = [call EXCEPT ![c] = [Idle EXCEPT !.kind = kind, !.key = key, !.pc = FirstStep(kind)]]
  BY DEF Call
<1>2. call[c] = Idle /\ UNCHANGED <<row, cache, behind>> /\ kind \in Writers \union {"read"}
  BY ClaimAssumption DEF Call
<1>3. PICK pc : pc = FirstStep(kind)
  OBVIOUS
<1>4. pc \in {"get", "insert", "load"} /\ (pc = "insert" => kind = "create")
  BY <1>2, <1>3 DEF FirstStep, Writers
<1> DEFINE q == [kind |-> kind, key |-> key, pc |-> pc, entity |-> Null, changes |-> {}]
<1>5. call' = [call EXCEPT ![c] = q]
  <2>1. PICK r : r = [Idle EXCEPT !.kind = kind]
    OBVIOUS
  <2>2. r = [kind |-> kind, key |-> Null, pc |-> "idle", entity |-> Null, changes |-> {}]
    BY <2>1 DEF Idle
  <2>3. PICK x : x = [r EXCEPT !.key = key]
    OBVIOUS
  <2>4. x = [kind |-> kind, key |-> key, pc |-> "idle", entity |-> Null, changes |-> {}]
    BY <2>2, <2>3
  <2>5. q = [x EXCEPT !.pc = FirstStep(kind)]
    BY <1>3, <2>4
  <2>6. q = [Idle EXCEPT !.kind = kind, !.key = key, !.pc = FirstStep(kind)]
    BY <2>1, <2>3, <2>5, Zenon
  <2> QED
    BY <1>1, <2>6, Zenon
<1>6. Shaped(q)
  <2>1. /\ q.kind = kind /\ q.key = key /\ q.pc = pc /\ q.entity = Null /\ q.changes = {}
        /\ q = [kind |-> q.kind, key |-> q.key, pc |-> q.pc, entity |-> q.entity, changes |-> q.changes]
    OBVIOUS
  <2> HIDE DEF q
  <2>2. key \in AllKeys
    BY ClaimAssumption
  <2> QED
    BY <1>4, <2>1, <2>2 DEF Shaped
<1>7. \A k : ~Deletes(call[c], k)
  BY <1>2, NullAssumption DEF Deletes, Idle
<1> HIDE DEF q
<1> QED
  BY <1>2, <1>5, <1>6, <1>7, TrackedQuiet

LEMMA TrackedReadCache ==
  ASSUME Tracked, NEW c \in Calls, ReadCache(c)
  PROVE  Tracked'
<1>1. call[c].pc = "get" /\ UNCHANGED <<row, cache, behind>> /\ Shaped(call[c])
  BY IsShaped DEF ReadCache
<1>2. PICK pc \in {"done", "failed", "load"} : Goto(c, pc)
  BY DEF ReadCache
<1>3. PICK q : q = Moves(c, pc, call[c].entity, call[c].changes)
  OBVIOUS
<1>4. call' = [call EXCEPT ![c] = q]
  BY <1>2, <1>3, StageMoves
<1>5. Shaped(q)
  BY <1>1, <1>2, <1>3, MovesFields DEF Shaped
<1>6. \A k : ~Deletes(call[c], k)
  BY <1>1 DEF Deletes
<1> QED
  BY <1>1, <1>4, <1>5, <1>6, TrackedQuiet

LEMMA TrackedLoadRow ==
  ASSUME Tracked, NEW c \in Calls, LoadRow(c)
  PROVE  Tracked'
<1>1. call[c].pc = "load" /\ UNCHANGED <<row, cache, behind>> /\ Shaped(call[c])
  BY IsShaped DEF LoadRow
<1>2. \A k : ~Deletes(call[c], k)
  BY <1>1 DEF Deletes
<1>3. CASE Goto(c, "failed")
  <2>1. PICK q : q = Moves(c, "failed", call[c].entity, call[c].changes)
    OBVIOUS
  <2>2. call' = [call EXCEPT ![c] = q]
    BY <1>3, <2>1, StageMoves
  <2>3. Shaped(q)
    BY <1>1, <2>1, MovesFields DEF Shaped
  <2> QED
    BY <1>1, <1>2, <2>2, <2>3, TrackedQuiet
<1>4. CASE ~Goto(c, "failed")
  <2>1. PICK pc \in {"fill", "save"} :
          /\ call' = [call EXCEPT ![c].entity = row, ![c].pc = pc]
          /\ pc = "save" => call[c].kind \in {"settle", "score"}
          /\ call[c].key = "claim" => row # NoClaim
    <3>1. CASE row = NoClaim \/ (call[c].kind # "read" /\ ~MayLoad(call[c].kind, row))
      <4>1. call[c].key # "claim" /\ call' = [call EXCEPT ![c].entity = row, ![c].pc = "fill"]
        BY <1>4, <3>1 DEF LoadRow
      <4> QED
        BY <4>1
    <3>2. CASE ~(row = NoClaim \/ (call[c].kind # "read" /\ ~MayLoad(call[c].kind, row)))
      <4>1. call' = [call EXCEPT ![c].entity = row,
                       ![c].pc = IF call[c].kind \in {"settle", "score"} THEN "save" ELSE "fill"]
        BY <3>2 DEF LoadRow
      <4> QED
        BY <3>2, <4>1
    <3> QED
      BY <3>1, <3>2
  <2>2. PICK q : q = Moves(c, pc, row, call[c].changes)
    OBVIOUS
  <2>3. call' = [call EXCEPT ![c] = q]
    BY <2>1, <2>2, EntityMoves, Zenon
  <2>4. Shaped(q)
    BY <1>1, <2>1, <2>2, MovesFields DEF Shaped
  <2> QED
    BY <1>1, <1>2, <2>3, <2>4, TrackedQuiet
<1> QED
  BY <1>3, <1>4

\* Whether the copy that is filled in is late shows when it is compared with the row.
LEMMA TrackedFillCache ==
  ASSUME Tracked, NEW c \in Calls, FillCache(c)
  PROVE  Tracked'
<1>1. call[c].pc = "fill" /\ row' = row /\ Shaped(call[c])
  BY IsShaped DEF FillCache
<1>2. PICK pc \in {"done", "invalidate", "save"} :
        Goto(c, pc) /\ (call[c].kind = "create" <=> pc = "invalidate")
  <2>1. PICK pc : pc = CASE call[c].kind = "read"   -> "done"
                         [] call[c].kind = "create" -> "invalidate"
                         [] OTHER                   -> "save"
    OBVIOUS
  <2>2. Goto(c, pc)
    BY <2>1 DEF FillCache
  <2>3. CASE call[c].kind = "read"
    BY <2>1, <2>2, <2>3
  <2>4. CASE call[c].kind = "create"
    BY <2>1, <2>2, <2>4
  <2>5. CASE call[c].kind \notin {"read", "create"}
    BY <2>1, <2>2, <2>5
  <2> QED
    BY <2>3, <2>4, <2>5
<1>3. PICK q : q = Moves(c, pc, call[c].entity, call[c].changes)
  OBVIOUS
<1>4. call' = [call EXCEPT ![c] = q] /\ Shaped(q)
  BY <1>1, <1>2, <1>3, StageMoves DEF Shaped, Moves
<1>5. \A k : Deletes(call[c], k) => Deletes(q, k)
  BY <1>1, <1>2, <1>3 DEF Deletes, Moves
<1>6. \/ cache' = [cache EXCEPT ![call[c].key] = call[c].entity] /\ Behind({call[c].key})
      \/ cache' = cache /\ behind' = behind
  BY DEF FillCache
<1>7. cache = [k \in AllKeys |-> cache[k]] /\ cache["claim"] # NoClaim /\ behind \subseteq AllKeys
      /\ "claim" \in AllKeys /\ call[c].key \in AllKeys
  BY <1>1 DEF Tracked, AllKeys, Shaped
<1>8. CASE cache' = cache /\ behind' = behind
  <2>1. \A k \in AllKeys \ behind' : cache'[k] \in {Null, row'} \/ Deletes(q, k) \/ OthersDelete(c, k)
    BY <1>1, <1>5, <1>8, CopyIs
  <2> QED
    BY <1>4, <1>7, <1>8, <2>1, TrackedStep
<1>9. CASE cache' = [cache EXCEPT ![call[c].key] = call[c].entity] /\ Behind({call[c].key})
  <2>1. cache' = [k \in AllKeys |-> cache'[k]] /\ \A k \in AllKeys \ {call[c].key} : cache'[k] = cache[k]
    BY <1>7, <1>9
  <2>2. cache'["claim"] # NoClaim
    BY <1>1, <1>7, <1>9 DEF Shaped
  <2>3. /\ behind' \subseteq AllKeys
        /\ \A k \in AllKeys \ behind' : cache'[k] \in {Null, row'} \/ (k \notin behind /\ k \notin {call[c].key})
    BY <1>7, <1>9, LeftBehind
  <2>4. \A k \in AllKeys \ behind' : cache'[k] \in {Null, row'} \/ Deletes(q, k) \/ OthersDelete(c, k)
    BY <1>1, <1>5, <2>1, <2>3, CopyIs
  <2> QED
    BY <1>4, <2>1, <2>2, <2>3, <2>4, TrackedStep
<1> QED
  BY <1>6, <1>8, <1>9

LEMMA TrackedInsertRow ==
  ASSUME Tracked, NEW c \in Calls, InsertRow(c)
  PROVE  Tracked'
<1>1. /\ call[c].pc = "insert" /\ call[c].kind = "create" /\ row = NoClaim /\ row' = Fresh /\ cache' = cache
      /\ Behind({"user"}) /\ call' = [call EXCEPT ![c].entity = Fresh, ![c].pc = "fill"]
  BY IsShaped DEF InsertRow, Shaped
<1>2. PICK q : q = Moves(c, "fill", Fresh, call[c].changes)
  OBVIOUS
<1>3. call' = [call EXCEPT ![c] = q]
  BY <1>1, <1>2, EntityMoves, Zenon
<1>4. Fresh # NoClaim
  <2>1. Fresh \in Row
    BY DEF Fresh, Row
  <2> QED
    BY <2>1, NullAssumption
<1>5. Shaped(q) /\ Deletes(q, "latest")
  <2>1. /\ q.kind = "create" /\ q.key = call[c].key /\ q.pc = "fill" /\ q.entity = Fresh
        /\ q = [kind |-> q.kind, key |-> q.key, pc |-> q.pc, entity |-> q.entity, changes |-> q.changes]
    BY <1>1, <1>2, MovesFields
  <2>2. Shaped(call[c])
    BY IsShaped
  <2>3. Shaped(q)
    BY <1>1, <1>4, <2>1, <2>2 DEF Shaped
  <2>4. Deletes(q, "latest")
    BY <2>1 DEF Deletes, Invalidated
  <2> QED
    BY <2>3, <2>4
<1>6. cache = [k \in AllKeys |-> cache[k]] /\ cache["claim"] # NoClaim /\ behind \subseteq AllKeys
  BY DEF Tracked
<1>7. /\ behind' \subseteq AllKeys
      /\ \A k \in AllKeys \ behind' : cache'[k] \in {Null, row'} \/ (k \notin behind /\ k \notin {"user"})
  BY <1>1, <1>6, LeftBehind DEF AllKeys
<1>8. ASSUME NEW k \in AllKeys \ behind'
      PROVE  cache'[k] \in {Null, row'} \/ Deletes(q, k) \/ OthersDelete(c, k)
  <2>1. CASE k = "latest"
    BY <1>5, <2>1
  <2>2. CASE k = "claim"
    <3>1. ~Deletes(call[c], k)
      BY <1>1 DEF Deletes
    <3>2. cache'[k] \in {Null, row'} \/ k \notin behind
      BY <1>7
    <3> QED
      BY <1>1, <1>6, <2>2, <3>1, <3>2, CopyIs
  <2>3. CASE k = "user"
    BY <1>7, <2>3
  <2> QED
    BY <2>1, <2>2, <2>3 DEF AllKeys
<1>9. cache' = [k \in AllKeys |-> cache'[k]] /\ cache'["claim"] # NoClaim
  BY <1>1, <1>6
<1> QED
  BY <1>3, <1>5, <1>7, <1>8, <1>9, TrackedStep

LEMMA TrackedBeginSave ==
  ASSUME Tracked, NEW c \in Calls, BeginSave(c)
  PROVE  Tracked'
<1>1. call[c].pc = "save" /\ UNCHANGED <<row, cache, behind>> /\ Shaped(call[c])
  BY IsShaped DEF BeginSave
<1>2. \A k : ~Deletes(call[c], k)
  BY <1>1 DEF Deletes
<1>3. \E pc \in {"failed", "update"} : \E e, changes : call' = [call EXCEPT ![c] = Moves(c, pc, e, changes)]
  <2>1. CASE Goto(c, "failed")
    <3>1. call' = [call EXCEPT ![c] = Moves(c, "failed", call[c].entity, call[c].changes)]
      BY <2>1, StageMoves
    <3> QED
      BY <3>1
  <2>2. CASE ~Goto(c, "failed")
    <3>1. PICK e : call' = [call EXCEPT ![c].entity = e, ![c].pc = "update",
                              ![c].changes = {f \in Fields : e[f] # row[f]}]
      BY <2>2 DEF BeginSave
    <3>2. PICK changes : changes = {f \in Fields : e[f] # row[f]}
      OBVIOUS
    <3>3. call' = [call EXCEPT ![c].entity = e, ![c].pc = "update", ![c].changes = changes]
      BY <3>1, <3>2
    <3>4. PICK q : q = [call[c] EXCEPT !.entity = e, !.pc = "update"]
      OBVIOUS
    <3>5. q = Moves(c, "update", e, call[c].changes)
      BY <3>4, Rewritten, Zenon
    <3>6. [q EXCEPT !.changes = changes] = Moves(c, "update", e, changes)
      BY <3>5 DEF Moves
    <3>7. [call[c] EXCEPT !.entity = e, !.pc = "update", !.changes = changes] = [q EXCEPT !.changes = changes]
      BY <3>4, Zenon
    <3>8. [call[c] EXCEPT !.entity = e, !.pc = "update", !.changes = changes] = Moves(c, "update", e, changes)
      BY <3>6, <3>7, Zenon
    <3>9. call = [d \in Calls |-> call[d]]
      BY DEF Tracked
    <3>10. call' = [call EXCEPT ![c] = Moves(c, "update", e, changes)]
      BY <3>3, <3>8, <3>9
    <3> QED
      BY <3>10
  <2> QED
    BY <2>1, <2>2
<1>4. PICK pc \in {"failed", "update"} : \E e, changes : call' = [call EXCEPT ![c] = Moves(c, pc, e, changes)]
  BY <1>3
<1>5. PICK e, changes : call' = [call EXCEPT ![c] = Moves(c, pc, e, changes)]
  BY <1>4
<1>6. PICK q : q = Moves(c, pc, e, changes)
  OBVIOUS
<1>7. Shaped(q)
  BY <1>1, <1>4, <1>6, MovesFields DEF Shaped
<1> QED
  BY <1>1, <1>2, <1>5, <1>6, <1>7, TrackedQuiet

\* The call that has saved deletes what shows the claim next, or leaves it behind.
LEMMA TrackedUpdateRow ==
  ASSUME Tracked, NEW c \in Calls, UpdateRow(c)
  PROVE  Tracked'
<1>1. call[c].pc = "update" /\ cache' = cache /\ Shaped(call[c]) /\ call[c].kind # "create"
  BY IsShaped DEF UpdateRow, Shaped
<1>2. cache = [k \in AllKeys |-> cache[k]] /\ cache["claim"] # NoClaim /\ behind \subseteq AllKeys
  BY DEF Tracked
<1>3. CASE Goto(c, "done") /\ Behind(AllKeys)
  <2>1. PICK q : q = Moves(c, "done", call[c].entity, call[c].changes)
    OBVIOUS
  <2>2. call' = [call EXCEPT ![c] = q] /\ Shaped(q)
    BY <1>1, <1>3, <2>1, StageMoves DEF Shaped, Moves
  <2>3. behind' \subseteq AllKeys /\ \A k \in AllKeys \ behind' : cache'[k] \in {Null, row'}
    BY <1>2, <1>3, LeftBehind
  <2> QED
    BY <1>1, <1>2, <2>2, <2>3, TrackedStep
<1>4. CASE Goto(c, "invalidate") /\ Behind({"user"})
  <2>1. PICK q : q = Moves(c, "invalidate", call[c].entity, call[c].changes)
    OBVIOUS
  <2>2. call' = [call EXCEPT ![c] = q] /\ Shaped(q)
    BY <1>1, <1>4, <2>1, StageMoves DEF Shaped, Moves
  <2>3. Deletes(q, "claim") /\ Deletes(q, "latest")
    BY <1>1, <2>1 DEF Deletes, Moves, Invalidated
  <2>4. /\ behind' \subseteq AllKeys
        /\ \A k \in AllKeys \ behind' : cache'[k] \in {Null, row'} \/ (k \notin behind /\ k \notin {"user"})
    BY <1>2, <1>4, LeftBehind DEF AllKeys
  <2>5. \A k \in AllKeys \ behind' : cache'[k] \in {Null, row'} \/ Deletes(q, k)
    BY <2>3, <2>4 DEF AllKeys
  <2> QED
    BY <1>1, <1>2, <2>2, <2>4, <2>5, TrackedStep
<1> QED
  BY <1>3, <1>4 DEF UpdateRow

LEMMA TrackedInvalidate ==
  ASSUME Tracked, NEW c \in Calls, Invalidate(c)
  PROVE  Tracked'
<1>1. call[c].pc = "invalidate" /\ row' = row /\ Goto(c, "done") /\ Shaped(call[c])
  BY IsShaped DEF Invalidate
<1>2. PICK lost \in SUBSET AllKeys :
        /\ cache' = [k \in AllKeys |-> IF k \in Invalidated(call[c].kind) \ lost THEN Null ELSE cache[k]]
        /\ Behind(lost)
  <2>1. PICK lost \in (IF MayFail THEN SUBSET Invalidated(call[c].kind) ELSE {{}}) :
          /\ cache' = [k \in AllKeys |-> IF k \in Invalidated(call[c].kind) \ lost THEN Null ELSE cache[k]]
          /\ Behind(lost)
    BY DEF Invalidate
  <2>2. lost \subseteq Invalidated(call[c].kind)
    BY <2>1
  <2>3. lost \in SUBSET AllKeys
    BY <2>2 DEF Invalidated, AllKeys
  <2> QED
    BY <2>1, <2>3
<1>3. PICK q : q = Moves(c, "done", call[c].entity, call[c].changes)
  OBVIOUS
<1>4. call' = [call EXCEPT ![c] = q] /\ Shaped(q)
  BY <1>1, <1>3, StageMoves DEF Shaped, Moves
<1>5. /\ cache = [k \in AllKeys |-> cache[k]] /\ cache["claim"] # NoClaim /\ behind \subseteq AllKeys
      /\ "claim" \in AllKeys
  BY DEF Tracked, AllKeys
<1>6. /\ cache' = [k \in AllKeys |-> cache'[k]]
      /\ \A k \in AllKeys : cache'[k] = IF k \in Invalidated(call[c].kind) \ lost THEN Null ELSE cache[k]
  BY <1>2
<1>7. cache'["claim"] # NoClaim
  BY <1>5, <1>6, NullAssumption
<1>8. /\ behind' \subseteq AllKeys
      /\ \A k \in AllKeys \ behind' : cache'[k] \in {Null, row'} \/ (k \notin behind /\ k \notin lost)
  BY <1>2, <1>5, LeftBehind
<1>9. ASSUME NEW k \in AllKeys \ behind'
      PROVE  cache'[k] \in {Null, row'} \/ OthersDelete(c, k)
  <2>1. CASE cache'[k] \notin {Null, row'}
    <3>1. k \notin behind /\ k \notin lost
      BY <1>8, <2>1
    <3>2. k \notin Invalidated(call[c].kind) /\ cache'[k] = cache[k]
      BY <1>6, <2>1, <3>1
    <3>3. ~Deletes(call[c], k)
      BY <3>2 DEF Deletes
    <3> QED
      BY <1>1, <2>1, <3>1, <3>2, <3>3, CopyIs
  <2> QED
    BY <2>1
<1> QED
  BY <1>4, <1>6, <1>7, <1>8, <1>9, TrackedStep

LEMMA TrackedFail ==
  ASSUME Tracked, NEW c \in Calls, Fail(c)
  PROVE  Tracked'
<1>1. /\ row' = row /\ cache' = cache /\ Goto(c, "failed") /\ Behind({k \in AllKeys : Deletes(call[c], k)})
      /\ call[c].pc # "idle" /\ Shaped(call[c])
  BY IsShaped DEF Fail, Running
<1>2. PICK q : q = Moves(c, "failed", call[c].entity, call[c].changes)
  OBVIOUS
<1>3. call' = [call EXCEPT ![c] = q] /\ Shaped(q)
  BY <1>1, <1>2, StageMoves DEF Shaped, Moves
<1>4. cache = [k \in AllKeys |-> cache[k]] /\ cache["claim"] # NoClaim /\ behind \subseteq AllKeys
  BY DEF Tracked
<1>5. PICK keys \in SUBSET AllKeys : keys = {k \in AllKeys : Deletes(call[c], k)}
  OBVIOUS
<1>6. /\ behind' \subseteq AllKeys
      /\ \A k \in AllKeys \ behind' : cache'[k] \in {Null, row'} \/ (k \notin behind /\ k \notin keys)
  BY <1>1, <1>4, <1>5, LeftBehind
<1>7. \A k \in AllKeys \ behind' : cache'[k] \in {Null, row'} \/ OthersDelete(c, k)
  BY <1>1, <1>5, <1>6, CopyIs
<1> QED
  BY <1>1, <1>3, <1>4, <1>6, <1>7, TrackedStep

LEMMA TrackedExpire ==
  ASSUME Tracked, NEW k \in AllKeys, Expire(k)
  PROVE  Tracked'
<1>1. cache' = [cache EXCEPT ![k] = Null] /\ row' = row /\ call' = call /\ Behind({})
  BY DEF Expire
<1>2. /\ cache = [l \in AllKeys |-> cache[l]] /\ cache["claim"] # NoClaim /\ behind \subseteq AllKeys
      /\ "claim" \in AllKeys
  BY DEF Tracked, AllKeys
<1>3. /\ cache' = [l \in AllKeys |-> cache'[l]] /\ cache'["claim"] # NoClaim
      /\ \A l \in AllKeys : cache'[l] = IF l = k THEN Null ELSE cache[l]
  BY <1>1, <1>2, NullAssumption
<1>4. /\ behind' \subseteq AllKeys
      /\ \A l \in AllKeys \ behind' : cache'[l] \in {Null, row'} \/ (l \notin behind /\ l \notin {})
  BY <1>1, <1>2, LeftBehind
<1>5. CopiesCurrent'
  BY <1>1, <1>3, <1>4 DEF CopiesCurrent, Tracked
<1> QED
  BY <1>1, <1>3, <1>4, <1>5 DEF Tracked

LEMMA TrackedInit ==
  ASSUME Init
  PROVE  Tracked
<1>1. \A c \in Calls : Shaped(call[c])
  BY NullAssumption DEF Init, Idle, Shaped
<1>2. /\ cache = [k \in AllKeys |-> Null] /\ behind = {} /\ "claim" \in AllKeys /\ Null # NoClaim
      /\ call = [c \in Calls |-> Idle]
  BY NullAssumption DEF Init, AllKeys
<1> QED
  BY <1>1, <1>2 DEF Tracked, CopiesCurrent

LEMMA TrackedNext ==
  ASSUME Tracked, [Next]_vars
  PROVE  Tracked'
<1>1. CASE \E c \in Calls :
             \/ Call(c) \/ ReadCache(c) \/ LoadRow(c) \/ FillCache(c) \/ InsertRow(c)
             \/ BeginSave(c) \/ UpdateRow(c) \/ Invalidate(c) \/ Fail(c)
  BY <1>1, TrackedCall, TrackedReadCache, TrackedLoadRow, TrackedFillCache, TrackedInsertRow,
     TrackedBeginSave, TrackedUpdateRow, TrackedInvalidate, TrackedFail
<1>2. CASE \E k \in AllKeys : Expire(k)
  BY <1>2, TrackedExpire
<1>3. CASE UNCHANGED vars
  BY <1>3 DEF vars, Tracked, CopiesCurrent
<1> QED
  BY <1>1, <1>2, <1>3 DEF Next

LEMMA TrackedAlways == Spec => []Tracked
BY TrackedInit, TrackedNext, PTL DEF Spec

\* However many calls change the row at once, fail, or find Redis down: a reader
\* of the cache sees an old claim only while a call is about to delete it, or
\* after one of the mishaps that CopiesCurrent names (claims.service.ts).
THEOREM CopiesAreCurrent == Spec => []CopiesCurrent
<1>1. Tracked => CopiesCurrent
  BY DEF Tracked
<1> QED
  BY <1>1, TrackedAlways, PTL

-----------------------------------------------------------------------------
(* The theorems.                                                           *)

LEMMA OneWriterInit ==
  ASSUME Init
  PROVE  OneWriter
<1> USE NullAssumption
<1>1. Idle \in Requests /\ Idle.kind = Null /\ Idle.pc = "idle"
  BY DEF Idle, Requests, Stages
<1>2. Fresh \in Row /\ Timed(Fresh)
  BY DEF Fresh, Row, Timed, CurrentState
<1>3. \A c \in Calls : call[c] = Idle
  BY DEF Init
<1>4. /\ row \in Row \union {NoClaim} /\ cache \in [AllKeys -> Row \union {NoClaim, Null}]
      /\ call \in [Calls -> Requests]
      /\ row # NoClaim => Timed(row)
  BY <1>1, <1>2 DEF Init
<1>5. CachedFinalIsFinal
  BY DEF Init, CachedFinalIsFinal
<1>6. \A c \in Calls : Reads(call[c]) /\ ~Writing(call[c])
  BY <1>1, <1>3 DEF Reads, Writing
<1> QED
  BY <1>4, <1>5, <1>6 DEF OneWriter

LEMMA OneWriterStep ==
  ASSUME MaxWriters = 1, IsFiniteSet(Calls), OneWriter, [Next]_vars
  PROVE  OneWriter'
<1>1. CASE \E c \in Calls :
             \/ Call(c) \/ ReadCache(c) \/ LoadRow(c) \/ FillCache(c) \/ InsertRow(c)
             \/ BeginSave(c) \/ UpdateRow(c) \/ Invalidate(c) \/ Fail(c)
  BY <1>1, CallStep, ReadCacheStep, LoadRowStep, FillCacheStep, InsertRowStep,
     BeginSaveStep, UpdateRowStep, InvalidateStep, FailStep
<1>2. CASE \E k \in AllKeys : Expire(k)
  BY <1>2, ExpireStep
<1>3. CASE UNCHANGED vars
  BY <1>3 DEF vars, OneWriter, CachedFinalIsFinal, Reads, Holds
<1> QED
  BY <1>1, <1>2, <1>3 DEF Next

\* Only the insert and the update change the row: the one when there is none,
\* the other when it is not final and as the entity allows.
LEMMA RowStep ==
  ASSUME OneWriter, [Next]_vars, row' # row
  PROVE  \/ row = NoClaim
         \/ /\ row \in Row /\ ~row.finalized /\ row' \in Row
            /\ row.resolvedAt # Null => row'.resolvedAt = row.resolvedAt
            /\ CurrentState(row) = "RESOLVED" => CurrentState(row') # "PENDING"
<1>1. PICK c \in Calls : InsertRow(c) \/ UpdateRow(c)
  BY DEF Next, vars, Call, ReadCache, LoadRow, FillCache, BeginSave, Invalidate, Fail, Expire
<1>2. CASE InsertRow(c)
  BY <1>2 DEF InsertRow
<1>3. CASE UpdateRow(c)
  BY <1>3, UpdateWrites
<1> QED
  BY <1>1, <1>2, <1>3

LEMMA OneWriterAlways ==
  ASSUME MaxWriters = 1, IsFiniteSet(Calls)
  PROVE  Spec => []OneWriter
<1>1. Init => OneWriter
  BY OneWriterInit
<1>2. OneWriter /\ [Next]_vars => OneWriter'
  BY OneWriterStep
<1> QED
  BY <1>1, <1>2, PTL DEF Spec

\* Without overlapping changes of the row, a claim has the time of its
\* resolution exactly when it has one, and no copy in Redis says "finalized"
\* of a claim that is not, whatever the readers, the failures and the lost
\* invalidations (claim.entity.ts, claims.cache.ts).
THEOREM ClaimInvariant ==
  ASSUME MaxWriters = 1, IsFiniteSet(Calls)
  PROVE  Spec => []Inv
<1>1. OneWriter /\ Tracked => Inv
  <2> SUFFICES ASSUME OneWriter, Tracked PROVE Inv
    OBVIOUS
  <2>1. TypeOK
    BY DEF OneWriter, Tracked, TypeOK, Requests, Stages
  <2>2. ResolvedHasTime
    BY DEF OneWriter, ResolvedHasTime, Timed
  <2> QED
    BY <2>1, <2>2 DEF OneWriter, Tracked, Inv
<1> QED
  BY <1>1, OneWriterAlways, TrackedAlways, PTL

\* "Finalized claims are immutable", as long as the changes of the row do not
\* overlap; claim_immutable shows that two of them at once break it.
THEOREM FinalizedStays ==
  ASSUME MaxWriters = 1, IsFiniteSet(Calls)
  PROVE  Spec => FinalizedIsImmutable
<1>1. OneWriter /\ [Next]_vars => [State(row) = "FINALIZED" => row' = row]_row
  BY RowStep, NullAssumption DEF State, CurrentState
<1> QED
  BY <1>1, OneWriterAlways, PTL DEF Spec, FinalizedIsImmutable

\* "Claims cannot be unresolved", and the time of a resolution is set once.
THEOREM ResolutionStays ==
  ASSUME MaxWriters = 1, IsFiniteSet(Calls)
  PROVE  Spec => NeverUnresolved
<1>1. OneWriter /\ [Next]_vars =>
        [/\ State(row) = "RESOLVED" => State(row') # "PENDING"
         /\ row # NoClaim /\ row.resolvedAt # Null => row'.resolvedAt = row.resolvedAt]_row
  BY RowStep, NullAssumption DEF State
<1> QED
  BY <1>1, OneWriterAlways, PTL DEF Spec, NeverUnresolved
=============================================================================
