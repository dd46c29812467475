--------------------------- MODULE IndexerProofs ---------------------------
(***************************************************************************)
(* SequentialQueue for any set of tasks, and BlockchainIndexer for any     *)
(* tasks, events and blocks, provided no row predates the payload column:  *)
(* each action preserves the invariant, and each step of the tables is a   *)
(* step of IndexerLedger.                                                  *)
(***************************************************************************)
EXTENDS BlockchainIndexer, FiniteSetTheorems, TLAPS


-----------------------------------------------------------------------------
(* The queue.  Its lemmas are stated per action, for the indexer's to use. *)

LEMMA QueueInitInv == QueueInit => QueueInv
<1> SUFFICES ASSUME QueueInit PROVE QueueInv
  OBVIOUS
<1>1. Outstanding = {}
  BY DEF QueueInit, Outstanding
<1>2. SizeIsOutstanding
  BY <1>1, FS_EmptySet DEF QueueInit, SizeIsOutstanding
<1> QED
  BY <1>1, <1>2 DEF QueueInit, QueueInv, QueueTypeOK, Phase, Settled, TicketsNumberCalls,
     TailIsLatest, ChainIsComplete, EarlierAreOver, Started

LEMMA OutstandingFinite == IsFiniteSet(Outstanding)
BY FS_Subset, TasksAssumption DEF Outstanding

LEMMA EnqueueInv ==
    ASSUME NEW t \in Tasks, QueueInv, Enqueue(t)
    PROVE  QueueInv'
<1> USE DEF QueueInv
<1>1. QueueTypeOK'
  BY DEF QueueTypeOK, Enqueue, Phase, Settled
<1>2. TicketsNumberCalls'
  BY DEF QueueTypeOK, Enqueue, TicketsNumberCalls
<1>3. Outstanding' = Outstanding \cup {t} /\ t \notin Outstanding
  BY DEF QueueTypeOK, Enqueue, Outstanding
<1>4. TailIsLatest'
  BY <1>3, TasksAssumption DEF QueueTypeOK, Enqueue, TailIsLatest
<1>5. ChainIsComplete'
  <2> SUFFICES ASSUME NEW b \in Tasks, phase'[b] = "waiting"
               PROVE  IF prev'[b] = None
                      THEN \A a \in Tasks : 0 < ticket'[a] /\ ticket'[a] < ticket'[b] => Over(a)'
                      ELSE ticket'[prev'[b]] # 0 /\ ticket'[prev'[b]] + 1 = ticket'[b]
    BY DEF ChainIsComplete
  <2>1. CASE b # t /\ prev[b] = None
    BY <2>1 DEF QueueTypeOK, Enqueue, ChainIsComplete, TicketsNumberCalls, Over
  <2>2. CASE b # t /\ prev[b] # None
    BY <2>2, TasksAssumption
    DEF QueueTypeOK, Enqueue, ChainIsComplete, TicketsNumberCalls
  <2>3. CASE b = t /\ tail = None
    <3> SUFFICES ASSUME NEW a \in Tasks, 0 < ticket'[a], ticket'[a] < ticket'[b]
                 PROVE  Over(a)'
      BY <2>3 DEF QueueTypeOK, Enqueue
    <3>1. a # t /\ ticket[a] # 0 /\ phase'[a] = phase[a]
      BY <2>3 DEF QueueTypeOK, Enqueue
    <3>2. a \notin Outstanding /\ phase[a] # "new"
      BY <2>3, <3>1 DEF TailIsLatest, TicketsNumberCalls
    <3> QED
      BY <3>1, <3>2 DEF Outstanding, QueueTypeOK, Phase, Over
  <2>4. CASE b = t /\ tail # None
    BY <2>4, TasksAssumption
    DEF QueueTypeOK, Enqueue, TailIsLatest, TicketsNumberCalls
  <2> QED
    BY <2>1, <2>2, <2>3, <2>4
<1>6. EarlierAreOver'
  BY DEF QueueTypeOK, Enqueue, EarlierAreOver, TicketsNumberCalls, Started, Over, Settled
<1>7. SizeIsOutstanding'
  BY <1>3, OutstandingFinite, FS_AddElement DEF Enqueue, SizeIsOutstanding
<1> QED
  BY <1>1, <1>2, <1>4, <1>5, <1>6, <1>7

LEMMA StartInv ==
    ASSUME NEW t \in Tasks, QueueInv, Start(t)
    PROVE  QueueInv'
<1> USE DEF QueueInv
<1>1. QueueTypeOK'
  BY DEF QueueTypeOK, Start, Phase
<1>2. TicketsNumberCalls'
  BY DEF QueueTypeOK, Start, TicketsNumberCalls
<1>3. Outstanding' = Outstanding
  BY DEF QueueTypeOK, Start, Outstanding
<1>4. TailIsLatest'
  BY <1>3 DEF Start, TailIsLatest
<1>5. ChainIsComplete'
  BY DEF QueueTypeOK, Start, ChainIsComplete, Over, Settled
<1>6. \A a \in Tasks : 0 < ticket[a] /\ ticket[a] < ticket[t] => Over(a)
  <2> SUFFICES ASSUME NEW a \in Tasks, 0 < ticket[a], ticket[a] < ticket[t]
               PROVE  Over(a)
    OBVIOUS
  <2>1. CASE prev[t] = None
    BY <2>1 DEF Start, ChainIsComplete
  <2>2. CASE prev[t] # None
    <3>1. /\ prev[t] \in Tasks
          /\ Over(prev[t])
          /\ ticket[prev[t]] + 1 = ticket[t]
      BY <2>2 DEF QueueTypeOK, Start, ChainReached, ChainIsComplete
    <3>2. CASE ticket[a] = ticket[prev[t]]
      BY <3>1, <3>2 DEF QueueTypeOK, TicketsNumberCalls
    <3>3. CASE ticket[a] < ticket[prev[t]]
      BY <3>1, <3>3 DEF EarlierAreOver, Started, Over
    <3> QED
      BY <3>1, <3>2, <3>3 DEF QueueTypeOK
  <2> QED
    BY <2>1, <2>2
<1>7. EarlierAreOver'
  BY <1>6 DEF QueueTypeOK, Start, EarlierAreOver, Started, Over, Settled
<1>8. SizeIsOutstanding'
  BY <1>3 DEF Start, SizeIsOutstanding
<1> QED
  BY <1>1, <1>2, <1>4, <1>5, <1>7, <1>8

LEMMA SettleInv ==
    ASSUME NEW t \in Tasks, NEW outcome \in {"fulfilled", "rejected"}, QueueInv,
           Settle(t, outcome)
    PROVE  QueueInv'
<1> USE DEF QueueInv
<1>1. Outstanding' = Outstanding \ {t} /\ t \in Outstanding
  BY DEF QueueTypeOK, Settle, Outstanding
<1>2. /\ Cardinality(Outstanding') = Cardinality(Outstanding) - 1
      /\ Cardinality(Outstanding) \in Nat \ {0}
  <2>1. Outstanding # {}
    BY <1>1
  <2> QED
    BY <1>1, <2>1, OutstandingFinite, FS_RemoveElement, FS_CardinalityType, FS_EmptySet
<1>3. SizeIsOutstanding' /\ pending' \in Nat
  BY <1>2 DEF Settle, SizeIsOutstanding
<1>4. QueueTypeOK'
  BY <1>3 DEF QueueTypeOK, Settle, Phase, Settled
<1>5. TicketsNumberCalls'
  BY DEF QueueTypeOK, Settle, TicketsNumberCalls
<1>6. TailIsLatest'
  BY <1>1 DEF Settle, TailIsLatest
<1>7. ChainIsComplete'
  BY DEF QueueTypeOK, Settle, ChainIsComplete, Over, Settled
<1>8. EarlierAreOver'
  BY DEF QueueTypeOK, Settle, EarlierAreOver, Started, Over, Settled
<1> QED
  BY <1>3, <1>4, <1>5, <1>6, <1>7, <1>8

LEMMA RestartInv ==
    ASSUME QueueInv, Restart
    PROVE  QueueInv'
<1> USE DEF QueueInv
<1>1. Outstanding' = {}
  BY DEF QueueTypeOK, Restart, Outstanding
<1>2. SizeIsOutstanding'
  BY <1>1, FS_EmptySet DEF Restart, SizeIsOutstanding
<1>3. QueueTypeOK'
  BY DEF QueueTypeOK, Restart, Phase, Settled
<1>4. TicketsNumberCalls'
  BY DEF QueueTypeOK, Restart, TicketsNumberCalls
<1>5. TailIsLatest'
  BY <1>1 DEF Restart, TailIsLatest
<1>6. ChainIsComplete'
  BY DEF QueueTypeOK, Restart, ChainIsComplete
<1>7. EarlierAreOver'
  BY DEF QueueTypeOK, Restart, EarlierAreOver, TicketsNumberCalls, Started, Over, Settled,
         Phase
<1> QED
  BY <1>2, <1>3, <1>4, <1>5, <1>6, <1>7

\* Steps that only touch onIdle()'s caller.
LEMMA WaiterInv ==
    ASSUME QueueInv, OnIdle \/ OnIdleReturns
    PROVE  QueueInv'
<1>1. UNCHANGED <<phase, prev, tail, pending, ticket, issued>>
  BY DEF OnIdle, OnIdleReturns
<1>2. waiter' \in [on : BOOLEAN, task : Tasks \cup {None}]
  <2>1. tail \in Tasks \cup {None}
    BY DEF QueueInv, QueueTypeOK
  <2>2. CASE OnIdle
    BY <2>1, <2>2 DEF OnIdle
  <2>3. CASE OnIdleReturns
    BY <2>3 DEF OnIdleReturns
  <2> QED
    BY <2>2, <2>3
<1>3. QueueTypeOK'
  BY <1>1, <1>2 DEF QueueInv, QueueTypeOK
<1> QED
  BY <1>1, <1>3 DEF QueueInv, TicketsNumberCalls, TailIsLatest, ChainIsComplete,
     EarlierAreOver, SizeIsOutstanding, Outstanding, Over, Started

LEMMA StutterInv ==
    ASSUME QueueInv, UNCHANGED queueVars
    PROVE  QueueInv'
BY DEF QueueInv, queueVars, QueueTypeOK, TicketsNumberCalls, TailIsLatest,
   ChainIsComplete, EarlierAreOver, SizeIsOutstanding, Outstanding, Over, Started

\* The chain serialises: two running tasks would have different tickets, and
\* the one with the later ticket started with the earlier one over.
LEMMA InvImpliesOneAtATime == QueueInv => OneAtATime
<1> SUFFICES ASSUME QueueInv, NEW a \in Tasks, NEW b \in Tasks,
                    phase[a] = "running", phase[b] = "running", a # b
             PROVE  FALSE
  BY DEF OneAtATime
<1>1. ticket[a] \in Nat \ {0} /\ ticket[b] \in Nat \ {0} /\ ticket[a] # ticket[b]
  BY DEF QueueInv, QueueTypeOK, TicketsNumberCalls
<1>2. ticket[a] < ticket[b] \/ ticket[b] < ticket[a]
  BY <1>1
<1> QED
  BY <1>1, <1>2 DEF QueueInv, EarlierAreOver, Started, Over, Settled

LEMMA QueueNextInv == QueueInv /\ [QueueNext]_queueVars => QueueInv'
BY EnqueueInv, StartInv, SettleInv, RestartInv, WaiterInv, StutterInv DEF QueueNext

\* The queue's invariant, hence its type invariant, in every behaviour.
THEOREM QueueInvariant == QueueSpec => []QueueInv
<1>1. QueueInit => QueueInv
  BY QueueInitInv
<1>2. QueueInv /\ [QueueNext]_queueVars => QueueInv'
  BY QueueNextInv
<1> QED
  BY <1>1, <1>2, PTL DEF QueueSpec

\* "runs async tasks strictly one at a time" (sequential-queue.ts, line 2).
THEOREM QueueSerialises == QueueSpec => []OneAtATime
BY QueueInvariant, InvImpliesOneAtATime, PTL

\* "in the order they were enqueued" (sequential-queue.ts, line 3).
THEOREM QueueIsFIFO == QueueSpec => []InOrder
<1>1. QueueInv => InOrder
  BY DEF QueueInv, EarlierAreOver, InOrder, Started, Settled
<1> QED
  BY <1>1, QueueInvariant, PTL

\* `size' never drifts from the number of unsettled tasks, and so never goes
\* negative or stays positive on an idle queue.
THEOREM QueueSizeExact == QueueSpec => []SizeIsOutstanding
<1>1. QueueInv => SizeIsOutstanding
  BY DEF QueueInv
<1> QED
  BY <1>1, QueueInvariant, PTL

-----------------------------------------------------------------------------
(* The indexer.                                                            *)

\* Unprimed facts every step proof starts from.
LEMMA TypeFacts ==
    ASSUME TypeOK
    PROVE  /\ phase \in [Tasks -> Phase]
           /\ stored \in [Events -> Blocks \cup {None}]
           /\ payload \in [Events -> BOOLEAN]
           /\ debited \in [Events -> Int]
           /\ credited \in [Events -> Int]
           /\ checkpoint \in Nat \cup {None}
           /\ op \in [Tasks -> Requests \cup {None}]
           /\ stage \in [Tasks -> Stage]
           /\ seen \in [Tasks -> [last : Nat, rows : SUBSET Events]]
BY DEF TypeOK, QueueTypeOK

LEMMA LedgerTypes ==
    ASSUME TypeOK
    PROVE  /\ Ledger!LastBlock \in Nat
           /\ \A m, n \in Nat : /\ Ledger!Greater(m, n) \in Nat
                                /\ Ledger!Greater(m, n) >= m
                                /\ Ledger!Greater(m, n) >= n
           /\ \A start \in Nat : /\ Ledger!RewoundTo(start) \in Nat
                                 /\ start > 0 => Ledger!RewoundTo(start) = start - 1
                                 /\ start = 0 => Ledger!RewoundTo(start) = 0
           /\ \A start \in Nat : Ledger!Orphaned(start) \subseteq Events
BY TypeFacts DEF Ledger!LastBlock, Ledger!Greater, Ledger!RewoundTo, Ledger!Orphaned

\* The running task is the only one at a statement.
LEMMA OnlyOneAtAStatement ==
    ASSUME IInv, NEW t \in Tasks, stage[t] # "none", NEW u \in Tasks, u # t
    PROVE  stage[u] = "none" /\ phase[u] # "running"
BY InvImpliesOneAtATime DEF IInv, StageMatchesPhase, OneAtATime

LEMMA InitIInv == Legacy = {} /\ Init => IInv
<1> SUFFICES ASSUME Legacy = {}, Init PROVE IInv
  OBVIOUS
<1> USE DEF Init
<1>1. QueueInv
  BY QueueInitInv
<1>2. /\ stored = [e \in Events |-> None]
      /\ debited = [e \in Events |-> 0]
      /\ credited = [e \in Events |-> 0]
      /\ checkpoint = None
  BY DEF Once
<1>3. TypeOK
  BY <1>1, <1>2 DEF TypeOK, QueueInv, Stage, Nothing
<1> QED
  BY <1>1, <1>2, <1>3, IndexerAssumption
  DEF IInv, StageMatchesPhase, ReadsAreFresh, PayloadKept, BalancesMatchEvents,
      CheckpointCoversEvents, QueueInit

\* A request enters the queue: no task moves, no table changes.
LEMMA SubmitIInv ==
    ASSUME IInv, NEW t \in Tasks, NEW request \in Requests, Submit(t, request)
    PROVE  IInv'
<1> USE DEF IInv, Submit
<1>1. QueueInv'
  BY EnqueueInv
<1>2. TypeOK'
  BY <1>1, TypeFacts DEF TypeOK, QueueInv, tables
<1>3. stage[t] = "none"
  BY DEF StageMatchesPhase, Enqueue
<1>4. StageMatchesPhase'
  BY <1>3, TypeFacts DEF StageMatchesPhase, Enqueue
<1>5. ReadsAreFresh'
  BY <1>3, TypeFacts
  DEF ReadsAreFresh, tables, Ledger!LastBlock, Ledger!Orphaned
<1>6. (PayloadKept /\ BalancesMatchEvents /\ CheckpointCoversEvents)'
  BY DEF PayloadKept, BalancesMatchEvents, CheckpointCoversEvents, tables
<1> QED
  BY <1>1, <1>2, <1>4, <1>5, <1>6

LEMMA BeginIInv ==
    ASSUME IInv, NEW t \in Tasks, Begin(t)
    PROVE  IInv'
<1> USE DEF IInv, Begin
<1>1. QueueInv'
  BY StartInv
<1>2. TypeOK'
  BY <1>1, TypeFacts DEF TypeOK, QueueInv, tables, Stage
<1>3. op[t] \in Requests
  BY DEF StageMatchesPhase, Start
<1>4. StageMatchesPhase'
  BY <1>3, TypeFacts DEF StageMatchesPhase, Start, Requests
<1>5. ReadsAreFresh'
  BY TypeFacts DEF ReadsAreFresh, tables, Ledger!LastBlock, Ledger!Orphaned
<1>6. (PayloadKept /\ BalancesMatchEvents /\ CheckpointCoversEvents)'
  BY DEF PayloadKept, BalancesMatchEvents, CheckpointCoversEvents, tables
<1> QED
  BY <1>1, <1>2, <1>4, <1>5, <1>6

\* What settling does to the parts of IInv that do not speak of the tables;
\* the other tasks are idle, so no read can go stale.
LEMMA FinishIInv ==
    ASSUME IInv, NEW t \in Tasks, NEW outcome \in {"fulfilled", "rejected"},
           stage[t] # "none", Finish(t, outcome)
    PROVE  QueueInv' /\ StageMatchesPhase' /\ ReadsAreFresh'
<1> USE DEF Finish
<1>1. QueueInv'
  BY SettleInv DEF IInv
<1>2. \A u \in Tasks : stage'[u] = "none"
  BY OnlyOneAtAStatement, TypeFacts DEF IInv
<1>3. \A u \in Tasks : phase'[u] # "running"
  BY OnlyOneAtAStatement, TypeFacts DEF IInv, Settle
<1>4. StageMatchesPhase'
  BY <1>2, <1>3, TypeFacts DEF IInv, StageMatchesPhase, Settle
<1>5. ReadsAreFresh'
  BY <1>2 DEF ReadsAreFresh
<1> QED
  BY <1>1, <1>4, <1>5

\* Settling without touching the tables: a duplicate, or a failure.
LEMMA FinishOnlyIInv ==
    ASSUME IInv, NEW t \in Tasks, NEW outcome \in {"fulfilled", "rejected"},
           stage[t] # "none", Finish(t, outcome), UNCHANGED tables
    PROVE  IInv'
<1>1. QueueInv' /\ StageMatchesPhase' /\ ReadsAreFresh'
  BY FinishIInv
<1>2. TypeOK'
  BY <1>1, TypeFacts DEF IInv, TypeOK, QueueInv, Finish, tables, Stage, Nothing
<1>3. (PayloadKept /\ BalancesMatchEvents /\ CheckpointCoversEvents)'
  BY DEF IInv, PayloadKept, BalancesMatchEvents, CheckpointCoversEvents, tables
<1> QED
  BY <1>1, <1>2, <1>3 DEF IInv

\* A statement that only reads.
LEMMA ReadIInv ==
    ASSUME IInv, NEW t \in Tasks,
           OpenTransaction(t) \/ ReadCheckpoint(t) \/ LoadOrphaned(t)
    PROVE  IInv'
<1>1. /\ UNCHANGED <<queueVars, tables, op>>
      /\ stage[t] # "none"
      /\ \A u \in Tasks : u # t => stage'[u] = stage[u] /\ seen'[u] = seen[u]
  BY TypeFacts DEF IInv, OpenTransaction, ReadCheckpoint, LoadOrphaned
<1>2. QueueInv'
  BY <1>1, StutterInv DEF IInv
<1>3. op[t] \in Requests /\ phase[t] = "running"
  BY <1>1, TypeFacts DEF IInv, StageMatchesPhase, Phase, Settled
<1>4. TypeOK'
  <2>1. stage' \in [Tasks -> Stage]
    BY TypeFacts DEF IInv, OpenTransaction, ReadCheckpoint, LoadOrphaned, Stage
  <2>2. seen' \in [Tasks -> [last : Nat, rows : SUBSET Events]]
    <3>1. Ledger!Orphaned(op[t].block) \subseteq Events
      BY DEF Ledger!Orphaned
    <3> QED
      BY <3>1, TypeFacts, LedgerTypes
      DEF IInv, OpenTransaction, ReadCheckpoint, LoadOrphaned
  <2> QED
    BY <1>1, <1>2, <2>1, <2>2, TypeFacts DEF IInv, TypeOK, QueueInv, tables
<1>5. StageMatchesPhase'
  BY <1>1, <1>3, TypeFacts
  DEF IInv, StageMatchesPhase, OpenTransaction, ReadCheckpoint, LoadOrphaned, queueVars
<1>6. ReadsAreFresh'
  BY <1>1, TypeFacts
  DEF IInv, ReadsAreFresh, OpenTransaction, ReadCheckpoint, LoadOrphaned, tables,
      Ledger!LastBlock, Ledger!Orphaned
<1>7. (PayloadKept /\ BalancesMatchEvents /\ CheckpointCoversEvents)'
  BY <1>1 DEF IInv, PayloadKept, BalancesMatchEvents, CheckpointCoversEvents, tables
<1> QED
  BY <1>2, <1>4, <1>5, <1>6, <1>7 DEF IInv

\* A commit of processEvent is one Record of the abstract ledger, because the
\* lookup and the checkpoint it read are still true.
LEMMA CommitEventRecords ==
    ASSUME IInv, NEW t \in Tasks, NEW outcome \in {"fulfilled", "rejected"},
           CommitEvent(t, outcome)
    PROVE  /\ op[t].event \in Events
           /\ op[t].block \in Blocks
           /\ Ledger!Record(op[t].event, op[t].block)
<1>1. phase[t] = "running" /\ stage[t] = "saving"
  BY DEF CommitEvent, Finish, Settle
<1>2. op[t].event \in Events /\ op[t].block \in Blocks
  BY <1>1, TypeFacts DEF IInv, StageMatchesPhase, Requests
<1>3. seen[t].last = Ledger!LastBlock
  BY <1>1 DEF IInv, ReadsAreFresh
<1>4. /\ debited' = [debited EXCEPT ![op[t].event] =
                       IF op[t].event \in Transfers THEN @ + 1 ELSE @]
      /\ credited' = [credited EXCEPT ![op[t].event] =
                       IF op[t].event \in Transfers THEN @ + 1 ELSE @]
  <2>1. /\ debited[op[t].event] \in Int /\ debited[op[t].event] + 0 = debited[op[t].event]
        /\ credited[op[t].event] \in Int /\ credited[op[t].event] + 0 = credited[op[t].event]
    BY <1>2, TypeFacts DEF IInv
  <2>2. CASE op[t].event \in Transfers
    BY <2>2 DEF CommitEvent
  <2>3. CASE op[t].event \notin Transfers
    BY <2>1, <2>3 DEF CommitEvent
  <2> QED
    BY <2>2, <2>3
<1>5. checkpoint' = Ledger!Greater(Ledger!LastBlock, op[t].block)
  BY <1>3 DEF CommitEvent
<1>6. /\ stored[op[t].event] = None
      /\ stored' = [stored EXCEPT ![op[t].event] = op[t].block]
      /\ payload' = [payload EXCEPT ![op[t].event] = TRUE]
  BY DEF CommitEvent
<1> QED
  BY <1>2, <1>4, <1>5, <1>6, Zenon DEF Ledger!Record

\* A commit of replayFromBlock is one Rollback: the rows it reversed are the
\* rows it deletes.
LEMMA CommitReplayRollsBack ==
    ASSUME IInv, NEW t \in Tasks, NEW outcome \in {"fulfilled", "rejected"},
           CommitReplay(t, outcome)
    PROVE  op[t].block \in Blocks /\ Ledger!Rollback(op[t].block)
<1>1. phase[t] = "running" /\ stage[t] = "reversing"
  BY DEF CommitReplay, Finish, Settle
<1>2. op[t].block \in Blocks
  BY <1>1, TypeFacts DEF IInv, StageMatchesPhase, Requests
<1>3. seen[t].rows = Ledger!Orphaned(op[t].block)
  BY <1>1 DEF IInv, ReadsAreFresh
<1> DEFINE reversed == {e \in Ledger!Orphaned(op[t].block) \cap Transfers : payload[e]}
<1>4. /\ debited' = [e \in Events |-> IF e \in reversed THEN debited[e] - 1 ELSE debited[e]]
      /\ credited' = [e \in Events |-> IF e \in reversed THEN credited[e] - 1 ELSE credited[e]]
  BY <1>3, TypeFacts DEF IInv, CommitReplay
<1> QED
  BY <1>2, <1>4 DEF CommitReplay, Ledger!Rollback

\* The abstract steps keep the parts of the invariant that speak of tables.
LEMMA RecordKeepsTables ==
    ASSUME IInv, NEW e \in Events, NEW block \in Blocks, Ledger!Record(e, block)
    PROVE  /\ stored' \in [Events -> Blocks \cup {None}]
           /\ payload' \in [Events -> BOOLEAN]
           /\ debited' \in [Events -> Int]
           /\ credited' \in [Events -> Int]
           /\ checkpoint' \in Nat
           /\ PayloadKept' /\ BalancesMatchEvents' /\ CheckpointCoversEvents'
<1> USE TypeFacts, IndexerAssumption DEF IInv, Ledger!Record
<1>1. block \in Nat
  OBVIOUS
<1>2. checkpoint' \in Nat /\ checkpoint' >= block /\ checkpoint' >= Ledger!LastBlock
  BY <1>1, LedgerTypes
<1>3. /\ stored' \in [Events -> Blocks \cup {None}]
      /\ payload' \in [Events -> BOOLEAN]
  OBVIOUS
<1>4. debited' \in [Events -> Int] /\ credited' \in [Events -> Int]
  OBVIOUS
<1>5. PayloadKept'
  BY DEF PayloadKept
<1>6. BalancesMatchEvents'
  <2> SUFFICES ASSUME NEW f \in Transfers
               PROVE  /\ debited'[f] = IF stored'[f] = None THEN 0 ELSE 1
                      /\ credited'[f] = IF stored'[f] = None THEN 0 ELSE 1
    BY DEF BalancesMatchEvents
  <2>1. CASE f = e
    <3>1. debited[f] = 0 /\ credited[f] = 0
      BY <2>1 DEF BalancesMatchEvents
    <3> QED
      BY <1>1, <2>1, <3>1
  <2>2. CASE f # e
    BY <2>2 DEF BalancesMatchEvents
  <2> QED
    BY <2>1, <2>2
<1>7. CheckpointCoversEvents'
  <2> SUFFICES ASSUME NEW f \in Events, stored'[f] # None
               PROVE  checkpoint' # None /\ stored'[f] <= checkpoint'
    BY DEF CheckpointCoversEvents
  <2>1. CASE f = e
    BY <1>1, <1>2, <2>1
  <2>2. CASE f # e
    <3>1. stored'[f] = stored[f] /\ stored[f] \in Nat
      BY <2>2
    <3>2. stored[f] <= Ledger!LastBlock /\ Ledger!LastBlock \in Nat
      BY <3>1, LedgerTypes DEF CheckpointCoversEvents, Ledger!LastBlock
    <3> QED
      BY <1>2, <3>1, <3>2
  <2> QED
    BY <2>1, <2>2
<1> QED
  BY <1>2, <1>3, <1>4, <1>5, <1>6, <1>7

LEMMA RollbackKeepsTables ==
    ASSUME IInv, NEW start \in Blocks, Ledger!Rollback(start)
    PROVE  /\ stored' \in [Events -> Blocks \cup {None}]
           /\ payload' \in [Events -> BOOLEAN]
           /\ debited' \in [Events -> Int]
           /\ credited' \in [Events -> Int]
           /\ checkpoint' \in Nat
           /\ PayloadKept' /\ BalancesMatchEvents' /\ CheckpointCoversEvents'
<1> USE TypeFacts, IndexerAssumption DEF IInv, Ledger!Rollback
<1>1. start \in Nat
  OBVIOUS
<1>2. /\ checkpoint' \in Nat
      /\ start > 0 => checkpoint' = start - 1
  BY <1>1, LedgerTypes
<1>3. /\ stored' \in [Events -> Blocks \cup {None}]
      /\ payload' \in [Events -> BOOLEAN]
  OBVIOUS
<1>4. debited' \in [Events -> Int] /\ credited' \in [Events -> Int]
  OBVIOUS
<1>5. PayloadKept'
  BY DEF PayloadKept, Ledger!Orphaned
<1>6. BalancesMatchEvents'
  <2> SUFFICES ASSUME NEW e \in Transfers
               PROVE  /\ debited'[e] = IF stored'[e] = None THEN 0 ELSE 1
                      /\ credited'[e] = IF stored'[e] = None THEN 0 ELSE 1
    BY DEF BalancesMatchEvents
  <2>1. e \in Events /\ (stored[e] # None => payload[e])
    BY DEF PayloadKept
  <2>2. CASE e \in Ledger!Orphaned(start)
    BY <2>1, <2>2 DEF BalancesMatchEvents, Ledger!Orphaned
  <2>3. CASE e \notin Ledger!Orphaned(start)
    BY <2>1, <2>3 DEF BalancesMatchEvents
  <2> QED
    BY <2>2, <2>3
<1>7. CheckpointCoversEvents'
  <2> SUFFICES ASSUME NEW f \in Events, stored'[f] # None
               PROVE  checkpoint' # None /\ stored'[f] <= checkpoint'
    BY DEF CheckpointCoversEvents
  <2>1. stored'[f] = stored[f] /\ stored[f] \in Nat /\ f \notin Ledger!Orphaned(start)
    OBVIOUS
  <2>2. stored[f] < start
    BY <1>1, <2>1 DEF Ledger!Orphaned
  <2> QED
    BY <1>1, <1>2, <2>1, <2>2
<1> QED
  BY <1>2, <1>3, <1>4, <1>5, <1>6, <1>7

LEMMA CommitIInv ==
    ASSUME IInv, NEW t \in Tasks, NEW outcome \in {"fulfilled", "rejected"},
           CommitEvent(t, outcome) \/ CommitReplay(t, outcome)
    PROVE  IInv'
<1>1. Finish(t, outcome) /\ stage[t] # "none"
  BY DEF CommitEvent, CommitReplay
<1>2. QueueInv' /\ StageMatchesPhase' /\ ReadsAreFresh'
  BY <1>1, FinishIInv
<1>3. /\ stored' \in [Events -> Blocks \cup {None}]
      /\ payload' \in [Events -> BOOLEAN]
      /\ debited' \in [Events -> Int]
      /\ credited' \in [Events -> Int]
      /\ checkpoint' \in Nat
      /\ PayloadKept' /\ BalancesMatchEvents' /\ CheckpointCoversEvents'
  <2>1. CASE CommitEvent(t, outcome)
    BY <2>1, CommitEventRecords, RecordKeepsTables
  <2>2. CASE CommitReplay(t, outcome)
    BY <2>2, CommitReplayRollsBack, RollbackKeepsTables
  <2> QED
    BY <2>1, <2>2
<1>4. TypeOK'
  BY <1>1, <1>2, <1>3, TypeFacts DEF IInv, TypeOK, QueueInv, Finish, Stage, Nothing
<1> QED
  BY <1>2, <1>3, <1>4 DEF IInv

LEMMA CrashIInv ==
    ASSUME IInv, Crash
    PROVE  IInv'
<1> USE DEF Crash
<1>1. QueueInv'
  BY RestartInv DEF IInv
<1>2. TypeOK'
  BY <1>1, TypeFacts DEF IInv, TypeOK, QueueInv, tables, Stage, Nothing
<1>3. StageMatchesPhase' /\ ReadsAreFresh'
  BY TypeFacts DEF IInv, StageMatchesPhase, ReadsAreFresh, Restart, Phase, Settled
<1>4. (PayloadKept /\ BalancesMatchEvents /\ CheckpointCoversEvents)'
  BY DEF IInv, PayloadKept, BalancesMatchEvents, CheckpointCoversEvents, tables
<1> QED
  BY <1>1, <1>2, <1>3, <1>4 DEF IInv

LEMMA StutterIInv ==
    ASSUME IInv, UNCHANGED vars
    PROVE  IInv'
<1>1. QueueInv'
  BY StutterInv DEF IInv, vars
<1> QED
  BY <1>1 DEF IInv, vars, tables, taskVars, queueVars, TypeOK, QueueInv, StageMatchesPhase,
     ReadsAreFresh, PayloadKept, BalancesMatchEvents, CheckpointCoversEvents,
     Ledger!LastBlock, Ledger!Orphaned

LEMMA TaskStepIInv ==
    ASSUME IInv, NEW t \in Tasks, TaskStep(t)
    PROVE  IInv'
<1>1. CASE SkipDuplicate(t)
  BY <1>1, FinishOnlyIInv DEF SkipDuplicate
<1>2. CASE OpenTransaction(t) \/ ReadCheckpoint(t) \/ LoadOrphaned(t)
  BY <1>2, ReadIInv
<1>3. CASE \E outcome \in {"fulfilled", "rejected"} :
             CommitEvent(t, outcome) \/ CommitReplay(t, outcome)
  BY <1>3, CommitIInv
<1>4. CASE Fail(t)
  BY <1>4, FinishOnlyIInv DEF Fail
<1> QED
  BY <1>1, <1>2, <1>3, <1>4 DEF TaskStep

LEMMA NextIInv == IInv /\ [Next]_vars => IInv'
<1> SUFFICES ASSUME IInv, [Next]_vars PROVE IInv'
  OBVIOUS
<1>1. ASSUME NEW t \in Tasks, NEW start \in Blocks, ReplayFromBlock(t, start)
      PROVE  IInv'
  BY <1>1, SubmitIInv DEF ReplayFromBlock, Requests
<1>2. ASSUME NEW t \in Tasks, NEW e \in Events, NEW block \in Blocks,
             ProcessEvent(t, e, block)
      PROVE  IInv'
  BY <1>2, SubmitIInv DEF ProcessEvent, Requests
<1>3. ASSUME NEW t \in Tasks, Begin(t) \/ TaskStep(t)
      PROVE  IInv'
  BY <1>3, BeginIInv, TaskStepIInv
<1>4. CASE Crash \/ UNCHANGED vars
  BY <1>4, CrashIInv, StutterIInv
<1> QED
  BY <1>1, <1>2, <1>3, <1>4 DEF Next

\* The inductive invariant holds in every behaviour without legacy rows.
THEOREM IndexerInvariant ==
    ASSUME Legacy = {}
    PROVE  SafetySpec => []IInv
<1>1. Init => IInv
  BY InitIInv
<1>2. IInv /\ [Next]_vars => IInv'
  BY NextIInv
<1> QED
  BY <1>1, <1>2, PTL DEF SafetySpec

\* Type correctness of the indexer.
THEOREM IndexerTypes ==
    ASSUME Legacy = {}
    PROVE  SafetySpec => []TypeOK
<1>1. IInv => TypeOK
  BY DEF IInv
<1> QED
  BY <1>1, IndexerInvariant, PTL

\* Exactly once: each recorded transfer is in the balances once, any other is
\* not at all (processEvent and replayFromBlock, over every delivery order).
THEOREM IndexerExactlyOnce ==
    ASSUME Legacy = {}
    PROVE  SafetySpec => []BalancesMatchEvents
<1>1. IInv => BalancesMatchEvents
  BY DEF IInv
<1> QED
  BY <1>1, IndexerInvariant, PTL

\* No recorded event lies beyond the checkpoint (saveCheckpoint, and the
\* rewind in replayFromBlockInternal).
THEOREM IndexerCheckpoint ==
    ASSUME Legacy = {}
    PROVE  SafetySpec => []CheckpointCoversEvents
<1>1. IInv => CheckpointCoversEvents
  BY DEF IInv
<1> QED
  BY <1>1, IndexerInvariant, PTL

\* Each step of the program is one step of the abstract ledger or leaves the
\* tables alone.
LEMMA StepImplementsLedger ==
    ASSUME IInv, [Next]_vars
    PROVE  [Ledger!LedgerNext]_tables
<1>1. ASSUME NEW t \in Tasks, NEW outcome \in {"fulfilled", "rejected"},
             CommitEvent(t, outcome)
      PROVE  Ledger!LedgerNext
  BY <1>1, CommitEventRecords DEF Ledger!LedgerNext
<1>2. ASSUME NEW t \in Tasks, NEW outcome \in {"fulfilled", "rejected"},
             CommitReplay(t, outcome)
      PROVE  Ledger!LedgerNext
  BY <1>2, CommitReplayRollsBack DEF Ledger!LedgerNext
<1>3. ASSUME NEW t \in Tasks,
             \/ SkipDuplicate(t) \/ OpenTransaction(t) \/ ReadCheckpoint(t)
             \/ LoadOrphaned(t) \/ Fail(t) \/ Begin(t)
      PROVE  UNCHANGED tables
  BY <1>3 DEF SkipDuplicate, OpenTransaction, ReadCheckpoint, LoadOrphaned, Fail, Begin,
     tables
<1>4. ASSUME NEW t \in Tasks, NEW request, Submit(t, request)
      PROVE  UNCHANGED tables
  BY <1>4 DEF Submit
<1>5. Crash \/ UNCHANGED vars => UNCHANGED tables
  BY DEF Crash, vars
<1> QED
  BY <1>1, <1>2, <1>3, <1>4, <1>5 DEF Next, TaskStep, ProcessEvent, ReplayFromBlock

\* The queued, transactional, crashing indexer implements the ledger whose
\* records and rollbacks are indivisible.
THEOREM IndexerImplementsLedger ==
    ASSUME Legacy = {}
    PROVE  SafetySpec => ImplementsLedger
<1>1. Init => LedgerInit
  <2> SUFFICES ASSUME Init PROVE LedgerInit
    OBVIOUS
  <2>1. IInv
    BY InitIInv
  <2>2. \A e \in Events : stored[e] \in {None, LegacyBlock}
    BY DEF Init
  <2> QED
    BY <2>1, <2>2 DEF LedgerInit, IInv
<1>2. IInv /\ [Next]_vars => [Ledger!LedgerNext]_tables
  BY StepImplementsLedger
<1> QED
  BY <1>1, <1>2, IndexerInvariant, PTL DEF SafetySpec, ImplementsLedger

\* A recorded event leaves only by a rollback that covers its block.
THEOREM IndexerOnlyRollbackForgets ==
    ASSUME Legacy = {}
    PROVE  SafetySpec => OnlyRollbackForgets
<1> DEFINE Forgets(e) ==
      stored[e] # None /\ stored'[e] # stored[e]
        => /\ stored'[e] = None
           /\ \E t \in Tasks : /\ phase[t] = "running"
                               /\ op[t].kind = "replay"
                               /\ op[t].block <= stored[e]
<1>1. ASSUME IInv, [Next]_vars, NEW e \in Events
      PROVE  Forgets(e)
  <2>1. ASSUME NEW t \in Tasks, NEW outcome \in {"fulfilled", "rejected"},
               CommitEvent(t, outcome)
        PROVE  Forgets(e)
    <3>1. stored' = [stored EXCEPT ![op[t].event] = op[t].block] /\ stored[op[t].event] = None
      BY <2>1 DEF CommitEvent
    <3> QED
      BY <1>1, <3>1, TypeFacts DEF IInv
  <2>2. ASSUME NEW t \in Tasks, NEW outcome \in {"fulfilled", "rejected"},
               CommitReplay(t, outcome)
        PROVE  Forgets(e)
    <3>1. phase[t] = "running" /\ op[t].kind = "replay" /\ op[t].block \in Nat
      BY <1>1, <2>2, CommitReplayRollsBack, IndexerAssumption
      DEF CommitReplay, Finish, Settle, IInv, StageMatchesPhase
    <3>2. stored'[e] # stored[e] => stored'[e] = None /\ op[t].block <= stored[e]
      BY <1>1, <2>2, <3>1, TypeFacts, IndexerAssumption
      DEF CommitReplay, Ledger!Orphaned, IInv
    <3> QED
      BY <3>1, <3>2
  <2>3. UNCHANGED tables => Forgets(e)
    BY DEF tables
  <2>4. ASSUME NEW t \in Tasks,
               \/ SkipDuplicate(t) \/ OpenTransaction(t) \/ ReadCheckpoint(t)
               \/ LoadOrphaned(t) \/ Fail(t) \/ Begin(t)
        PROVE  UNCHANGED tables
    BY <2>4 DEF SkipDuplicate, OpenTransaction, ReadCheckpoint, LoadOrphaned, Fail, Begin,
       tables
  <2>5. ASSUME NEW t \in Tasks, NEW request, Submit(t, request)
        PROVE  UNCHANGED tables
    BY <2>5 DEF Submit
  <2>6. Crash \/ UNCHANGED vars => UNCHANGED tables
    BY DEF Crash, vars
  <2> QED
    BY <1>1, <2>1, <2>2, <2>3, <2>4, <2>5, <2>6
    DEF Next, TaskStep, ProcessEvent, ReplayFromBlock
<1>2. IInv /\ [Next]_vars => [\A e \in Events : Forgets(e)]_vars
  BY <1>1
<1> QED
  BY <1>2, IndexerInvariant, PTL DEF SafetySpec, OnlyRollbackForgets

\* Whoever is answered "done" by processEvent finds the event recorded and a
\* checkpoint, and by replayFromBlock nothing left at or above its start and the
\* checkpoint below it, at the moment of the answer.
THEOREM IndexerFulfilledMeansDone ==
    ASSUME Legacy = {}
    PROVE  SafetySpec => FulfilledMeansDone
<1> DEFINE Completed(t) ==
      IF op[t].kind = "process"
      THEN stored'[op[t].event] # None /\ checkpoint' # None
      ELSE /\ \A e \in Events : stored'[e] # None => stored'[e] < op[t].block
           /\ checkpoint' = Ledger!RewoundTo(op[t].block)
<1>1. ASSUME IInv, NEW t \in Tasks, SkipDuplicate(t) PROVE Completed(t)
  <2>1. op[t].kind = "process" /\ op[t].event \in Events /\ stored[op[t].event] # None
    BY <1>1, TypeFacts DEF SkipDuplicate, IInv, StageMatchesPhase, Requests
  <2>2. checkpoint # None
    BY <1>1, <2>1 DEF IInv, CheckpointCoversEvents
  <2>3. stored' = stored /\ checkpoint' = checkpoint
    BY <1>1 DEF SkipDuplicate, tables
  <2> QED
    BY <2>1, <2>2, <2>3
<1>2. ASSUME IInv, NEW t \in Tasks, NEW outcome \in {"fulfilled", "rejected"}, CommitEvent(t, outcome)
      PROVE  Completed(t)
  <2>1. op[t].kind = "process" /\ op[t].event \in Events /\ op[t].block \in Nat
    BY <1>2, TypeFacts, IndexerAssumption DEF CommitEvent, Finish, Settle, IInv, StageMatchesPhase, Requests
  <2>2. stored' = [stored EXCEPT ![op[t].event] = op[t].block] /\ stored \in [Events -> Blocks \cup {None}]
    BY <1>2 DEF CommitEvent, IInv, TypeOK
  <2>3. checkpoint' = Ledger!Greater(seen[t].last, op[t].block) /\ seen[t].last \in Nat
    BY <1>2 DEF CommitEvent, IInv, TypeOK
  <2>4. checkpoint' \in Nat
    BY <2>1, <2>3 DEF Ledger!Greater
  <2> QED
    BY <2>1, <2>2, <2>4, IndexerAssumption
<1>3. ASSUME IInv, NEW t \in Tasks, NEW outcome \in {"fulfilled", "rejected"}, CommitReplay(t, outcome)
      PROVE  Completed(t)
  <2>1. op[t].kind = "replay" /\ op[t].block \in Nat
    BY <1>3, CommitReplayRollsBack, IndexerAssumption DEF CommitReplay, Finish, Settle, IInv, StageMatchesPhase
  <2>2. checkpoint' = Ledger!RewoundTo(op[t].block)
    BY <1>3 DEF CommitReplay
  <2>3. ASSUME NEW e \in Events, stored'[e] # None PROVE stored'[e] < op[t].block
    <3>1. e \notin Ledger!Orphaned(op[t].block) /\ stored'[e] = stored[e]
      BY <1>3, <2>3 DEF CommitReplay
    <3>2. stored[e] \in Nat
      BY <1>3, <2>3, <3>1, IndexerAssumption DEF IInv, TypeOK
    <3> QED
      BY <2>1, <2>3, <3>1, <3>2 DEF Ledger!Orphaned
  <2> QED
    BY <2>1, <2>2, <2>3
<1>4. ASSUME IInv, [Next]_vars, NEW t \in Tasks, phase[t] = "running", phase'[t] = "fulfilled"
      PROVE  Completed(t)
  <2>1. phase \in [Tasks -> Phase]
    BY <1>4 DEF IInv, TypeOK, QueueTypeOK
  <2>2. ASSUME NEW u \in Tasks, NEW outcome \in {"fulfilled", "rejected"},
               CommitEvent(u, outcome) \/ CommitReplay(u, outcome)
        PROVE  Completed(t)
    <3>1. u = t
      BY <1>4, <2>1, <2>2 DEF CommitEvent, CommitReplay, Finish, Settle
    <3> QED
      BY <1>2, <1>3, <1>4, <2>2, <3>1
  <2>3. ASSUME NEW u \in Tasks, SkipDuplicate(u) PROVE Completed(t)
    <3>1. u = t
      BY <1>4, <2>1, <2>3 DEF SkipDuplicate, Finish, Settle
    <3> QED
      BY <1>1, <1>4, <2>3, <3>1
  <2>4. ASSUME NEW u \in Tasks, Fail(u) \/ OpenTransaction(u) \/ ReadCheckpoint(u) \/ LoadOrphaned(u) PROVE FALSE
    BY <1>4, <2>1, <2>4 DEF Fail, Finish, Settle, OpenTransaction, ReadCheckpoint, LoadOrphaned, queueVars
  <2>5. ASSUME NEW u \in Tasks, Begin(u) PROVE FALSE
    BY <1>4, <2>1, <2>5 DEF Begin, Start
  <2>6. ASSUME NEW u \in Tasks, NEW request, Submit(u, request) PROVE FALSE
    BY <1>4, <2>1, <2>6 DEF Submit, Enqueue
  <2>7. ~Crash
    BY <1>4, <2>1 DEF Crash, Restart
  <2>8. ~UNCHANGED vars
    BY <1>4 DEF vars, queueVars
  <2> QED
    BY <1>4, <2>2, <2>3, <2>4, <2>5, <2>6, <2>7, <2>8 DEF Next, TaskStep, ProcessEvent, ReplayFromBlock
<1>5. IInv /\ [Next]_vars
        => [\A t \in Tasks : phase[t] = "running" /\ phase'[t] = "fulfilled" => Completed(t)]_vars
  BY <1>4
<1> QED
  BY <1>5, IndexerInvariant, PTL DEF SafetySpec, FulfilledMeansDone

=============================================================================
