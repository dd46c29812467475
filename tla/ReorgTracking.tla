--------------------------- MODULE ReorgTracking ---------------------------
(***************************************************************************)
(* The in-memory view of the chain: BlockchainStateService (the blocks,    *)
(* the events and their counters), ReorgDetectorService,                   *)
(* ReconciliationService and the handler that drives them,                 *)
(* EventIndexingService.processBlock (src/src/blockchain).                 *)
(*                                                                         *)
(* The handler awaits nothing but promises that are already settled, so it *)
(* runs to its end before the next request is looked at: one block is one  *)
(* step.  A block stands for its hash, its number and parent are           *)
(* constants, and a block carries at most one event, named like the block. *)
(***************************************************************************)
EXTENDS Integers, Sequences, FiniteSets, SequencesExt, FiniteSetsExt

CONSTANTS Blocks,        \* the blocks of the tree that may be delivered
          Emitting,      \* those that carry an event
          Height, Parent, \* their numbers, and their parents' hashes
          NoBlock,       \* the hash of no block: the parent of the first ones
          Depths,        \* the confirmation depths an operator may set
          MaxBlocks, MaxEvents, MaxReorgs,   \* the service's memory limits
          MaxDeliveries  \* bound of the model: deliveries before it stops

ASSUME TreeAssumption ==
  /\ Height \in [Blocks -> Nat \ {0}] /\ Parent \in [Blocks -> Blocks \union {NoBlock}]
  /\ NoBlock \notin Blocks /\ Emitting \subseteq Blocks
  /\ \A b \in Blocks : Parent[b] # NoBlock => Height[b] = Height[Parent[b]] + 1
ASSUME LimitAssumption ==
  /\ Depths \subseteq Nat \ {0} /\ Depths # {} /\ {MaxBlocks, MaxEvents, MaxReorgs} \subseteq Nat \ {0}
  /\ MaxDeliveries \in Nat

VARIABLES
  blocks,     \* the Map of blocks, in insertion order: [block, canonical]
  events,     \* the Map of events: [status, confirmations, confirmedAt]
  pendingEventCount, orphanedEventCount,   \* the counters of chainState
  lastCanonicalHash,  \* chainState: the block processed last
  reorgHistory,       \* the depths of the reorgs on record
  confirmationDepth,
  deliveries, \* blocks delivered so far: the time of a confirmation
  linear      \* history: every block delivered has extended the one before it

vars == <<blocks, events, pendingEventCount, orphanedEventCount,
          lastCanonicalHash, reorgHistory, confirmationDepth, deliveries, linear>>

\* chainState.lastProcessedBlock, always assigned together with the hash.
lastProcessedBlock == IF lastCanonicalHash = NoBlock THEN 0 ELSE Height[lastCanonicalHash]

Status == {"pending", "confirmed", "orphaned"}
WithStatus(evs, s) == {e \in DOMAIN evs : evs[e].status = s}

-----------------------------------------------------------------------------
(* The block store. *)

Canonical(bs) == {bs[i].block : i \in {j \in DOMAIN bs : bs[j].canonical}}

\* getCanonicalBlock: the first inserted canonical block of a height.
CanonicalAt(bs, n) ==
  LET at == {i \in DOMAIN bs : bs[i].canonical /\ Height[bs[i].block] = n}
  IN IF at = {} THEN NoBlock ELSE bs[Min(at)].block

\* Map.set: a known block keeps its place and is canonical again.
Put(bs, b) ==
  LET at == {i \in DOMAIN bs : bs[i].block = b}
  IN IF at = {} THEN Append(bs, [block |-> b, canonical |-> TRUE])
     ELSE [bs EXCEPT ![Min(at)].canonical = TRUE]

\* evictOldBlocks: the lowest block leaves, the first inserted of several.
EvictOldBlocks(bs) ==
  LET lowest == Min({Height[bs[i].block] : i \in DOMAIN bs})
  IN IF Len(bs) <= MaxBlocks THEN bs
     ELSE RemoveAt(bs, Min({i \in DOMAIN bs : Height[bs[i].block] = lowest}))

SaveBlock(bs, b) == EvictOldBlocks(Put(bs, b))

MarkBlocksNonCanonical(bs, heights) ==
  [i \in DOMAIN bs |->
     [bs[i] EXCEPT !.canonical = @ /\ Height[bs[i].block] \notin heights]]

-----------------------------------------------------------------------------
(* The event store.                                                        *)

\* Fault: the eviction does not look at the status.
FaultEvictAny(evs) ==
  IF Cardinality(DOMAIN evs) <= MaxEvents THEN {{}}
  ELSE kSubset(Cardinality(DOMAIN evs) - MaxEvents, DOMAIN evs)

\* evictOldEvents: which confirmed events may leave, the longest confirmed
\* ones first; confirmations of the same step come in any order.
Evictable(evs) ==
  LET confirmed == WithStatus(evs, "confirmed")
      excess    == Cardinality(DOMAIN evs) - MaxEvents
  IN IF excess <= 0 THEN {{}}
     ELSE {out \in kSubset(Min({excess, Cardinality(confirmed)}), confirmed) :
             \A e \in out, k \in confirmed \ out :
                evs[e].confirmedAt <= evs[k].confirmedAt}

Indexed == [status |-> "pending", confirmations |-> 0, confirmedAt |-> 0]

\* Fault: the block itself counts as a confirmation.
FaultDeepTooSoon(e, head) == head - Height[e] + 1 >= confirmationDepth

\* Fault: one confirmation more than the depth is asked for.
FaultDeepTooLate(e, head) == Max({0, head - Height[e]}) > confirmationDepth

\* isEventConfirmed
Deep(e, head) == Max({0, head - Height[e]}) >= confirmationDepth

Confirmed(e, head) ==
  [status |-> "confirmed", confirmations |-> head - Height[e], confirmedAt |-> deliveries + 1]

\* A pending event that is deep enough is confirmed, the confirmations of the
\* others are brought up to date.
UpdateEventConfirmations(evs, head) ==
  [e \in DOMAIN evs |->
     IF evs[e].status # "pending" THEN evs[e]
     ELSE IF Deep(e, head) THEN Confirmed(e, head)
     ELSE [evs[e] EXCEPT !.confirmations = Max({0, head - Height[e]})]]

\* An orphaned event that is deep enough is confirmed.
ReconcileOrphanedEvents(evs, head) ==
  [e \in DOMAIN evs |->
     IF evs[e].status = "orphaned" /\ Deep(e, head) THEN Confirmed(e, head) ELSE evs[e]]

-----------------------------------------------------------------------------
(* The detector.                                                           *)

\* getAncestorHashAtDepth: the walk follows canonical blocks on record only,
\* and the block being processed is not on record yet (unless delivered before).
AncestorHash(bs, b) ==
  LET up[d \in 0 .. Height[b]] ==
        IF d = 0 THEN b
        ELSE IF up[d - 1] \in Canonical(bs) THEN Parent[up[d - 1]] ELSE NoBlock
  IN up

\* findDivergencePoint: the walk goes down while the canonical block differs
\* from b's parent, or is the expected ancestor; it stops at the first height
\* with no canonical block, or where the parent is not the expected ancestor
\* (its limit of 1000 steps lies beyond the heights of the model).
FindDivergencePoint(bs, b) ==
  Min({d \in 0 .. Height[b] :
         \/ d = Height[b]
         \/ CanonicalAt(bs, Height[b] - d) = NoBlock
         \/ CanonicalAt(bs, Height[b] - d) = Parent[b] /\ Parent[b] # AncestorHash(bs, b)[d]})

\* detectReorg
ReorgDetected(b) ==
  /\ lastProcessedBlock # 0
  /\ CanonicalAt(blocks, lastProcessedBlock) \notin {NoBlock, Parent[b]}

\* Fault: the roll-back does not ask whether there is a reorg.
FaultAffected(b) ==
  lastProcessedBlock - FindDivergencePoint(blocks, b) + 1 .. lastProcessedBlock

\* The heights handleReorg rolls back: affectedBlockStart .. affectedBlockEnd.
Affected(b) ==
  IF ReorgDetected(b)
  THEN lastProcessedBlock - FindDivergencePoint(blocks, b) + 1 .. lastProcessedBlock
  ELSE {}

-----------------------------------------------------------------------------
(* The operations.                                                         *)

Init ==
  /\ blocks = <<>> /\ events = <<>> /\ reorgHistory = <<>>
  /\ pendingEventCount = 0 /\ orphanedEventCount = 0
  /\ lastCanonicalHash = NoBlock
  /\ confirmationDepth \in Depths
  /\ deliveries = 0 /\ linear = TRUE

\* Fault: the old status is not looked at.
FaultNoLongerPending(evs, lost) == Cardinality(lost)

\* updateEventStatus: what an orphaned event that was pending takes from the
\* counter of the pending ones.
NoLongerPending(evs, lost) == Cardinality(lost \intersect WithStatus(evs, "pending"))

\* recordReorg, with trimReorgHistory
Remember(history, depth) ==
  LET longer == Append(history, depth)
  IN SubSeq(longer, Max({1, Len(longer) - MaxReorgs + 1}), Len(longer))

\* rollbackAffectedEvents
RollBack(evs, lost) ==
  [e \in DOMAIN evs |->
     IF e \in lost THEN [evs[e] EXCEPT !.status = "orphaned"] ELSE evs[e]]

\* indexEvent: the event is new again, whatever is on record under its id.
IndexEvents(evs, new) ==
  [e \in DOMAIN evs \union new |-> IF e \in new THEN Indexed ELSE evs[e]]

\* processBlock: roll back what the detector calls orphaned, save the block,
\* index its event, confirm what is deep enough, advance the chain state.
ProcessBlock(b) ==
  LET lost    == {e \in DOMAIN events : Height[e] \in Affected(b)}
      new     == {b} \intersect Emitting
      indexed == IndexEvents(RollBack(events, lost), new)
  IN /\ deliveries < MaxDeliveries
     /\ blocks' = SaveBlock(MarkBlocksNonCanonical(blocks, Affected(b)), b)
     /\ \E out \in IF new = {} THEN {{}} ELSE Evictable(indexed) :
          LET kept    == [e \in DOMAIN indexed \ out |-> indexed[e]]
              updated == UpdateEventConfirmations(kept, Height[b])
          IN /\ events' = ReconcileOrphanedEvents(updated, Height[b])
             /\ pendingEventCount' =
                  pendingEventCount - NoLongerPending(events, lost) + Cardinality(new)
                    - Cardinality(WithStatus(kept, "pending") \ WithStatus(updated, "pending"))
     /\ orphanedEventCount' = orphanedEventCount + Cardinality(lost)
     /\ reorgHistory' = IF ReorgDetected(b)
                        THEN Remember(reorgHistory, FindDivergencePoint(blocks, b))
                        ELSE reorgHistory
     /\ lastCanonicalHash' = b
     /\ deliveries' = deliveries + 1
     /\ linear' = (linear /\ lastCanonicalHash \in {NoBlock, Parent[b]})
     /\ UNCHANGED confirmationDepth

\* clearAllState
ClearAllState ==
  /\ lastCanonicalHash # NoBlock
  /\ blocks' = <<>> /\ events' = <<>> /\ reorgHistory' = <<>>
  /\ pendingEventCount' = 0 /\ orphanedEventCount' = 0
  /\ lastCanonicalHash' = NoBlock /\ linear' = TRUE
  /\ UNCHANGED <<confirmationDepth, deliveries>>

\* deleteEvents
DeleteEvents(gone) ==
  /\ gone # {} /\ gone \subseteq DOMAIN events
  /\ events' = [e \in DOMAIN events \ gone |-> events[e]]
  /\ pendingEventCount' = pendingEventCount - NoLongerPending(events, gone)
  /\ orphanedEventCount' =
       orphanedEventCount - Cardinality(gone \intersect WithStatus(events, "orphaned"))
  /\ UNCHANGED <<blocks, reorgHistory, lastCanonicalHash, confirmationDepth, deliveries, linear>>

\* setConfirmationDepth
SetConfirmationDepth(depth) ==
  /\ confirmationDepth # depth /\ confirmationDepth' = depth
  /\ UNCHANGED <<blocks, events, pendingEventCount, orphanedEventCount,
                 lastCanonicalHash, reorgHistory, deliveries, linear>>

Next ==
  \/ \E b \in Blocks : ProcessBlock(b)
  \/ ClearAllState
  \/ \E gone \in SUBSET DOMAIN events : DeleteEvents(gone)
  \/ \E depth \in Depths : SetConfirmationDepth(depth)

Spec == Init /\ [][Next]_vars

-----------------------------------------------------------------------------
(* What holds whatever is delivered.                                       *)

\* The state is well typed, the block store and the reorg history respect
\* their limits, and no block is on record twice.
TypeOK ==
  /\ blocks \in Seq([block : Blocks, canonical : BOOLEAN])
  /\ Len(blocks) <= MaxBlocks
  /\ \A i, j \in DOMAIN blocks : blocks[i].block = blocks[j].block => i = j
  /\ DOMAIN events \subseteq Emitting
  /\ \A e \in DOMAIN events :
       events[e] \in [status : Status, confirmations : Nat, confirmedAt : 0 .. deliveries]
  /\ {pendingEventCount, orphanedEventCount} \subseteq Nat
  /\ lastCanonicalHash \in Blocks \union {NoBlock}
  /\ reorgHistory \in Seq(Nat) /\ Len(reorgHistory) <= MaxReorgs
  /\ confirmationDepth \in Depths /\ deliveries \in 0 .. MaxDeliveries

\* Whatever forks, repeats and deletions do, the counters of chainState never
\* report fewer pending or orphaned events than there are.
CountersCover ==
  /\ Cardinality(WithStatus(events, "pending")) <= pendingEventCount
  /\ Cardinality(WithStatus(events, "orphaned")) <= orphanedEventCount

\* While every delivered block extends the last one, the counters are exact:
\* what GET state/verify looks for never happens.
CountersExact ==
  linear => /\ pendingEventCount = Cardinality(WithStatus(events, "pending"))
            /\ orphanedEventCount = Cardinality(WithStatus(events, "orphaned"))

\* No reorg is reported on such a chain, whatever was evicted.
NoFalseReorg == linear => reorgHistory = <<>> /\ WithStatus(events, "orphaned") = {}

\* What every state of the chain view keeps.
Inv == TypeOK /\ CountersCover /\ CountersExact /\ NoFalseReorg

\* Processing a block never loses an event that is still to be settled: only a
\* confirmed event makes room when memory is short (evictOldEvents).
UnsettledIsKept ==
  [][\A e \in DOMAIN events :
       events[e].status # "confirmed" /\ deliveries' > deliveries => e \in DOMAIN events']_vars

\* An event becomes confirmed only under a head that is as deep as the
\* confirmation depth of that moment (updateEventConfirmations).
ConfirmedWhenDeep ==
  [][\A e \in DOMAIN events' :
       /\ events'[e].status = "confirmed"
       /\ e \in DOMAIN events => events[e].status # "confirmed"
       => Height[lastCanonicalHash'] - Height[e] >= confirmationDepth]_vars

\* A confirmed event goes back to another status only in a step that puts a
\* reorg on record or delivers the event's own block again.
SettledUnlessReorg ==
  [][\A e \in DOMAIN events \intersect DOMAIN events' :
       events[e].status = "confirmed" /\ events'[e].status # "confirmed"
       => e = lastCanonicalHash' \/ ReorgDetected(lastCanonicalHash')]_vars

\* Everything deep enough is confirmed as soon as a block is processed: the
\* confirmation pass leaves nothing behind.
NothingDeepIsPending ==
  [][deliveries' > deliveries =>
       \A e \in DOMAIN events' :
         events'[e].status = "pending" => Height[lastCanonicalHash'] - Height[e] < confirmationDepth]_vars

-----------------------------------------------------------------------------
(* What the comments promise and the code does not keep.                   *)

\* reconcileOrphanedEvents: an orphaned event is confirmed only once its block
\* is canonical again.
ReconciledIsCanonical ==
  [][\A e \in DOMAIN events \intersect DOMAIN events' :
       events[e].status = "orphaned" /\ events'[e].status = "confirmed"
       => e \in Canonical(blocks')]_vars

ReorgReported ==
  /\ deliveries' > deliveries /\ ReorgDetected(lastCanonicalHash')
  /\ lastCanonicalHash' \notin Canonical(blocks)
Gapless ==
  \A c \in Canonical(blocks) \union {lastCanonicalHash'} :
    Parent[c] \in Canonical(blocks) \union {NoBlock}

\* findDivergencePoint: handling a reorg leaves no block canonical above the
\* point where the branch of the new block leaves a recorded chain without gaps.
ReorgReachesFork ==
  [][ReorgReported /\ Gapless =>
       \A c \in Canonical(blocks') :
         Height[c] >= Height[lastCanonicalHash'] => c = lastCanonicalHash']_vars

=============================================================================
