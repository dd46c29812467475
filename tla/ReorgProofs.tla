---------------------------- MODULE ReorgProofs ----------------------------
(***************************************************************************)
(* Proofs about ReorgTracking for any tree of blocks, any limits and any   *)
(* number of deliveries.                                                   *)
(***************************************************************************)
EXTENDS ReorgTracking, FiniteSetTheorems, SequenceTheorems, WellFoundedInduction, TLAPS

\* As long as every block extends the one before it, whatever is on record is
\* the block processed last or lies below it: the detector compares that block
\* with itself, and a delivered event is new.
Below(b) == b = lastCanonicalHash \/ Height[b] < Height[lastCanonicalHash]

HeadOnTop ==
  /\ lastCanonicalHash = NoBlock => blocks = <<>> /\ events = <<>>
  /\ linear => /\ \A i \in DOMAIN blocks : Below(blocks[i].block)
               /\ \A e \in DOMAIN events : Below(e)

ReorgInv == Inv /\ IsFiniteSet(DOMAIN events) /\ HeadOnTop

-----------------------------------------------------------------------------
(* The operators.                                                          *)

\* A set of naturals that has a member has a smallest one, and Min finds it.
LEMMA MinIsSmallest ==
  ASSUME NEW T \in SUBSET Nat, T # {}
  PROVE  Min(T) \in T /\ \A y \in T : Min(T) <= y
<1>1. PICK m \in T : \A y \in T : ~ (<<y, m>> \in OpToRel(<, Nat))
  BY NatLessThanWellFounded, WFMin
<1>2. ASSUME NEW y \in T PROVE m <= y
  <2>1. ~ (y < m)
    BY <1>1 DEF OpToRel
  <2> QED
    BY <2>1
<1> QED
  BY <1>2 DEF Min

\* How far a head is above an event, and not less than 0.
LEMMA MaxOfZero ==
  ASSUME NEW n \in Int
  PROVE  Max({0, n}) = IF n > 0 THEN n ELSE 0
<1> DEFINE top == IF n > 0 THEN n ELSE 0
<1>1. top \in {0, n} /\ \A y \in {0, n} : top >= y
  OBVIOUS
<1>2. ASSUME NEW x \in {0, n}, \A y \in {0, n} : x >= y PROVE x = top
  BY <1>2
<1> QED
  BY <1>1, <1>2 DEF Max

LEMMA Heights == \A b \in Blocks : Height[b] \in Nat /\ Height[b] > 0
BY TreeAssumption

\* An event is deep when its block is so far below the head.
LEMMA DeepMeansFarBelow ==
  ASSUME confirmationDepth \in Depths, NEW e \in Blocks, NEW head \in Nat
  PROVE  /\ confirmationDepth \in Nat /\ confirmationDepth > 0
         /\ Deep(e, head) <=> head - Height[e] >= confirmationDepth
<1>1. Max({0, head - Height[e]}) = IF head - Height[e] > 0 THEN head - Height[e] ELSE 0
  BY Heights, MaxOfZero
<1>2. confirmationDepth \in Nat /\ confirmationDepth > 0
  BY LimitAssumption
<1> QED
  BY <1>1, <1>2, Heights DEF Deep

\* Removing one entry keeps the others in their order.
LEMMA RemoveAtProperties ==
  ASSUME NEW S, NEW s \in Seq(S), NEW i \in DOMAIN s
  PROVE  /\ RemoveAt(s, i) \in Seq(S) /\ Len(RemoveAt(s, i)) = Len(s) - 1
         /\ \A j \in 1 .. Len(s) - 1 : RemoveAt(s, i)[j] = IF j < i THEN s[j] ELSE s[j + 1]
<1>1. i \in 1 .. Len(s) /\ Len(s) \in Nat
  OBVIOUS
<1> DEFINE front == SubSeq(s, 1, i - 1)
           rear == SubSeq(s, i + 1, Len(s))
<1>2. front \in Seq(S) /\ Len(front) = i - 1 /\ \A j \in 1 .. i - 1 : front[j] = s[j]
  <2>1. \A j \in 1 .. i - 1 : s[j] \in S
    BY <1>1
  <2>2. /\ SubSeq(s, 1, i - 1) \in Seq(S)
        /\ Len(SubSeq(s, 1, i - 1)) = IF 1 <= i - 1 THEN i - 1 - 1 + 1 ELSE 0
        /\ \A j \in 1 .. i - 1 - 1 + 1 : SubSeq(s, 1, i - 1)[j] = s[1 + j - 1]
    BY <1>1, <2>1, SubSeqProperties
  <2> QED
    BY <1>1, <2>2
<1>3. rear \in Seq(S) /\ Len(rear) = Len(s) - i /\ \A j \in 1 .. Len(s) - i : rear[j] = s[j + i]
  <2>1. \A j \in i + 1 .. Len(s) : s[j] \in S
    BY <1>1
  <2>2. /\ SubSeq(s, i + 1, Len(s)) \in Seq(S)
        /\ Len(SubSeq(s, i + 1, Len(s))) = IF i + 1 <= Len(s) THEN Len(s) - (i + 1) + 1 ELSE 0
        /\ \A j \in 1 .. Len(s) - (i + 1) + 1 : SubSeq(s, i + 1, Len(s))[j] = s[i + 1 + j - 1]
    BY <1>1, <2>1, SubSeqProperties
  <2> QED
    BY <1>1, <2>2
<1> HIDE DEF front, rear
<1> DEFINE both == front \o rear
<1>4. /\ both \in Seq(S) /\ Len(both) = Len(front) + Len(rear)
      /\ \A j \in 1 .. Len(front) + Len(rear) :
           both[j] = IF j <= Len(front) THEN front[j] ELSE rear[j - Len(front)]
  BY <1>2, <1>3, ConcatProperties
<1> HIDE DEF both
<1>5. RemoveAt(s, i) = both
  BY DEF RemoveAt, front, rear, both
<1>6. \A j \in 1 .. Len(s) - 1 : both[j] = IF j < i THEN s[j] ELSE s[j + 1]
  <2> SUFFICES ASSUME NEW j \in 1 .. Len(s) - 1 PROVE both[j] = IF j < i THEN s[j] ELSE s[j + 1]
    OBVIOUS
  <2>0. Len(front) = i - 1 /\ Len(rear) = Len(s) - i
    BY <1>2, <1>3
  <2> j \in 1 .. Len(front) + Len(rear)
    BY <1>1, <2>0
  <2>3. both[j] = IF j <= Len(front) THEN front[j] ELSE rear[j - Len(front)]
    BY <1>4
  <2>1. CASE j < i
    <3>1. j \in 1 .. i - 1 /\ j <= Len(front)
      BY <1>1, <2>0, <2>1
    <3> QED
      BY <1>2, <2>3, <3>1
  <2>2. CASE ~ (j < i)
    <3>1. j - Len(front) \in 1 .. Len(s) - i /\ (j - Len(front)) + i = j + 1
      <4>1. j - (i - 1) \in 1 .. Len(s) - i /\ (j - (i - 1)) + i = j + 1
        BY <1>1, <2>2
      <4> QED
        BY <2>0, <4>1
    <3>2. ~ (j <= Len(front))
      BY <1>1, <2>0, <2>2
    <3>3. both[j] = rear[j - Len(front)]
      BY <2>3, <3>2
    <3>4. \A k \in 1 .. Len(s) - i : rear[k] = s[k + i]
      BY <1>3
    <3>5. rear[j - Len(front)] = s[(j - Len(front)) + i]
      BY <3>1, <3>4
    <3> QED
      BY <2>2, <3>1, <3>3, <3>5
  <2> QED
    BY <2>1, <2>2
<1>7. Len(both) = Len(s) - 1
  BY <1>1, <1>2, <1>3, <1>4
<1> QED
  BY <1>4, <1>5, <1>6, <1>7

-----------------------------------------------------------------------------
(* The block store.                                                        *)

Entries == [block : Blocks, canonical : BOOLEAN]

\* What TypeOK asks of the blocks on record, but for the limit.
Store(limit) ==
  {s \in Seq(Entries) :
     Len(s) <= limit /\ \A i, j \in DOMAIN s : s[i].block = s[j].block => i = j}
On(s) == {s[i].block : i \in DOMAIN s}

LEMMA FunctionIsSequence ==
  ASSUME NEW S, NEW n \in Nat, NEW f \in [1 .. n -> S]
  PROVE  f \in Seq(S) /\ Len(f) = n
OBVIOUS

LEMMA StoreFacts ==
  ASSUME NEW limit, NEW s \in Store(limit)
  PROVE  /\ s \in Seq(Entries) /\ Len(s) \in Nat /\ Len(s) <= limit
         /\ DOMAIN s = 1 .. Len(s) /\ s \in [1 .. Len(s) -> Entries] /\ DOMAIN s \in SUBSET Nat
         /\ \A i \in DOMAIN s : s[i] \in Entries /\ s[i].block \in Blocks
         /\ \A i, j \in DOMAIN s : s[i].block = s[j].block => i = j
<1>1. s \in Seq(Entries) /\ Len(s) <= limit /\ \A i, j \in DOMAIN s : s[i].block = s[j].block => i = j
  BY DEF Store
<1>2. Len(s) \in Nat /\ DOMAIN s = 1 .. Len(s) /\ \A i \in 1 .. Len(s) : s[i] \in Entries
  BY <1>1
<1>3. s \in [1 .. Len(s) -> Entries]
  BY <1>1
<1>4. \A i \in DOMAIN s : s[i].block \in Blocks
  BY <1>2 DEF Entries
<1> QED
  BY <1>1, <1>2, <1>3, <1>4

LEMMA InStore ==
  ASSUME NEW limit, NEW s \in Seq(Entries), Len(s) <= limit,
         \A i, j \in DOMAIN s : s[i].block = s[j].block => i = j
  PROVE  s \in Store(limit)
BY DEF Store

LEMMA PutKeepsStore ==
  ASSUME NEW s \in Store(MaxBlocks), NEW b \in Blocks
  PROVE  Put(s, b) \in Store(MaxBlocks + 1) /\ On(Put(s, b)) \subseteq On(s) \union {b}
<1> DEFINE at == {i \in DOMAIN s : s[i].block = b}
           new == [block |-> b, canonical |-> TRUE]
<1>1. MaxBlocks \in Nat /\ new \in Entries /\ new.block = b
  BY LimitAssumption DEF Entries
<1> HIDE DEF new
<1>2. CASE at = {}
  <2>1. Put(s, b) = Append(s, new)
    BY <1>2 DEF Put, new
  <2>2. /\ Append(s, new) \in Seq(Entries) /\ Len(Append(s, new)) = Len(s) + 1
        /\ DOMAIN Append(s, new) = 1 .. Len(s) + 1
        /\ \A i \in 1 .. Len(s) + 1 : Append(s, new)[i] = IF i = Len(s) + 1 THEN new ELSE s[i]
    BY <1>1, StoreFacts
  <2>3. \A i, j \in 1 .. Len(s) + 1 : Append(s, new)[i].block = Append(s, new)[j].block => i = j
    BY <1>1, <1>2, <2>2, StoreFacts
  <2>4. Append(s, new) \in Store(MaxBlocks + 1)
    <3>1. Len(Append(s, new)) <= MaxBlocks + 1
      BY <1>1, <2>2, StoreFacts
    <3> QED
      BY <2>2, <2>3, <3>1, InStore
  <2>5. On(Append(s, new)) \subseteq On(s) \union {b}
    BY <1>1, <2>2, StoreFacts DEF On
  <2> QED
    BY <2>1, <2>4, <2>5
<1>3. CASE at # {}
  <2>1. Min(at) \in DOMAIN s
    BY <1>3, StoreFacts, MinIsSmallest
  <2>2. PICK m \in DOMAIN s : m = Min(at)
    BY <2>1
  <2>3. Put(s, b) = [s EXCEPT ![m].canonical = TRUE]
    BY <1>3, <2>2 DEF Put
  <2>4. [s[m] EXCEPT !.canonical = TRUE] \in Entries /\ [s[m] EXCEPT !.canonical = TRUE].block = s[m].block
    BY StoreFacts DEF Entries
  <2>5. /\ Put(s, b) = [s EXCEPT ![m] = [s[m] EXCEPT !.canonical = TRUE]]
        /\ Put(s, b) \in [1 .. Len(s) -> Entries]
    BY <2>3, <2>4, StoreFacts
  <2>6. Put(s, b) \in Seq(Entries) /\ Len(Put(s, b)) = Len(s) /\ DOMAIN Put(s, b) = DOMAIN s
    BY <2>5, StoreFacts, FunctionIsSequence
  <2>7. \A i \in DOMAIN s : Put(s, b)[i].block = s[i].block
    BY <2>4, <2>5, StoreFacts
  <2>8. Put(s, b) \in Store(MaxBlocks + 1)
    <3>1. Len(Put(s, b)) <= MaxBlocks + 1
      BY <1>1, <2>6, StoreFacts
    <3>2. \A i, j \in DOMAIN Put(s, b) : Put(s, b)[i].block = Put(s, b)[j].block => i = j
      BY <2>6, <2>7, StoreFacts
    <3> QED
      BY <2>6, <3>1, <3>2, InStore
  <2> QED
    BY <2>6, <2>7, <2>8 DEF On
<1> QED
  BY <1>2, <1>3

LEMMA EvictKeepsStore ==
  ASSUME NEW s \in Store(MaxBlocks + 1)
  PROVE  EvictOldBlocks(s) \in Store(MaxBlocks) /\ On(EvictOldBlocks(s)) \subseteq On(s)
<1>1. MaxBlocks \in Nat /\ MaxBlocks > 0 /\ Len(s) \in Nat /\ Len(s) <= MaxBlocks + 1
  BY LimitAssumption, StoreFacts
<1>2. CASE Len(s) <= MaxBlocks
  BY <1>2, StoreFacts, InStore DEF EvictOldBlocks
<1>3. CASE ~ (Len(s) <= MaxBlocks)
  <2> DEFINE heights == {Height[s[i].block] : i \in DOMAIN s}
             lowest == {i \in DOMAIN s : Height[s[i].block] = Min(heights)}
  <2>1. \A i \in DOMAIN s : s[i].block \in Blocks
    BY StoreFacts
  <2>2. Min(heights) \in heights
    <3>1. heights \in SUBSET Nat
      BY <2>1, Heights
    <3>2. heights # {}
      <4>1. 1 \in DOMAIN s
        BY <1>1, <1>3, StoreFacts
      <4> QED
        BY <4>1
    <3> QED
      BY <3>1, <3>2, MinIsSmallest
  <2>3. Min(lowest) \in lowest
    <3>1. lowest \in SUBSET Nat
      BY StoreFacts
    <3>2. lowest # {}
      BY <2>2
    <3> QED
      BY <3>1, <3>2, MinIsSmallest
  <2>4. PICK m \in DOMAIN s : m = Min(lowest)
    BY <2>3
  <2>5. EvictOldBlocks(s) = RemoveAt(s, m)
    BY <1>3, <2>4 DEF EvictOldBlocks
  <2> HIDE DEF heights, lowest
  <2>6. /\ RemoveAt(s, m) \in Seq(Entries) /\ Len(RemoveAt(s, m)) = Len(s) - 1
        /\ \A j \in 1 .. Len(s) - 1 : RemoveAt(s, m)[j] = IF j < m THEN s[j] ELSE s[j + 1]
    BY StoreFacts, RemoveAtProperties
  <2> DEFINE r == RemoveAt(s, m)
             from(j) == IF j < m THEN j ELSE j + 1
  <2>7. DOMAIN r = 1 .. Len(s) - 1 /\ DOMAIN s = 1 .. Len(s) /\ m \in 1 .. Len(s)
    BY <2>6, StoreFacts
  <2>8. \A j \in DOMAIN r : from(j) \in DOMAIN s /\ r[j] = s[from(j)]
    BY <1>1, <2>6, <2>7
  <2>9. \A i, j \in DOMAIN r : from(i) = from(j) => i = j
    BY <1>1, <2>7
  <2> HIDE DEF r, from
  <2>10. \A i, j \in DOMAIN r : r[i].block = r[j].block => i = j
    BY <2>8, <2>9, StoreFacts
  <2>11. On(r) \subseteq On(s)
    BY <2>8 DEF On
  <2> QED
    BY <1>1, <2>5, <2>6, <2>10, <2>11, InStore DEF r
<1> QED
  BY <1>2, <1>3

\* What is saved is on record, or makes room for nothing new.
LEMMA SaveKeepsStore ==
  ASSUME NEW s \in Store(MaxBlocks), NEW b \in Blocks, NEW heights
  PROVE  /\ SaveBlock(MarkBlocksNonCanonical(s, heights), b) \in Store(MaxBlocks)
         /\ On(SaveBlock(MarkBlocksNonCanonical(s, heights), b)) \subseteq On(s) \union {b}
<1> DEFINE t == MarkBlocksNonCanonical(s, heights)
<1> DEFINE Off(i) == [s[i] EXCEPT !.canonical = @ /\ Height[s[i].block] \notin heights]
<1>1. \A i \in DOMAIN s : Off(i) \in Entries /\ Off(i).block = s[i].block
  <2> SUFFICES ASSUME NEW i \in DOMAIN s, NEW c \in BOOLEAN
               PROVE  [s[i] EXCEPT !.canonical = c] \in Entries /\ [s[i] EXCEPT !.canonical = c].block = s[i].block
    BY Zenon
  <2> QED
    BY StoreFacts DEF Entries
<1>2. t \in Store(MaxBlocks) /\ On(t) = On(s)
  <2>1. t \in [1 .. Len(s) -> Entries] /\ \A i \in DOMAIN s : t[i].block = s[i].block
    BY <1>1, StoreFacts DEF MarkBlocksNonCanonical
  <2> HIDE DEF t
  <2>2. t \in Seq(Entries) /\ Len(t) = Len(s) /\ DOMAIN t = DOMAIN s
    BY <2>1, StoreFacts, FunctionIsSequence
  <2>3. t \in Store(MaxBlocks)
    BY <2>1, <2>2, StoreFacts, InStore
  <2> QED
    BY <2>1, <2>2, <2>3 DEF On
<1> HIDE DEF t
<1> QED
  BY <1>2, PutKeepsStore, EvictKeepsStore DEF SaveBlock, t

-----------------------------------------------------------------------------
(* What a delivered block does to the events.                              *)

Lost(b) == {e \in DOMAIN events : Height[e] \in Affected(b)}
New(b)  == {b} \intersect Emitting
Pending == WithStatus(events, "pending")

\* The status of an event once b has rolled back and indexed, and once it has
\* been confirmed or not.
Arriving(e, b) == IF e \in New(b) THEN "pending" ELSE IF e \in Lost(b) THEN "orphaned" ELSE events[e].status
Leaving(e, b) ==
  IF Arriving(e, b) \in {"pending", "orphaned"} /\ Deep(e, Height[b]) THEN "confirmed" ELSE Arriving(e, b)

Records(d) == [status : Status, confirmations : Nat, confirmedAt : 0 .. d]

\* Those that leave memory were confirmed; whoever stays has its new status.
LEMMA EventsAfterBlock ==
  ASSUME ReorgInv, NEW b \in Blocks, ProcessBlock(b)
  PROVE  \E out \in SUBSET (DOMAIN events \union New(b)) :
           /\ \A e \in out : Arriving(e, b) = "confirmed"
           /\ DOMAIN events' = (DOMAIN events \union New(b)) \ out
           /\ \A e \in DOMAIN events' : events'[e] \in Records(deliveries + 1) /\ events'[e].status = Leaving(e, b)
           /\ pendingEventCount' =
                pendingEventCount - Cardinality(Lost(b) \intersect Pending) + Cardinality(New(b))
                  - Cardinality({e \in DOMAIN events \union New(b) : Arriving(e, b) = "pending" /\ Deep(e, Height[b])})
<1> DEFINE H == Height[b]
           rolled == RollBack(events, Lost(b))
           indexed == IndexEvents(rolled, New(b))
<1>1. /\ H \in Nat /\ deliveries \in Nat /\ DOMAIN events \subseteq Blocks /\ New(b) \subseteq Blocks
      /\ \A e \in DOMAIN events : events[e] \in Records(deliveries)
      /\ confirmationDepth \in Depths
  BY TreeAssumption, Heights, LimitAssumption DEF ReorgInv, Inv, TypeOK, Records, New
<1>2. PICK out \in IF New(b) = {} THEN {{}} ELSE Evictable(indexed) :
        LET kept    == [e \in DOMAIN indexed \ out |-> indexed[e]]
            updated == UpdateEventConfirmations(kept, H)
        IN /\ events' = ReconcileOrphanedEvents(updated, H)
           /\ pendingEventCount' =
                pendingEventCount - NoLongerPending(events, Lost(b)) + Cardinality(New(b))
                  - Cardinality(WithStatus(kept, "pending") \ WithStatus(updated, "pending"))
  BY DEF ProcessBlock, Lost, New
<1>3. /\ DOMAIN indexed = DOMAIN events \union New(b)
      /\ \A e \in DOMAIN indexed : indexed[e] \in Records(deliveries) /\ indexed[e].status = Arriving(e, b)
  <2>1. /\ DOMAIN rolled = DOMAIN events
        /\ \A e \in DOMAIN events :
             /\ rolled[e] \in Records(deliveries)
             /\ rolled[e].status = IF e \in Lost(b) THEN "orphaned" ELSE events[e].status
    BY <1>1 DEF RollBack, Records, Status
  <2> HIDE DEF rolled
  <2>2. Indexed \in Records(deliveries) /\ Indexed.status = "pending"
    BY <1>1 DEF Indexed, Records, Status
  <2> QED
    BY <2>1, <2>2 DEF IndexEvents, Arriving
<1>4. out \subseteq DOMAIN indexed /\ \A e \in out : indexed[e].status = "confirmed"
  BY <1>2 DEF Evictable, kSubset, WithStatus
<1> HIDE DEF rolled, indexed
<1> DEFINE kept == [e \in DOMAIN indexed \ out |-> indexed[e]]
           updated == UpdateEventConfirmations(kept, H)
<1>5. ASSUME NEW e \in DOMAIN kept, Deep(e, H)
      PROVE  Confirmed(e, H) \in Records(deliveries + 1) /\ Confirmed(e, H).status = "confirmed"
  <2>1. H - Height[e] \in Nat
    BY <1>1, <1>3, <1>5, DeepMeansFarBelow, Heights
  <2> QED
    BY <1>1, <2>1 DEF Confirmed, Records, Status
<1>6. /\ DOMAIN updated = DOMAIN kept
      /\ \A e \in DOMAIN kept :
           /\ updated[e] \in Records(deliveries + 1)
           /\ updated[e].status = IF Arriving(e, b) = "pending" /\ Deep(e, H) THEN "confirmed" ELSE Arriving(e, b)
  <2> SUFFICES ASSUME NEW e \in DOMAIN kept
               PROVE  /\ updated[e] \in Records(deliveries + 1)
                      /\ updated[e].status = IF Arriving(e, b) = "pending" /\ Deep(e, H) THEN "confirmed"
                                             ELSE Arriving(e, b)
    BY DEF UpdateEventConfirmations
  <2>1. kept[e] \in Records(deliveries) /\ kept[e].status = Arriving(e, b) /\ kept[e] \in Records(deliveries + 1)
    BY <1>1, <1>3 DEF Records
  <2>2. Max({0, H - Height[e]}) \in Nat
    BY <1>1, <1>3, Heights, MaxOfZero
  <2>3. [kept[e] EXCEPT !.confirmations = Max({0, H - Height[e]})] \in Records(deliveries + 1)
    BY <2>1, <2>2 DEF Records
  <2>4. [kept[e] EXCEPT !.confirmations = Max({0, H - Height[e]})].status = kept[e].status
    BY <2>1 DEF Records
  <2>5. updated[e] = IF kept[e].status # "pending" THEN kept[e]
                     ELSE IF Deep(e, H) THEN Confirmed(e, H)
                     ELSE [kept[e] EXCEPT !.confirmations = Max({0, H - Height[e]})]
    BY DEF UpdateEventConfirmations
  <2> HIDE DEF kept, updated
  <2> QED
    BY <1>5, <2>1, <2>3, <2>4, <2>5
<1>7. DOMAIN events' = DOMAIN kept /\ DOMAIN kept = DOMAIN indexed \ out
  BY <1>2, <1>6 DEF ReconcileOrphanedEvents
<1>8. ASSUME NEW e \in DOMAIN kept
      PROVE  events'[e] \in Records(deliveries + 1) /\ events'[e].status = Leaving(e, b)
  <2>1. events'[e] = IF updated[e].status = "orphaned" /\ Deep(e, H) THEN Confirmed(e, H) ELSE updated[e]
    BY <1>2, <1>6 DEF ReconcileOrphanedEvents
  <2> HIDE DEF kept, updated
  <2> QED
    BY <1>5, <1>6, <2>1 DEF Leaving
<1>9. WithStatus(kept, "pending") \ WithStatus(updated, "pending") =
        {e \in DOMAIN events \union New(b) : Arriving(e, b) = "pending" /\ Deep(e, H)}
  <2>1. \A e \in DOMAIN kept : kept[e].status = Arriving(e, b)
    BY <1>3
  <2>2. \A e \in DOMAIN indexed : Arriving(e, b) = "pending" => e \in DOMAIN kept
    BY <1>3, <1>4
  <2>3. DOMAIN kept \subseteq DOMAIN indexed
    OBVIOUS
  <2> HIDE DEF kept, updated
  <2> QED
    BY <1>3, <1>6, <2>1, <2>2, <2>3 DEF WithStatus
<1>10. NoLongerPending(events, Lost(b)) = Cardinality(Lost(b) \intersect Pending)
  BY DEF NoLongerPending, Pending
<1>11. pendingEventCount' = pendingEventCount - NoLongerPending(events, Lost(b)) + Cardinality(New(b))
                              - Cardinality(WithStatus(kept, "pending") \ WithStatus(updated, "pending"))
  BY <1>2
<1> HIDE DEF kept, updated
<1> out \in SUBSET (DOMAIN events \union New(b))
  BY <1>3, <1>4
<1> WITNESS out \in SUBSET (DOMAIN events \union New(b))
<1> QED
  BY <1>3, <1>4, <1>7, <1>8, <1>9, <1>10, <1>11

-----------------------------------------------------------------------------
(* The steps.                                                              *)

LEMMA InitEstablishesInv == Init => ReorgInv
<1> SUFFICES ASSUME Init PROVE ReorgInv
  OBVIOUS
<1>1. MaxBlocks \in Nat /\ MaxReorgs \in Nat /\ MaxDeliveries \in Nat
  BY LimitAssumption
<1>2. DOMAIN events = {} /\ WithStatus(events, "pending") = {} /\ WithStatus(events, "orphaned") = {}
  BY DEF Init, WithStatus
<1>3. IsFiniteSet({}) /\ Cardinality({}) = 0
  BY FS_EmptySet
<1>4. TypeOK
  <2>1. blocks = <<>> /\ blocks \in Seq([block : Blocks, canonical : BOOLEAN]) /\ Len(blocks) = 0 /\ DOMAIN blocks = {}
    BY DEF Init
  <2>2. reorgHistory \in Seq(Nat) /\ Len(reorgHistory) = 0
    BY DEF Init
  <2> QED
    BY <1>1, <1>2, <2>1, <2>2 DEF Init, TypeOK
<1>5. CountersCover /\ CountersExact /\ NoFalseReorg
  BY <1>2, <1>3 DEF Init, CountersCover, CountersExact, NoFalseReorg
<1>6. HeadOnTop
  <2>1. DOMAIN blocks = {}
    BY DEF Init
  <2> QED
    BY <1>2, <2>1 DEF Init, HeadOnTop
<1> QED
  BY <1>2, <1>3, <1>4, <1>5, <1>6 DEF ReorgInv, Inv

\* A block that extends the last one is above everything on record, and no
\* reorg is seen.
LEMMA ExtendingIsNoReorg ==
  ASSUME ReorgInv, NEW b \in Blocks, linear, lastCanonicalHash \in {NoBlock, Parent[b]}
  PROVE  /\ ~ ReorgDetected(b) /\ Lost(b) = {} /\ b \notin DOMAIN events
         /\ \A i \in DOMAIN blocks : blocks[i].block = b \/ Height[blocks[i].block] < Height[b]
         /\ \A e \in DOMAIN events : Height[e] < Height[b]
<1>1. CASE lastCanonicalHash = NoBlock
  <2>1. blocks = <<>> /\ events = <<>> /\ lastProcessedBlock = 0
    BY <1>1 DEF ReorgInv, HeadOnTop, lastProcessedBlock
  <2>2. DOMAIN events = {} /\ DOMAIN blocks = {}
    BY <2>1
  <2> QED
    BY <2>1, <2>2 DEF ReorgDetected, Lost
<1>2. CASE lastCanonicalHash # NoBlock
  <2> DEFINE last == lastCanonicalHash
  <2>1. last \in Blocks /\ last = Parent[b] /\ Height[b] = Height[last] + 1 /\ Height[last] \in Nat /\ Height[last] > 0
    BY <1>2, TreeAssumption, Heights DEF ReorgInv, Inv, TypeOK
  <2>2. \A e \in DOMAIN events : Height[e] < Height[b]
    <3>1. \A e \in DOMAIN events : e \in Blocks /\ Below(e)
      BY TreeAssumption DEF ReorgInv, Inv, TypeOK, HeadOnTop
    <3> QED
      BY <2>1, <3>1, Heights DEF Below
  <2>3. \A i \in DOMAIN blocks : blocks[i].block \in Blocks /\ Below(blocks[i].block)
    <3>1. blocks \in Store(MaxBlocks)
      BY DEF ReorgInv, Inv, TypeOK, Store, Entries
    <3> QED
      BY <3>1, StoreFacts DEF ReorgInv, HeadOnTop
  <2>4. \A i \in DOMAIN blocks : Height[blocks[i].block] < Height[b]
    BY <2>1, <2>3, Heights DEF Below
  <2>5. CanonicalAt(blocks, Height[last]) \in {NoBlock, last}
    <3> DEFINE at == {i \in DOMAIN blocks : blocks[i].canonical /\ Height[blocks[i].block] = Height[last]}
    <3>1. CASE at = {}
      BY <3>1 DEF CanonicalAt
    <3>2. CASE at # {}
      <4>1. at \in SUBSET Nat
        <5>1. blocks \in Store(MaxBlocks)
          BY DEF ReorgInv, Inv, TypeOK, Store, Entries
        <5> QED
          BY <5>1, StoreFacts
      <4>2. Min(at) \in at
        BY <3>2, <4>1, MinIsSmallest
      <4>3. blocks[Min(at)].block = last
        BY <2>1, <2>3, <4>2, Heights DEF Below
      <4> QED
        BY <3>2, <4>3 DEF CanonicalAt
    <3> QED
      BY <3>1, <3>2
  <2>6. ~ ReorgDetected(b)
    BY <1>2, <2>1, <2>5 DEF ReorgDetected, lastProcessedBlock
  <2>7. Lost(b) = {}
    BY <2>6 DEF Lost, Affected
  <2> QED
    BY <2>1, <2>2, <2>4, <2>6, <2>7
<1> QED
  BY <1>1, <1>2

\* The depth of a divergence is a number.
LEMMA DivergenceIsDepth ==
  ASSUME ReorgInv, NEW b \in Blocks
  PROVE  FindDivergencePoint(blocks, b) \in Nat
<1> DEFINE D == {d \in 0 .. Height[b] :
         \/ d = Height[b]
         \/ CanonicalAt(blocks, Height[b] - d) = NoBlock
         \/ CanonicalAt(blocks, Height[b] - d) = Parent[b] /\ Parent[b] # AncestorHash(blocks, b)[d]}
<1>1. D \in SUBSET Nat /\ Height[b] \in D
  BY Heights
<1>2. Min(D) \in D
  <2> HIDE DEF D
  <2> QED
    BY <1>1, MinIsSmallest
<1> QED
  BY <1>1, <1>2 DEF FindDivergencePoint

\* The history keeps the latest reorgs.
LEMMA RememberKeepsLimit ==
  ASSUME NEW history \in Seq(Nat), NEW depth \in Nat
  PROVE  Remember(history, depth) \in Seq(Nat) /\ Len(Remember(history, depth)) <= MaxReorgs
<1> DEFINE longer == Append(history, depth)
           first == Max({1, Len(longer) - MaxReorgs + 1})
<1>1. MaxReorgs \in Nat /\ MaxReorgs > 0 /\ longer \in Seq(Nat) /\ Len(longer) \in Nat
  BY LimitAssumption
<1> HIDE DEF longer
<1>2. first \in Nat /\ first >= 1 /\ first >= Len(longer) - MaxReorgs + 1
  <2> DEFINE n == Len(longer) - MaxReorgs + 1
             top == IF n > 1 THEN n ELSE 1
  <2>1. n \in Int
    BY <1>1
  <2> HIDE DEF n
  <2>2. top \in {1, n} /\ \A y \in {1, n} : top >= y
    BY <2>1
  <2>3. \A x \in {1, n} : (\A y \in {1, n} : x >= y) => x = top
    BY <2>1
  <2>4. Max({1, n}) = top
    BY <2>2, <2>3 DEF Max
  <2> QED
    BY <1>1, <2>1, <2>4 DEF n
<1> HIDE DEF first
<1>3. /\ SubSeq(longer, first, Len(longer)) \in Seq(Nat)
      /\ Len(SubSeq(longer, first, Len(longer))) = IF first <= Len(longer) THEN Len(longer) - first + 1 ELSE 0
  <2>1. \A i \in first .. Len(longer) : longer[i] \in Nat
    BY <1>1, <1>2
  <2> QED
    BY <1>1, <1>2, <2>1, SubSeqProperties
<1>4. Remember(history, depth) = SubSeq(longer, first, Len(longer))
  BY DEF Remember, longer, first
<1> QED
  BY <1>1, <1>2, <1>3, <1>4

\* The counters after a block: what left the pending ones was counted.
LEMMA BlockKeepsCounters ==
  ASSUME ReorgInv, NEW b \in Blocks, ProcessBlock(b)
  PROVE  /\ IsFiniteSet(DOMAIN events')
         /\ {pendingEventCount', orphanedEventCount'} \subseteq Nat
         /\ CountersCover' /\ CountersExact'
<1>1. PICK out \in SUBSET (DOMAIN events \union New(b)) :
           /\ \A e \in out : Arriving(e, b) = "confirmed"
           /\ DOMAIN events' = (DOMAIN events \union New(b)) \ out
           /\ \A e \in DOMAIN events' : events'[e] \in Records(deliveries + 1) /\ events'[e].status = Leaving(e, b)
           /\ pendingEventCount' =
                pendingEventCount - Cardinality(Lost(b) \intersect Pending) + Cardinality(New(b))
                  - Cardinality({e \in DOMAIN events \union New(b) : Arriving(e, b) = "pending" /\ Deep(e, Height[b])})
  BY EventsAfterBlock
<1> DEFINE all    == DOMAIN events \union New(b)
           before == {e \in all : Arriving(e, b) = "pending"}
           deep   == {e \in before : Deep(e, Height[b])}
           orphans == WithStatus(events, "orphaned")
           after  == WithStatus(events', "pending")
           later  == WithStatus(events', "orphaned")
<1>2. /\ IsFiniteSet(DOMAIN events) /\ IsFiniteSet(New(b)) /\ IsFiniteSet(Lost(b)) /\ IsFiniteSet(Pending)
      /\ IsFiniteSet(orphans) /\ IsFiniteSet(all)
  <2>1. IsFiniteSet(DOMAIN events)
    BY DEF ReorgInv
  <2>2. IsFiniteSet(New(b))
    BY FS_Singleton, FS_Subset DEF New
  <2>3. Lost(b) \subseteq DOMAIN events /\ Pending \subseteq DOMAIN events /\ orphans \subseteq DOMAIN events
    BY DEF Lost, Pending, WithStatus
  <2> QED
    BY <2>1, <2>2, <2>3, FS_Subset, FS_Union
<1>3. before = (Pending \ Lost(b)) \union New(b)
  BY DEF Pending, WithStatus, Arriving, Lost
<1>4. after = before \ deep
  BY <1>1 DEF WithStatus, Leaving
<1>5. later \subseteq orphans \union Lost(b)
  BY <1>1 DEF WithStatus, Leaving, Arriving, Lost
<1>6. {e \in all : Arriving(e, b) = "pending" /\ Deep(e, Height[b])} = deep
  OBVIOUS
<1>7. orphanedEventCount' = orphanedEventCount + Cardinality(Lost(b))
  BY DEF ProcessBlock, Lost
<1>8. IsFiniteSet(before) /\ IsFiniteSet(deep) /\ deep \subseteq before
  BY <1>2, FS_Subset
<1> HIDE DEF before, deep, orphans, after, later, all
<1>9. /\ Cardinality(after) = Cardinality(before) - Cardinality(deep) /\ Cardinality(deep) \in Nat
      /\ Cardinality(before) \in Nat /\ Cardinality(after) \in Nat
  <2>1. before \intersect deep = deep
    BY <1>8
  <2>2. IsFiniteSet(before \ deep) /\ Cardinality(before \ deep) = Cardinality(before) - Cardinality(before \intersect deep)
    BY <1>8, FS_Difference
  <2> QED
    BY <1>4, <1>8, <2>1, <2>2, FS_CardinalityType
<1> DEFINE stays == Pending \ Lost(b)
<1>10. /\ IsFiniteSet(stays) /\ Cardinality(stays) = Cardinality(Pending) - Cardinality(Lost(b) \intersect Pending)
       /\ Cardinality(Pending) \in Nat /\ Cardinality(Lost(b) \intersect Pending) \in Nat /\ Cardinality(stays) \in Nat
       /\ Cardinality(New(b)) \in Nat /\ Cardinality(Lost(b)) \in Nat /\ Cardinality(orphans) \in Nat
  <2>1. Pending \intersect Lost(b) = Lost(b) \intersect Pending
    OBVIOUS
  <2> QED
    BY <1>2, <2>1, FS_Difference, FS_Intersection, FS_CardinalityType
<1>11. Cardinality(before) <= Cardinality(stays) + Cardinality(New(b))
  <2>1. Cardinality(before) = Cardinality(stays) + Cardinality(New(b)) - Cardinality(stays \intersect New(b))
    BY <1>2, <1>3, <1>10, FS_Union
  <2>2. Cardinality(stays \intersect New(b)) \in Nat
    BY <1>10, FS_Intersection, FS_CardinalityType
  <2> QED
    BY <1>10, <2>1, <2>2
<1>12. Cardinality(later) <= Cardinality(orphans) + Cardinality(Lost(b)) /\ Cardinality(later) \in Nat
  <2>1. /\ IsFiniteSet(orphans \union Lost(b))
        /\ Cardinality(orphans \union Lost(b)) =
             Cardinality(orphans) + Cardinality(Lost(b)) - Cardinality(orphans \intersect Lost(b))
    BY <1>2, FS_Union
  <2>2. Cardinality(orphans \intersect Lost(b)) \in Nat
    BY <1>2, FS_Intersection, FS_CardinalityType
  <2>3. IsFiniteSet(later) /\ Cardinality(later) <= Cardinality(orphans \union Lost(b))
    BY <1>5, <2>1, FS_Subset
  <2> QED
    BY <1>10, <2>1, <2>2, <2>3, FS_CardinalityType
<1>13. /\ pendingEventCount \in Nat /\ orphanedEventCount \in Nat
       /\ Cardinality(Pending) <= pendingEventCount /\ Cardinality(orphans) <= orphanedEventCount
  BY DEF ReorgInv, Inv, TypeOK, CountersCover, Pending, orphans
<1>14. pendingEventCount' = pendingEventCount - Cardinality(Lost(b) \intersect Pending) + Cardinality(New(b))
                              - Cardinality(deep)
  BY <1>1, <1>6 DEF all
<1>15. pendingEventCount' \in Int /\ Cardinality(after) <= pendingEventCount'
  BY <1>9, <1>10, <1>11, <1>13, <1>14
<1>16. pendingEventCount' \in Nat
  BY <1>9, <1>15
<1>17. orphanedEventCount' \in Nat /\ Cardinality(later) <= orphanedEventCount'
  BY <1>7, <1>10, <1>12, <1>13
<1>18. IsFiniteSet(DOMAIN events')
  BY <1>1, <1>2, FS_Subset DEF all
<1>19. ASSUME linear'
       PROVE  pendingEventCount' = Cardinality(after) /\ orphanedEventCount' = Cardinality(later)
  <2>1. linear /\ lastCanonicalHash \in {NoBlock, Parent[b]}
    BY <1>19 DEF ProcessBlock
  <2>2. Lost(b) = {} /\ b \notin DOMAIN events
    BY <2>1, ExtendingIsNoReorg
  <2>3. pendingEventCount = Cardinality(Pending) /\ orphanedEventCount = Cardinality(orphans) /\ orphans = {}
    BY <2>1 DEF ReorgInv, Inv, CountersExact, NoFalseReorg, Pending, orphans
  <2>4. stays \intersect New(b) = {}
    <3>1. Pending \subseteq DOMAIN events
      BY DEF Pending, WithStatus
    <3>2. \A x \in New(b) : x \notin stays
      BY <2>2, <3>1 DEF New
    <3> HIDE DEF stays
    <3> QED
      BY <3>2
  <2>5. Cardinality(before) = Cardinality(stays) + Cardinality(New(b)) - Cardinality(stays \intersect New(b))
    BY <1>2, <1>3, <1>10, FS_Union
  <2>6. later = {} /\ Cardinality({}) = 0
    BY <1>5, <2>2, <2>3, FS_EmptySet
  <2>7. Cardinality(stays \intersect New(b)) = 0 /\ Cardinality(Lost(b)) = 0
    BY <2>2, <2>4, <2>6
  <2> QED
    BY <1>7, <1>9, <1>10, <1>14, <2>3, <2>5, <2>6, <2>7
<1> QED
  BY <1>15, <1>16, <1>17, <1>18, <1>19 DEF CountersCover, CountersExact, after, later

\* The rest of the types, and what holds of a chain without forks.
LEMMA BlockKeepsTypes ==
  ASSUME ReorgInv, NEW b \in Blocks, ProcessBlock(b)
  PROVE  TypeOK' /\ NoFalseReorg' /\ HeadOnTop'
<1>1. PICK out \in SUBSET (DOMAIN events \union New(b)) :
        /\ DOMAIN events' = (DOMAIN events \union New(b)) \ out
        /\ \A e \in DOMAIN events' : events'[e] \in Records(deliveries + 1) /\ events'[e].status = Leaving(e, b)
  BY EventsAfterBlock
<1>2. /\ lastCanonicalHash' = b /\ deliveries' = deliveries + 1 /\ deliveries \in Nat /\ deliveries < MaxDeliveries
      /\ confirmationDepth' = confirmationDepth /\ MaxDeliveries \in Nat
      /\ linear' = (linear /\ lastCanonicalHash \in {NoBlock, Parent[b]})
      /\ blocks' = SaveBlock(MarkBlocksNonCanonical(blocks, Affected(b)), b)
  BY LimitAssumption DEF ProcessBlock, ReorgInv, Inv, TypeOK
<1>3. blocks' \in Store(MaxBlocks) /\ On(blocks') \subseteq On(blocks) \union {b}
  <2>1. blocks \in Store(MaxBlocks)
    BY DEF ReorgInv, Inv, TypeOK, Store, Entries
  <2> QED
    BY <1>2, <2>1, SaveKeepsStore
<1>4. DOMAIN events' \subseteq Emitting /\ \A e \in DOMAIN events' : events'[e] \in Records(deliveries')
  BY <1>1, <1>2 DEF ReorgInv, Inv, TypeOK, New
<1>5. reorgHistory' \in Seq(Nat) /\ Len(reorgHistory') <= MaxReorgs
  <2>1. reorgHistory \in Seq(Nat) /\ Len(reorgHistory) <= MaxReorgs
    BY DEF ReorgInv, Inv, TypeOK
  <2>2. reorgHistory' = IF ReorgDetected(b) THEN Remember(reorgHistory, FindDivergencePoint(blocks, b)) ELSE reorgHistory
    BY DEF ProcessBlock
  <2> QED
    BY <2>1, <2>2, DivergenceIsDepth, RememberKeepsLimit
<1>6. TypeOK'
  <2>1. deliveries' \in 0 .. MaxDeliveries
    BY <1>2
  <2>2. /\ blocks' \in Seq([block : Blocks, canonical : BOOLEAN]) /\ Len(blocks') <= MaxBlocks
        /\ \A i, j \in DOMAIN blocks' : blocks'[i].block = blocks'[j].block => i = j
    BY <1>3 DEF Store, Entries
  <2>3. \A e \in DOMAIN events' :
          events'[e] \in [status : Status, confirmations : Nat, confirmedAt : 0 .. deliveries']
    BY <1>4 DEF Records
  <2>4. confirmationDepth' \in Depths /\ lastCanonicalHash' \in Blocks \union {NoBlock}
    BY <1>2 DEF ReorgInv, Inv, TypeOK
  <2> QED
    BY <1>4, <1>5, <2>1, <2>2, <2>3, <2>4, BlockKeepsCounters DEF TypeOK
<1>7. ASSUME linear' PROVE reorgHistory' = <<>> /\ WithStatus(events', "orphaned") = {}
  <2>1. ~ ReorgDetected(b) /\ Lost(b) = {}
    BY <1>2, <1>7, ExtendingIsNoReorg
  <2>2. reorgHistory = <<>> /\ WithStatus(events, "orphaned") = {}
    BY <1>2, <1>7 DEF ReorgInv, Inv, NoFalseReorg
  <2>3. reorgHistory' = reorgHistory
    BY <2>1 DEF ProcessBlock
  <2>4. \A e \in DOMAIN events' : e \in New(b) \/ e \in DOMAIN events
    BY <1>1
  <2> QED
    BY <1>1, <2>1, <2>2, <2>3, <2>4 DEF WithStatus, Leaving, Arriving
<1>8. ASSUME linear'
      PROVE  /\ \A i \in DOMAIN blocks' : blocks'[i].block = b \/ Height[blocks'[i].block] < Height[b]
             /\ \A e \in DOMAIN events' : e = b \/ Height[e] < Height[b]
  <2>1. /\ \A i \in DOMAIN blocks : blocks[i].block = b \/ Height[blocks[i].block] < Height[b]
        /\ \A e \in DOMAIN events : Height[e] < Height[b]
    BY <1>2, <1>8, ExtendingIsNoReorg
  <2>2. \A x \in On(blocks') : x = b \/ Height[x] < Height[b]
    BY <1>3, <2>1 DEF On
  <2> QED
    BY <1>1, <2>1, <2>2 DEF On, New
<1>9. b # NoBlock
  BY TreeAssumption
<1> QED
  BY <1>2, <1>6, <1>7, <1>8, <1>9 DEF NoFalseReorg, HeadOnTop, Below

LEMMA BlockKeepsInv == ASSUME ReorgInv, NEW b \in Blocks, ProcessBlock(b) PROVE ReorgInv'
BY BlockKeepsCounters, BlockKeepsTypes DEF ReorgInv, Inv

LEMMA ClearKeepsInv == ASSUME ReorgInv, ClearAllState PROVE ReorgInv'
<1>1. MaxBlocks \in Nat /\ MaxReorgs \in Nat
  BY LimitAssumption
<1>2. /\ DOMAIN events' = {} /\ DOMAIN blocks' = {} /\ Len(blocks') = 0 /\ Len(reorgHistory') = 0
      /\ blocks' \in Seq([block : Blocks, canonical : BOOLEAN]) /\ reorgHistory' \in Seq(Nat)
      /\ WithStatus(events', "pending") = {} /\ WithStatus(events', "orphaned") = {}
  BY DEF ClearAllState, WithStatus
<1>3. IsFiniteSet({}) /\ Cardinality({}) = 0
  BY FS_EmptySet
<1>4. TypeOK'
  BY <1>1, <1>2 DEF ClearAllState, ReorgInv, Inv, TypeOK
<1>5. CountersCover' /\ CountersExact' /\ NoFalseReorg'
  BY <1>2, <1>3 DEF ClearAllState, CountersCover, CountersExact, NoFalseReorg
<1>6. HeadOnTop'
  BY <1>2 DEF ClearAllState, HeadOnTop
<1> QED
  BY <1>2, <1>3, <1>4, <1>5, <1>6 DEF ReorgInv, Inv

\* Of a status, as many leave the counter as leave the map.
LEMMA DeletedAreCounted ==
  ASSUME NEW s, NEW gone, NEW n \in Nat, IsFiniteSet(DOMAIN events), gone \subseteq DOMAIN events,
         Cardinality(WithStatus(events, s)) <= n,
         events' = [e \in DOMAIN events \ gone |-> events[e]]
  PROVE  LET m == n - Cardinality(gone \intersect WithStatus(events, s)) IN
         /\ m \in Nat /\ Cardinality(WithStatus(events', s)) <= m
         /\ n = Cardinality(WithStatus(events, s)) => m = Cardinality(WithStatus(events', s))
<1> DEFINE W == WithStatus(events, s)
<1>1. IsFiniteSet(W) /\ WithStatus(events', s) = W \ gone /\ W \intersect gone = gone \intersect W
  <2>1. W \subseteq DOMAIN events
    BY DEF WithStatus
  <2>2. DOMAIN events' = DOMAIN events \ gone /\ \A e \in DOMAIN events \ gone : events'[e] = events[e]
    OBVIOUS
  <2>3. WithStatus(events', s) = W \ gone
    BY <2>2 DEF WithStatus
  <2> QED
    BY <2>1, <2>3, FS_Subset
<1> HIDE DEF W
<1>2. Cardinality(W \ gone) = Cardinality(W) - Cardinality(gone \intersect W) /\ IsFiniteSet(W \ gone)
  <2>1. Cardinality(W \ gone) = Cardinality(W) - Cardinality(W \intersect gone) /\ IsFiniteSet(W \ gone)
    BY <1>1, FS_Difference
  <2> QED
    BY <1>1, <2>1
<1>3. Cardinality(W) \in Nat /\ Cardinality(W \ gone) \in Nat /\ Cardinality(gone \intersect W) \in Nat
  <2>1. IsFiniteSet(gone \intersect W)
    BY <1>1, FS_Intersection
  <2> QED
    BY <1>1, <1>2, <2>1, FS_CardinalityType
<1> QED
  BY <1>1, <1>2, <1>3 DEF W

LEMMA DeleteKeepsInv == ASSUME ReorgInv, NEW gone \in SUBSET DOMAIN events, DeleteEvents(gone) PROVE ReorgInv'
<1>1. /\ IsFiniteSet(DOMAIN events) /\ pendingEventCount \in Nat /\ orphanedEventCount \in Nat
      /\ Cardinality(WithStatus(events, "pending")) <= pendingEventCount
      /\ Cardinality(WithStatus(events, "orphaned")) <= orphanedEventCount
      /\ events' = [e \in DOMAIN events \ gone |-> events[e]]
  BY DEF ReorgInv, Inv, TypeOK, CountersCover, DeleteEvents
<1>2. /\ pendingEventCount' = pendingEventCount - Cardinality(gone \intersect WithStatus(events, "pending"))
      /\ orphanedEventCount' = orphanedEventCount - Cardinality(gone \intersect WithStatus(events, "orphaned"))
  BY DEF DeleteEvents, NoLongerPending
<1>3. /\ pendingEventCount' \in Nat /\ Cardinality(WithStatus(events', "pending")) <= pendingEventCount'
      /\ pendingEventCount = Cardinality(WithStatus(events, "pending")) =>
           pendingEventCount' = Cardinality(WithStatus(events', "pending"))
  BY <1>1, <1>2, DeletedAreCounted
<1>4. /\ orphanedEventCount' \in Nat /\ Cardinality(WithStatus(events', "orphaned")) <= orphanedEventCount'
      /\ orphanedEventCount = Cardinality(WithStatus(events, "orphaned")) =>
           orphanedEventCount' = Cardinality(WithStatus(events', "orphaned"))
  BY <1>1, <1>2, DeletedAreCounted
<1>5. IsFiniteSet(DOMAIN events') /\ DOMAIN events' = DOMAIN events \ gone
  BY <1>1, FS_Subset
<1>6. UNCHANGED <<blocks, reorgHistory, lastCanonicalHash, confirmationDepth, deliveries, linear>>
  BY DEF DeleteEvents
<1>7. TypeOK'
  BY <1>1, <1>3, <1>4, <1>5, <1>6 DEF ReorgInv, Inv, TypeOK
<1>8. CountersCover' /\ CountersExact'
  BY <1>3, <1>4, <1>6 DEF ReorgInv, Inv, CountersCover, CountersExact
<1>9. NoFalseReorg'
  BY <1>1, <1>5, <1>6 DEF ReorgInv, Inv, NoFalseReorg, WithStatus
<1>10. HeadOnTop'
  <2>1. events = <<>> => gone = {}
    OBVIOUS
  <2>2. lastCanonicalHash' = NoBlock => blocks' = <<>> /\ events' = <<>>
    BY <1>1, <1>6, <2>1 DEF ReorgInv, HeadOnTop, DeleteEvents
  <2> QED
    BY <1>5, <1>6, <2>2 DEF ReorgInv, HeadOnTop, Below
<1> QED
  BY <1>5, <1>7, <1>8, <1>9, <1>10 DEF ReorgInv, Inv

LEMMA SetDepthKeepsInv == ASSUME ReorgInv, NEW depth \in Depths, SetConfirmationDepth(depth) PROVE ReorgInv'
BY DEF SetConfirmationDepth, ReorgInv, Inv, TypeOK, CountersCover, CountersExact, NoFalseReorg, HeadOnTop, Below,
       WithStatus

LEMMA StepKeepsInv == ReorgInv /\ [Next]_vars => ReorgInv'
<1> SUFFICES ASSUME ReorgInv, [Next]_vars PROVE ReorgInv'
  OBVIOUS
<1>1. CASE UNCHANGED vars
  BY <1>1 DEF vars, ReorgInv, Inv, TypeOK, CountersCover, CountersExact, NoFalseReorg, HeadOnTop, Below, WithStatus
<1> QED
  BY <1>1, BlockKeepsInv, ClearKeepsInv, DeleteKeepsInv, SetDepthKeepsInv DEF Next

-----------------------------------------------------------------------------
(* The theorems.                                                           *)

\* Whatever is delivered, deleted or cleared: the stores respect their limits,
\* the counters cover what is on record, and on a chain without forks they are
\* exact and no reorg is reported.
THEOREM ReorgInvariant == Spec => []Inv
<1>1. ReorgInv => Inv
  BY DEF ReorgInv
<1> QED
  BY <1>1, InitEstablishesInv, StepKeepsInv, PTL DEF Spec

LEMMA ReorgInvAlways == Spec => []ReorgInv
BY InitEstablishesInv, StepKeepsInv, PTL DEF Spec

\* Every step but a delivery keeps the number of deliveries and the status of
\* every event that stays.
LEMMA OthersKeepStatus ==
  ASSUME ReorgInv, [Next]_vars
  PROVE  \/ \E b \in Blocks : ProcessBlock(b) /\ deliveries' > deliveries /\ lastCanonicalHash' = b
         \/ /\ deliveries' = deliveries /\ DOMAIN events' \subseteq DOMAIN events
            /\ \A e \in DOMAIN events' : events'[e] = events[e]
<1>1. ASSUME NEW b \in Blocks, ProcessBlock(b) PROVE deliveries' > deliveries /\ lastCanonicalHash' = b
  BY <1>1 DEF ProcessBlock, ReorgInv, Inv, TypeOK
<1>2. CASE ClearAllState
  <2>1. DOMAIN events' = {}
    BY <1>2 DEF ClearAllState
  <2> QED
    BY <1>2, <2>1 DEF ClearAllState
<1>3. ASSUME NEW gone \in SUBSET DOMAIN events, DeleteEvents(gone)
      PROVE  /\ deliveries' = deliveries /\ DOMAIN events' \subseteq DOMAIN events
             /\ \A e \in DOMAIN events' : events'[e] = events[e]
  BY <1>3 DEF DeleteEvents
<1>4. CASE \E depth \in Depths : SetConfirmationDepth(depth)
  BY <1>4 DEF SetConfirmationDepth
<1>5. CASE UNCHANGED vars
  BY <1>5 DEF vars
<1> QED
  BY <1>1, <1>2, <1>3, <1>4, <1>5 DEF Next

\* Memory is made at the cost of confirmed events only.
THEOREM UnsettledEventsAreKept == Spec => UnsettledIsKept
<1> DEFINE Kept == \A e \in DOMAIN events :
             events[e].status # "confirmed" /\ deliveries' > deliveries => e \in DOMAIN events'
<1>1. ASSUME ReorgInv, [Next]_vars PROVE Kept
  <2>1. ASSUME NEW b \in Blocks, ProcessBlock(b) PROVE Kept
    BY <1>1, <2>1, EventsAfterBlock DEF Arriving
  <2>2. deliveries' = deliveries => ~ (deliveries' > deliveries)
    BY <1>1 DEF ReorgInv, Inv, TypeOK
  <2> QED
    BY <1>1, <2>1, <2>2, OthersKeepStatus
<1>2. ReorgInv /\ [Next]_vars => [Kept]_vars
  BY <1>1
<1> QED
  BY <1>2, ReorgInvAlways, PTL DEF Spec, UnsettledIsKept

\* The head that confirms an event is as far above it as was asked for.
THEOREM ConfirmedOnlyWhenDeep == Spec => ConfirmedWhenDeep
<1> DEFINE FarBelow == \A e \in DOMAIN events' :
             /\ events'[e].status = "confirmed"
             /\ e \in DOMAIN events => events[e].status # "confirmed"
             => Height[lastCanonicalHash'] - Height[e] >= confirmationDepth
<1>1. ASSUME ReorgInv, [Next]_vars PROVE FarBelow
  <2>1. ASSUME NEW b \in Blocks, ProcessBlock(b), lastCanonicalHash' = b PROVE FarBelow
    <3> SUFFICES ASSUME NEW e \in DOMAIN events', events'[e].status = "confirmed",
                        e \in DOMAIN events => events[e].status # "confirmed"
                 PROVE  Height[b] - Height[e] >= confirmationDepth
      BY <2>1
    <3>1. e \in DOMAIN events \union New(b) /\ Leaving(e, b) = "confirmed"
      BY <1>1, <2>1, EventsAfterBlock
    <3>2. Deep(e, Height[b])
      BY <3>1 DEF Leaving, Arriving
    <3>3. e \in Blocks /\ confirmationDepth \in Depths
      BY <1>1, <3>1, TreeAssumption DEF ReorgInv, Inv, TypeOK, New
    <3> QED
      BY <3>2, <3>3, Heights, DeepMeansFarBelow
  <2> QED
    BY <1>1, <2>1, OthersKeepStatus
<1>2. ReorgInv /\ [Next]_vars => [FarBelow]_vars
  BY <1>1
<1> QED
  BY <1>2, ReorgInvAlways, PTL DEF Spec, ConfirmedWhenDeep

\* A confirmation is taken back only by a reorg, or by the block of the event.
THEOREM SettledStaysUnlessReorg == Spec => SettledUnlessReorg
<1> DEFINE Stays == \A e \in DOMAIN events \intersect DOMAIN events' :
             events[e].status = "confirmed" /\ events'[e].status # "confirmed"
             => e = lastCanonicalHash' \/ ReorgDetected(lastCanonicalHash')
<1>1. ASSUME ReorgInv, [Next]_vars PROVE Stays
  <2>1. ASSUME NEW b \in Blocks, ProcessBlock(b), lastCanonicalHash' = b PROVE Stays
    <3> SUFFICES ASSUME NEW e \in DOMAIN events, e \in DOMAIN events', events[e].status = "confirmed",
                        events'[e].status # "confirmed", e # b
                 PROVE  ReorgDetected(b)
      BY <2>1
    <3>1. Leaving(e, b) # "confirmed"
      BY <1>1, <2>1, EventsAfterBlock
    <3>2. e \in Lost(b)
      BY <3>1 DEF Leaving, Arriving, New
    <3> QED
      BY <3>2 DEF Lost, Affected
  <2> QED
    BY <1>1, <2>1, OthersKeepStatus
<1>2. ReorgInv /\ [Next]_vars => [Stays]_vars
  BY <1>1
<1> QED
  BY <1>2, ReorgInvAlways, PTL DEF Spec, SettledUnlessReorg

\* After a block no event is left pending that is deep enough.
THEOREM ConfirmationLeavesNothing == Spec => NothingDeepIsPending
<1> DEFINE Shallow == deliveries' > deliveries =>
             \A e \in DOMAIN events' :
               events'[e].status = "pending" => Height[lastCanonicalHash'] - Height[e] < confirmationDepth
<1>1. ASSUME ReorgInv, [Next]_vars PROVE Shallow
  <2>1. ASSUME NEW b \in Blocks, ProcessBlock(b), lastCanonicalHash' = b PROVE Shallow
    <3> SUFFICES ASSUME NEW e \in DOMAIN events', events'[e].status = "pending"
                 PROVE  Height[b] - Height[e] < confirmationDepth
      BY <2>1
    <3>1. e \in DOMAIN events \union New(b) /\ Leaving(e, b) = "pending"
      BY <1>1, <2>1, EventsAfterBlock
    <3>2. ~ Deep(e, Height[b])
      BY <3>1 DEF Leaving
    <3>3. e \in Blocks /\ confirmationDepth \in Depths
      BY <1>1, <3>1, TreeAssumption DEF ReorgInv, Inv, TypeOK, New
    <3> QED
      BY <3>2, <3>3, Heights, DeepMeansFarBelow
  <2>2. deliveries' = deliveries => ~ (deliveries' > deliveries)
    BY <1>1 DEF ReorgInv, Inv, TypeOK
  <2> QED
    BY <1>1, <2>1, <2>2, OthersKeepStatus
<1>2. ReorgInv /\ [Next]_vars => [Shallow]_vars
  BY <1>1
<1> QED
  BY <1>2, ReorgInvAlways, PTL DEF Spec, NothingDeepIsPending

=============================================================================
