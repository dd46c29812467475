----------------------------- MODULE FeedProofs -----------------------------
(***************************************************************************)
(* Proofs about the three components that run for ever: RealtimeOutbox for *)
(* any number of rows, transactions, passes and streams, any batch size    *)
(* and any bound on failures; EventPolling for any number of loops,        *)
(* blocks, faults and confirmations and any size of a range; RewardFeed    *)
(* for any chain, size of a chunk and number of failures and restarts.     *)
(* They share no state, and each keeps its invariant beside the others.    *)
(***************************************************************************)
EXTENDS MCFeeds, WellFoundedInduction, TLAPS


-----------------------------------------------------------------------------
(* The publisher and its streams.                                          *)

\* The initial state.
LEMMA InitEstablishesInv == Init => Inv
BY OutboxAssumption
   DEF Init, Inv, TypeOK, OnlyCommitted, PublishedWasBroadcast, RollbackJustified, MissedOnlyInGap,
       PassesHold, ReplayCovers, Unused, Event, Resting, Stage, NotOpen, View

\* Only the row with the next id is written by a transaction, and it was unused.
LEMMA RecordKeepsInv == ASSUME Inv, NEW i \in Ids, Record(i) PROVE Inv'
<1> USE OutboxAssumption DEF Inv, Record
<1>1. PICK t \in Txs \union {None} : row' = [row EXCEPT ![i] = Event("open", "change", t)]
  OBVIOUS
<1>2. row[i].state = "unused"
  BY DEF NextId
<1>3. TypeOK'
  BY <1>1 DEF TypeOK, Event
<1>4. i \notin sent /\ ~row[i].published
  BY <1>2 DEF OnlyCommitted, PublishedWasBroadcast
<1>5. \A k \in Ids : k # i => row'[k] = row[k]
  BY <1>1 DEF TypeOK
<1>6. row'[i].kind = "change" /\ row'[i].state = "open" /\ ~row'[i].published
  BY <1>1 DEF TypeOK, Event
<1>7. OnlyCommitted'
  BY <1>2, <1>5 DEF OnlyCommitted
<1>8. PublishedWasBroadcast'
  BY <1>5, <1>6 DEF PublishedWasBroadcast
<1>9. RollbackJustified'
  BY <1>4, <1>5, <1>6 DEF RollbackJustified
<1>10. PassesHold'
  BY <1>2, <1>4, <1>5 DEF PassesHold, Outdated, TypeOK
<1>11. MissedOnlyInGap' /\ ReplayCovers'
  BY DEF MissedOnlyInGap, ReplayCovers
<1> QED
  BY <1>3, <1>7, <1>8, <1>9, <1>10, <1>11

\* A transaction ends: only an open row changes its state.
LEMMA EndKeepsInv == ASSUME Inv, NEW i \in Ids, End(i) PROVE Inv'
<1> USE OutboxAssumption DEF Inv, End
<1>1. PICK t \in {"stored", "undone"} : row' = [row EXCEPT ![i].state = t]
  OBVIOUS
<1>2. TypeOK'
  BY <1>1 DEF TypeOK
<1>3. /\ \A k \in Ids : /\ row'[k].kind = row[k].kind /\ row'[k].tx = row[k].tx
                        /\ row'[k].published = row[k].published
                        /\ row[k].state = "stored" => row'[k].state = "stored"
  BY <1>1 DEF TypeOK
<1>4. OnlyCommitted'
  BY <1>3 DEF OnlyCommitted
<1>5. PublishedWasBroadcast' /\ RollbackJustified'
  BY <1>3 DEF PublishedWasBroadcast, RollbackJustified
<1>6. PassesHold'
  BY <1>3 DEF PassesHold, Outdated, TypeOK
<1>7. MissedOnlyInGap' /\ ReplayCovers'
  BY DEF MissedOnlyInGap, ReplayCovers
<1> QED
  BY <1>2, <1>4, <1>5, <1>6, <1>7

\* A transaction that is no longer final stays so.
LEMMA UnfinalKeepsInv == ASSUME Inv, NEW t \in Txs, Unfinal(t) PROVE Inv'
BY DEF Inv, Unfinal, TypeOK, OnlyCommitted, PublishedWasBroadcast, RollbackJustified, MissedOnlyInGap,
       PassesHold, ReplayCovers, Outdated

Stages ==
  [pc : {"claim", "publish", "mark", "detect", "check", "insert"},
   batch : SUBSET Ids, at : Ids \union {0}, full : BOOLEAN, todo : SUBSET Ids]

\* What PassesHold asks of one stage.
Holds(k) ==
  /\ \A i \in k.batch : row[i].state = "stored"
  /\ k.pc = "mark" => k.at \in sent
  /\ \A i \in k.todo : Outdated(i)
  /\ k.pc = "insert" => k.at \in k.todo

\* A pass that enters such a stage, and changes nothing else.
LEMMA EnterKeepsInv ==
  ASSUME Inv, NEW p \in Passes, NEW k \in Stages, Enter(p, k), Holds(k),
         UNCHANGED <<row, unfinal, stream, sent, gap, faults>>
  PROVE  Inv'
<1> USE DEF Inv
<1>1. pass' = [pass EXCEPT ![p] = k]
  BY DEF Enter
<1>2. TypeOK'
  BY <1>1 DEF TypeOK, Stages
<1>3. PassesHold'
  BY <1>1 DEF PassesHold, TypeOK, Outdated, Holds
<1>4. /\ OnlyCommitted' /\ PublishedWasBroadcast' /\ RollbackJustified' /\ MissedOnlyInGap' /\ ReplayCovers'
  BY DEF OnlyCommitted, PublishedWasBroadcast, RollbackJustified, MissedOnlyInGap, ReplayCovers
<1> QED
  BY <1>2, <1>3, <1>4

LEMMA ClaimKeepsInv == ASSUME Inv, NEW p \in Passes, Claim(p) PROVE Inv'
<1>1. Batch \subseteq Ids /\ \A i \in Batch : row[i].state = "stored"
  BY DEF Batch, FirstOf, Claimable, Visible
<1>2. UNCHANGED <<row, unfinal, stream, sent, gap, faults>>
  BY DEF Claim
<1> DEFINE k == IF Batch = {} THEN Stage("detect", {}, 0, FALSE, {})
                ELSE Stage("publish", Batch, 0, Cardinality(Batch) = MaxBatch, {})
<1>3. Enter(p, k)
  BY DEF Claim, Claimed
<1> HIDE DEF Batch
<1>4. k \in Stages /\ Holds(k)
  BY <1>1 DEF Stage, Stages, Holds
<1> HIDE DEF k
<1> QED
  BY <1>2, <1>3, <1>4, EnterKeepsInv

LEMMA DetectKeepsInv == ASSUME Inv, NEW p \in Passes, Detect(p) PROVE Inv'
<1> DEFINE k == Stage("check", {}, 0, FALSE, {i \in Ids : Outdated(i)})
<1>1. Enter(p, k) /\ UNCHANGED <<row, unfinal, stream, sent, gap, faults>>
  BY DEF Detect
<1>2. k \in Stages /\ Holds(k)
  BY DEF Stage, Stages, Holds
<1> HIDE DEF k
<1> QED
  BY <1>1, <1>2, EnterKeepsInv

LEMMA CheckKeepsInv == ASSUME Inv, NEW p \in Passes, Check(p) PROVE Inv'
<1>1. pass[p].todo \subseteq Ids /\ \A i \in pass[p].todo : Outdated(i)
  BY DEF Inv, TypeOK, PassesHold
<1>2. UNCHANGED <<row, unfinal, stream, sent, gap, faults>>
  BY DEF Check
<1>3. PICK k \in Stages : Enter(p, k) /\ Holds(k)
  <2>1. CASE Enter(p, Resting)
    <3>1. Resting \in Stages /\ Holds(Resting)
      BY DEF Resting, Stage, Stages, Holds
    <3> QED
      BY <2>1, <3>1
  <2>2. ASSUME NEW i \in pass[p].todo, Enter(p, Stage("check", {}, 0, FALSE, pass[p].todo \ {i}))
        PROVE  \E k \in Stages : Enter(p, k) /\ Holds(k)
    <3>1. Stage("check", {}, 0, FALSE, pass[p].todo \ {i}) \in Stages
      BY <1>1 DEF Stage, Stages
    <3>2. Holds(Stage("check", {}, 0, FALSE, pass[p].todo \ {i}))
      BY <1>1 DEF Stage, Holds
    <3> QED
      BY <2>2, <3>1, <3>2
  <2>3. ASSUME NEW i \in pass[p].todo, Enter(p, Stage("insert", {}, i, FALSE, pass[p].todo))
        PROVE  \E k \in Stages : Enter(p, k) /\ Holds(k)
    <3>1. Stage("insert", {}, i, FALSE, pass[p].todo) \in Stages
      BY <1>1 DEF Stage, Stages
    <3>2. Holds(Stage("insert", {}, i, FALSE, pass[p].todo))
      BY <1>1 DEF Stage, Holds
    <3> QED
      BY <2>3, <3>1, <3>2
  <2> QED
    BY <2>1, <2>2, <2>3 DEF Check
<1> QED
  BY <1>2, <1>3, EnterKeepsInv

\* The broadcast row has committed; a live stream takes it, one that replays
\* counts it as missed.
LEMMA BroadcastKeepsInv == ASSUME Inv, NEW p \in Passes, Broadcast(p) PROVE Inv'
<1> USE OutboxAssumption DEF Inv
<1>1. PICK i \in pass[p].batch :
        /\ sent' = sent \union {i}
        /\ stream' = [s \in Streams |-> Received(stream[s], i)]
        /\ gap' = [s \in Streams |-> IF stream[s].pc = "replay" THEN gap[s] \union {i} ELSE gap[s]]
        /\ Enter(p, Stage("mark", pass[p].batch \ {i}, i, pass[p].full, {}))
  BY DEF Broadcast
<1>2. i \in Ids /\ row[i].state = "stored" /\ UNCHANGED <<row, unfinal, faults>>
  BY DEF TypeOK, PassesHold, Broadcast
<1>3. pass' = [pass EXCEPT ![p] = [pc |-> "mark", batch |-> pass[p].batch \ {i}, at |-> i,
                                   full |-> pass[p].full, todo |-> {}]]
  BY <1>1 DEF Enter, Stage
<1>4. \A s \in Streams :
        /\ stream'[s].pc = stream[s].pc /\ stream'[s].after = stream[s].after
        /\ stream'[s].found = stream[s].found
        /\ stream'[s].got = IF stream[s].pc = "live" THEN stream[s].got \union {i} ELSE stream[s].got
  BY <1>1 DEF TypeOK, Received, View
<1>5. stream' \in [Streams -> [pc : {"new", "replay", "live"}, after : Ids \union {0},
                               found : SUBSET Ids, got : SUBSET Ids]]
  <2>1. ASSUME NEW s \in Streams
        PROVE  Received(stream[s], i) \in [pc : {"new", "replay", "live"}, after : Ids \union {0},
                                           found : SUBSET Ids, got : SUBSET Ids]
    BY <1>2 DEF TypeOK, Received, View
  <2> QED
    BY <1>1, <2>1
<1>6. TypeOK'
  BY <1>1, <1>2, <1>3, <1>5 DEF TypeOK
<1>7. OnlyCommitted'
  BY <1>1, <1>2, <1>4 DEF OnlyCommitted
<1>8. PublishedWasBroadcast' /\ RollbackJustified'
  BY <1>1, <1>2 DEF PublishedWasBroadcast, RollbackJustified
<1>9. PassesHold'
  BY <1>1, <1>2, <1>3 DEF PassesHold, TypeOK, Outdated
<1>10. MissedOnlyInGap' /\ ReplayCovers'
  BY <1>1, <1>4 DEF MissedOnlyInGap, ReplayCovers
<1> QED
  BY <1>6, <1>7, <1>8, <1>9, <1>10

\* The row that is marked was broadcast; or the UPDATE fails.
LEMMA MarkKeepsInv == ASSUME Inv, NEW p \in Passes, Mark(p) PROVE Inv'
<1> USE OutboxAssumption DEF Inv
<1>1. pass[p].at \in sent /\ pass[p].at \in Ids /\ UNCHANGED <<unfinal, stream, sent, gap>>
  BY DEF Mark, PassesHold, TypeOK
<1>2. \A i \in Ids : /\ row'[i].state = row[i].state /\ row'[i].kind = row[i].kind /\ row'[i].tx = row[i].tx
                     /\ row[i].published => row'[i].published
                     /\ row'[i].published => row[i].published \/ i = pass[p].at
  BY <1>1 DEF Mark, TypeOK
<1>3. row' \in [Ids -> [state : {"unused", "open", "stored", "undone"}, kind : {"change", "rollback"},
                        tx : Txs \union {None}, published : BOOLEAN]]
  <2> DEFINE at == pass[p].at  T == [state : {"unused", "open", "stored", "undone"},
                                     kind : {"change", "rollback"}, tx : Txs \union {None}, published : BOOLEAN]
  <2>1. CASE row' = row
    BY <2>1 DEF TypeOK
  <2>2. CASE row' = [row EXCEPT ![at].published = TRUE]
    <3>1. row \in [Ids -> T]
      BY DEF TypeOK
    <3> QED
      BY <1>1, <2>2, <3>1, Zenon
  <2> QED
    BY <2>1, <2>2 DEF Mark
<1>4. PICK k \in Stages : Enter(p, k) /\ k.batch = pass[p].batch /\ k.todo = {} /\ k.pc \notin {"mark", "insert"}
  <2>1. CASE pass[p].batch # {}
    <3> DEFINE k == Stage("publish", pass[p].batch, 0, pass[p].full, {})
    <3>1. k \in Stages /\ k.batch = pass[p].batch /\ k.todo = {} /\ k.pc \notin {"mark", "insert"}
      BY DEF Stage, Stages, TypeOK
    <3>2. Enter(p, k)
      BY <2>1 DEF Mark, Continue
    <3> QED
      BY <3>1, <3>2
  <2>2. CASE pass[p].batch = {}
    <3> DEFINE k == Stage(IF pass[p].full THEN "claim" ELSE "detect", {}, 0, FALSE, {})
    <3>1. k \in Stages /\ k.batch = pass[p].batch /\ k.todo = {} /\ k.pc \notin {"mark", "insert"}
      BY <2>2 DEF Stage, Stages
    <3>2. Enter(p, k)
      BY <2>2 DEF Mark, Continue
    <3> QED
      BY <3>1, <3>2
  <2> QED
    BY <2>1, <2>2
<1>5. pass' = [pass EXCEPT ![p] = k]
  BY <1>4 DEF Enter
<1>6. TypeOK'
  BY <1>1, <1>3, <1>5 DEF TypeOK, Stages
<1>7. OnlyCommitted' /\ PublishedWasBroadcast' /\ RollbackJustified'
  BY <1>1, <1>2 DEF OnlyCommitted, PublishedWasBroadcast, RollbackJustified
<1>8. PassesHold'
  BY <1>1, <1>2, <1>4, <1>5 DEF PassesHold, TypeOK, Outdated
<1>9. MissedOnlyInGap' /\ ReplayCovers'
  BY <1>1 DEF MissedOnlyInGap, ReplayCovers
<1> QED
  BY <1>6, <1>7, <1>8, <1>9

\* The row a rollback is inserted in was unused; what it takes back was
\* broadcast.
LEMMA InsertKeepsInv == ASSUME Inv, NEW p \in Passes, Insert(p) PROVE Inv'
<1> USE OutboxAssumption DEF Inv
<1> DEFINE at == pass[p].at
<1>1. at \in Ids /\ row[at].published /\ row[at].tx \in unfinal /\ at \in sent
  BY DEF Insert, PassesHold, Outdated, TypeOK, PublishedWasBroadcast
<1>2. UNCHANGED <<unfinal, stream, sent, gap, faults>> /\ pass[p].todo \subseteq Ids
  BY DEF Insert, TypeOK
<1>3. \A k \in Ids : NextId(k) => row[k].state = "unused"
  BY DEF NextId
<1>4. \A k \in Ids : row'[k] = IF NextId(k) THEN [state |-> "stored", kind |-> "rollback",
                                                  tx |-> row[at].tx, published |-> FALSE] ELSE row[k]
  BY DEF Insert, Event
<1>5. row' \in [Ids -> [state : {"unused", "open", "stored", "undone"}, kind : {"change", "rollback"},
                        tx : Txs \union {None}, published : BOOLEAN]]
  <2> DEFINE T == [state : {"unused", "open", "stored", "undone"},
                   kind : {"change", "rollback"}, tx : Txs \union {None}, published : BOOLEAN]
             R(i) == IF NextId(i) THEN Event("stored", "rollback", row[at].tx) ELSE row[i]
  <2>1. row' = [i \in Ids |-> R(i)]
    BY DEF Insert
  <2>2. Event("stored", "rollback", row[at].tx) \in T
    BY <1>1 DEF TypeOK, Event
  <2>3. \A i \in Ids : row[i] \in T
    BY DEF TypeOK
  <2> HIDE DEF T
  <2>4. \A i \in Ids : R(i) \in T
    BY <2>2, <2>3
  <2> HIDE DEF R
  <2>5. row' \in [Ids -> T]
    BY <2>1, <2>4
  <2> QED
    BY <2>5 DEF T
<1> DEFINE k == Stage("check", {}, 0, FALSE, pass[p].todo \ {at})
<1>6. pass' = [pass EXCEPT ![p] = k]
  BY DEF Insert, Enter
<1>7. k \in Stages /\ k.batch = {} /\ k.todo \subseteq pass[p].todo /\ k.pc = "check"
  BY <1>2 DEF Stage, Stages
<1> HIDE DEF k
<1>8. TypeOK'
  BY <1>2, <1>5, <1>6, <1>7 DEF TypeOK, Stages
<1>9. \A i \in Ids : row[i].state = "stored" => row'[i] = row[i]
  BY <1>3, <1>4
<1>10. OnlyCommitted'
  BY <1>2, <1>9 DEF OnlyCommitted
<1>11. PublishedWasBroadcast'
  BY <1>2, <1>4 DEF PublishedWasBroadcast
<1>12. \A i \in sent : row'[i] = row[i]
  BY <1>9 DEF OnlyCommitted, TypeOK
<1>13. RollbackJustified'
  <2> SUFFICES ASSUME NEW i \in Ids, row'[i].kind = "rollback"
               PROVE  /\ row'[i].tx \in unfinal
                      /\ \E j \in Ids : j # i /\ row'[j].tx = row'[i].tx /\ j \in sent
    BY <1>2 DEF RollbackJustified
  <2>1. CASE NextId(i)
    <3>1. row'[i].tx = row[at].tx /\ row'[at] = row[at]
      BY <1>1, <1>4, <1>12, <2>1
    <3>2. at # i
      BY <1>1, <1>3, <2>1 DEF OnlyCommitted
    <3> QED
      BY <1>1, <3>1, <3>2
  <2>2. CASE ~NextId(i)
    <3>1. row'[i] = row[i]
      BY <1>4, <2>2
    <3> QED
      BY <1>12, <3>1 DEF RollbackJustified
  <2> QED
    BY <2>1, <2>2
<1>14. PassesHold'
  <2>1. \A i \in Ids : Outdated(i) => Outdated(i)'
    BY <1>2, <1>12 DEF Outdated, PublishedWasBroadcast
  <2> QED
    BY <1>2, <1>6, <1>7, <1>9, <2>1 DEF PassesHold, TypeOK
<1>15. MissedOnlyInGap' /\ ReplayCovers'
  BY <1>2 DEF MissedOnlyInGap, ReplayCovers
<1> QED
  BY <1>8, <1>10, <1>11, <1>13, <1>14, <1>15

\* A stream that opens has its query's answer, or the row is in its gap.
LEMMA OpenKeepsInv == ASSUME Inv, NEW s \in Streams, Open(s) PROVE Inv'
<1> USE OutboxAssumption DEF Inv
<1>1. PICK c \in {0} \union Ids :
        /\ stream' = [stream EXCEPT ![s] = View("replay", c, FirstOf(After(c), MaxReplay), {})]
        /\ gap' = [gap EXCEPT ![s] = After(c) \ FirstOf(After(c), MaxReplay)]
  BY DEF Open
<1> DEFINE found == FirstOf(After(c), MaxReplay)
<1>2. found \subseteq After(c)
  BY DEF FirstOf
<1>3. After(c) = {i \in Ids : row[i].state = "stored" /\ i > c}
  BY DEF After, Visible
<1> HIDE DEF found
<1>4. stream' = [stream EXCEPT ![s] = [pc |-> "replay", after |-> c, found |-> found, got |-> {}]]
  BY <1>1 DEF View, found
<1>5. UNCHANGED <<row, unfinal, pass, sent, faults>> /\ gap' = [gap EXCEPT ![s] = After(c) \ found]
  BY <1>1 DEF Open, found
<1>6. TypeOK'
  BY <1>2, <1>3, <1>4, <1>5 DEF TypeOK
<1>7. OnlyCommitted'
  BY <1>2, <1>3, <1>4, <1>5 DEF OnlyCommitted, TypeOK
<1>8. PublishedWasBroadcast' /\ RollbackJustified'
  BY <1>5 DEF PublishedWasBroadcast, RollbackJustified
<1>9. PassesHold'
  BY <1>5 DEF PassesHold, Outdated
<1>10. MissedOnlyInGap'
  BY <1>4, <1>5 DEF MissedOnlyInGap, TypeOK
<1>11. ASSUME NEW t \in Streams, NEW i \in Ids,
             stream'[t].pc = "replay", i \in sent, i > stream'[t].after
      PROVE  i \in stream'[t].found \/ i \in gap'[t]
  <2>1. CASE t = s
    <3>1. stream'[t].after = c /\ stream'[t].found = found /\ gap'[t] = After(c) \ found
      BY <1>4, <1>5, <2>1 DEF TypeOK
    <3>2. row[i].state = "stored"
      BY <1>11 DEF OnlyCommitted
    <3>3. i \in After(c)
      BY <1>3, <1>11, <3>1, <3>2
    <3> QED
      BY <3>1, <3>3
  <2>2. CASE t # s
    <3>1. stream'[t] = stream[t] /\ gap'[t] = gap[t]
      BY <1>4, <1>5, <2>2 DEF TypeOK
    <3> QED
      BY <1>11, <3>1 DEF ReplayCovers
  <2> QED
    BY <2>1, <2>2
<1>12. ReplayCovers'
  BY <1>5, <1>11 DEF ReplayCovers
<1> QED
  BY <1>6, <1>7, <1>8, <1>9, <1>10, <1>12

\* What the replay found is what the client has got when it goes live.
LEMMA GoLiveKeepsInv == ASSUME Inv, NEW s \in Streams, GoLive(s) PROVE Inv'
<1> USE OutboxAssumption DEF Inv
<1>1. stream' = [stream EXCEPT ![s] = [pc |-> "live", after |-> stream[s].after, found |-> {}, got |-> stream[s].found]]
  BY DEF GoLive, View
<1>2. UNCHANGED <<row, unfinal, pass, sent, gap, faults>> /\ stream[s].pc = "replay"
  BY DEF GoLive
<1>3. TypeOK'
  BY <1>1, <1>2 DEF TypeOK
<1>4. OnlyCommitted'
  BY <1>1, <1>2 DEF OnlyCommitted, TypeOK
<1>5. PublishedWasBroadcast' /\ RollbackJustified' /\ PassesHold'
  BY <1>2 DEF PublishedWasBroadcast, RollbackJustified, PassesHold, Outdated
<1>6. MissedOnlyInGap' /\ ReplayCovers'
  BY <1>1, <1>2 DEF MissedOnlyInGap, ReplayCovers, TypeOK
<1> QED
  BY <1>3, <1>4, <1>5, <1>6

LEMMA CloseKeepsInv == ASSUME Inv, NEW s \in Streams, Close(s) PROVE Inv'
<1> USE OutboxAssumption DEF Inv
<1>1. /\ stream' = [stream EXCEPT ![s] = [pc |-> "new", after |-> 0, found |-> {}, got |-> {}]]
      /\ gap' = [gap EXCEPT ![s] = {}] /\ UNCHANGED <<row, unfinal, pass, sent, faults>>
  BY DEF Close, NotOpen, View
<1>2. TypeOK'
  BY <1>1 DEF TypeOK
<1>3. OnlyCommitted'
  BY <1>1 DEF OnlyCommitted, TypeOK
<1>4. PublishedWasBroadcast' /\ RollbackJustified' /\ PassesHold'
  BY <1>1 DEF PublishedWasBroadcast, RollbackJustified, PassesHold, Outdated
<1>5. MissedOnlyInGap' /\ ReplayCovers'
  BY <1>1 DEF MissedOnlyInGap, ReplayCovers, TypeOK
<1> QED
  BY <1>2, <1>3, <1>4, <1>5

\* What is lost with the process was not committed, or was not in the table.
LEMMA RestartKeepsInv == ASSUME Inv, Restart PROVE Inv'
<1> USE OutboxAssumption DEF Inv
<1> DEFINE T == [state : {"unused", "open", "stored", "undone"},
                 kind : {"change", "rollback"}, tx : Txs \union {None}, published : BOOLEAN]
           R(i) == IF row[i].state = "open" THEN [row[i] EXCEPT !.state = "undone"] ELSE row[i]
<1>1. row' = [i \in Ids |-> R(i)] /\ UNCHANGED <<unfinal, sent>>
  BY DEF Restart
<1>2. /\ pass' = [p \in Passes |-> [pc |-> "claim", batch |-> {}, at |-> 0, full |-> FALSE, todo |-> {}]]
      /\ stream' = [s \in Streams |-> [pc |-> "new", after |-> 0, found |-> {}, got |-> {}]]
      /\ gap' = [s \in Streams |-> {}]
  BY DEF Restart, Resting, Stage, NotOpen, View
<1>3. ASSUME NEW i \in Ids PROVE R(i) \in T
  <2>1. row[i] \in T
    BY DEF TypeOK
  <2> HIDE DEF T
  <2>2. [row[i] EXCEPT !.state = "undone"] \in T
    BY <2>1, Zenon DEF T
  <2> QED
    BY <2>1, <2>2
<1>4. TypeOK'
  <2> HIDE DEF T, R
  <2>1. row' \in [Ids -> T]
    BY <1>1, <1>3
  <2> QED
    BY <1>1, <1>2, <2>1 DEF TypeOK, T
<1>5. \A i \in Ids : /\ row[i].state = "stored" => row'[i].state = "stored"
                     /\ row'[i].kind = row[i].kind /\ row'[i].tx = row[i].tx /\ row'[i].published = row[i].published
  BY <1>1 DEF TypeOK
<1>6. OnlyCommitted' /\ PublishedWasBroadcast' /\ RollbackJustified'
  BY <1>1, <1>2, <1>5 DEF OnlyCommitted, PublishedWasBroadcast, RollbackJustified
<1>7. PassesHold' /\ MissedOnlyInGap' /\ ReplayCovers'
  BY <1>2 DEF PassesHold, MissedOnlyInGap, ReplayCovers
<1> QED
  BY <1>4, <1>6, <1>7

LEMMA StepKeepsInv == ASSUME Inv, [Next]_vars PROVE Inv'
<1>1. CASE UNCHANGED vars
  BY <1>1 DEF Inv, vars, TypeOK, OnlyCommitted, PublishedWasBroadcast, RollbackJustified, MissedOnlyInGap,
              PassesHold, ReplayCovers, Outdated
<1>2. CASE Next
  BY <1>2, RecordKeepsInv, EndKeepsInv, UnfinalKeepsInv, ClaimKeepsInv, BroadcastKeepsInv, MarkKeepsInv,
     DetectKeepsInv, CheckKeepsInv, InsertKeepsInv, OpenKeepsInv, GoLiveKeepsInv, CloseKeepsInv, RestartKeepsInv
     DEF Next, Publish
<1> QED
  BY <1>1, <1>2

\* Whatever transactions, passes, streams and restarts interleave, nothing is
\* shown before it commits, nothing is marked that was not broadcast, and a
\* live client misses only what fell in the gap of its replay.
THEOREM OutboxInvariant == Spec => []Inv
<1>1. Init => Inv
  BY InitEstablishesInv
<1>2. Inv /\ [Next]_vars => Inv'
  BY StepKeepsInv
<1> QED
  BY <1>1, <1>2, PTL DEF Spec

-----------------------------------------------------------------------------
(* The outbox implements OutboxPromise.                                    *)

\* A step that moves one row one stage on, or none.
LEMMA OneRowComes ==
  ASSUME NEW j \in Ids,
         \A i \in Ids : i # j => Progress(i)' = Progress(i),
         \/ Progress(j)' = Progress(j)
         \/ Progress(j) = "absent" /\ Progress(j)' = "committed"
         \/ Progress(j) = "committed" /\ Progress(j)' = "broadcast"
         \/ Progress(j) = "broadcast" /\ Progress(j)' = "published"
  PROVE  [Promise!PromiseNext]_progress
<1> DEFINE P(i) == Progress(i)
<1>1. progress = [i \in Ids |-> P(i)] /\ progress' = [i \in Ids |-> P(i)']
  BY DEF progress
<1> HIDE DEF P
<1>2. \A i \in Ids : progress[i] = P(i) /\ progress'[i] = P(i)'
  BY <1>1
<1>3. progress' = [progress EXCEPT ![j] = P(j)']
  BY <1>1 DEF P
<1>4. CASE P(j)' = P(j)
  BY <1>1, <1>4 DEF P
<1>5. CASE P(j)' # P(j)
  BY <1>2, <1>3, <1>5 DEF P, Promise!PromiseNext, Promise!Come
<1> QED
  BY <1>4, <1>5

\* A step that leaves what Progress looks at alone.
LEMMA NoRowComes ==
  ASSUME \A i \in Ids : Progress(i)' = Progress(i)
  PROVE  UNCHANGED progress
<1> DEFINE P(i) == Progress(i)
<1>1. progress = [i \in Ids |-> P(i)] /\ progress' = [i \in Ids |-> P(i)']
  BY DEF progress
<1> QED
  BY <1>1

LEMMA StepImplementsPromise == ASSUME Inv, [Next]_vars PROVE [Promise!PromiseNext]_progress
<1> USE OutboxAssumption DEF Inv
<1>1. CASE UNCHANGED <<row, sent>>
  BY <1>1, NoRowComes DEF Progress, Visible
<1>2. ASSUME NEW i \in Ids, Record(i) PROVE [Promise!PromiseNext]_progress
  <2>1. row[i].state = "unused" /\ sent' = sent
    BY <1>2 DEF Record, NextId
  <2>2. i \notin sent /\ ~row[i].published
    BY <2>1 DEF OnlyCommitted, PublishedWasBroadcast
  <2>3. row'[i].state = "open" /\ ~row'[i].published /\ \A k \in Ids : k # i => row'[k] = row[k]
    BY <1>2 DEF Record, TypeOK, Event
  <2> QED
    BY <2>1, <2>2, <2>3, NoRowComes DEF Progress, Visible
<1>3. ASSUME NEW i \in Ids, End(i) PROVE [Promise!PromiseNext]_progress
  <2>1. row[i].state = "open" /\ sent' = sent
    BY <1>3 DEF End
  <2>2. i \notin sent /\ ~row[i].published
    BY <2>1 DEF OnlyCommitted, PublishedWasBroadcast
  <2>3. /\ row'[i].published = row[i].published
        /\ \A k \in Ids : k # i => row'[k] = row[k]
    BY <1>3 DEF End, TypeOK
  <2> QED
    BY <2>1, <2>2, <2>3, OneRowComes DEF Progress, Visible
<1>4. ASSUME NEW p \in Passes, Broadcast(p) PROVE [Promise!PromiseNext]_progress
  <2>1. PICK i \in pass[p].batch : sent' = sent \union {i}
    BY <1>4 DEF Broadcast
  <2>2. i \in Ids /\ row[i].state = "stored" /\ row' = row
    BY <1>4 DEF TypeOK, PassesHold, Broadcast
  <2> QED
    BY <2>1, <2>2, OneRowComes DEF Progress, Visible
<1>5. ASSUME NEW p \in Passes, Mark(p) PROVE [Promise!PromiseNext]_progress
  <2>1. PICK i \in Ids : i = pass[p].at /\ i \in sent
    BY <1>5 DEF Mark, PassesHold, TypeOK
  <2>2. /\ sent' = sent
        /\ \A k \in Ids : row'[k].state = row[k].state /\ (k # i => row'[k].published = row[k].published)
    BY <1>5, <2>1 DEF Mark, TypeOK
  <2>3. row'[i].published = row[i].published \/ row'[i].published
    BY <1>5, <2>1 DEF Mark, TypeOK
  <2>4. \A k \in Ids : k # i => Progress(k)' = Progress(k)
    BY <2>1, <2>2 DEF Progress, Visible
  <2>5. \/ Progress(i)' = Progress(i)
        \/ Progress(i) = "broadcast" /\ Progress(i)' = "published"
    BY <2>1, <2>2, <2>3 DEF Progress, Visible
  <2> QED
    BY <2>4, <2>5, OneRowComes
<1>6. ASSUME NEW p \in Passes, Insert(p) PROVE [Promise!PromiseNext]_progress
  <2>1. sent' = sent
    BY <1>6 DEF Insert
  <2>2. \A k \in Ids : row'[k] = IF NextId(k) THEN [state |-> "stored", kind |-> "rollback",
                                         tx |-> row[pass[p].at].tx, published |-> FALSE] ELSE row[k]
    BY <1>6 DEF Insert, Event
  <2>3. CASE \A k \in Ids : ~NextId(k)
    BY <2>1, <2>2, <2>3, NoRowComes DEF Progress, Visible
  <2>4. ASSUME NEW j \in Ids, NextId(j) PROVE [Promise!PromiseNext]_progress
    <3>1. row[j].state = "unused" /\ j \notin sent /\ ~row[j].published
      BY <2>4 DEF NextId, OnlyCommitted, PublishedWasBroadcast
    <3>2. \A k \in Ids : k # j => ~NextId(k)
      BY <2>4 DEF NextId
    <3>3. \A k \in Ids : k # j => Progress(k)' = Progress(k)
      BY <2>1, <2>2, <3>2 DEF Progress, Visible
    <3>4. Progress(j) = "absent" /\ Progress(j)' = "committed"
      BY <2>1, <2>2, <2>4, <3>1 DEF Progress, Visible
    <3> QED
      BY <3>3, <3>4, OneRowComes
  <2> QED
    BY <2>3, <2>4
<1>7. CASE Restart
  <2>1. sent' = sent
    BY <1>7 DEF Restart
  <2>2. ASSUME NEW i \in Ids PROVE Progress(i)' = Progress(i)
    <3>1. CASE row[i].state = "open"
      <4>1. row'[i].state # "stored" /\ row'[i].published = row[i].published
        BY <1>7, <3>1 DEF Restart, TypeOK
      <4> QED
        BY <2>1, <3>1, <4>1 DEF Progress, Visible
    <3>2. CASE row[i].state # "open"
      <4>1. row'[i] = row[i]
        BY <1>7, <3>2 DEF Restart
      <4> QED
        BY <2>1, <4>1 DEF Progress, Visible
    <3> QED
      BY <3>1, <3>2
  <2> QED
    BY <2>2, NoRowComes
<1> QED
  BY <1>1, <1>2, <1>3, <1>4, <1>5, <1>6, <1>7
     DEF Next, vars, Publish, Claim, Detect, Check, Unfinal, Open, GoLive, Close

\* Every row comes as far as OutboxPromise lets it, in that order, whatever
\* passes, failed updates and restarts do.
THEOREM OutboxImplementsPromise == Spec => ImplementsPromise
<1>1. Init => Promise!PromiseInit
  <2> SUFFICES ASSUME Init PROVE progress = [i \in Ids |-> "absent"]
    BY DEF Promise!PromiseInit
  <2>1. \A i \in Ids : Progress(i) = "absent"
    BY DEF Init, Unused, Event, Progress, Visible
  <2> DEFINE P(i) == Progress(i)
  <2>2. progress = [i \in Ids |-> P(i)]
    BY DEF progress
  <2> QED
    BY <2>1, <2>2
<1>2. Inv /\ [Next]_vars => [Promise!PromiseNext]_progress
  BY StepImplementsPromise
<1> QED
  BY <1>1, <1>2, OutboxInvariant, PTL DEF Spec, ImplementsPromise, Promise!PromiseSpec

-----------------------------------------------------------------------------
(* The poll loops.                                                         *)

PollStages == {"off", "sleep", "height", "read", "refused", "fetch", "look", "store", "save", "reconcile", "unfinal"}

PollPasses == [pc : PollStages, height : 0 .. MaxHead, base : 0 .. MaxHead, from : 1 .. MaxHead + 1, to : 0 .. MaxHead,
           todo : SUBSET Blocks]

\* What RangesHandled and RefusedOrRead ask of one pass.
InRange(k) ==
  /\ k.pc \in {"refused", "fetch", "look", "store", "save"} => Handled(1, k.base)
  /\ k.pc \in {"fetch", "look", "store", "save"} => ~asText /\ k.from = k.base + 1 /\ k.from <= k.to
  /\ k.pc \in {"look", "store", "save"} => (k.from .. k.to) \ k.todo \subseteq stored \union passed
  /\ k.pc = "save" => k.todo = {}
  /\ k.pc = "refused" => asText

LEMMA PollInitEstablishesPollInv == PollInit => PollInv
BY PollAssumption
   DEF PollInit, PollInv, PollTypeOK, NothingSkipped, RangesHandled, RefusedOrRead, Handled, Over, At, Pass,
       Blocks, Fetched

LEMMA RangesAreInRange ==
  PollInv <=> /\ PollTypeOK /\ NothingSkipped /\ (asText => stored = {})
              /\ \A l \in Loops : InRange(loop[l])
<1>1. (\A l \in Loops : InRange(loop[l])) <=>
        /\ RangesHandled
        /\ \A l \in Loops : loop[l].pc \in {"fetch", "look", "store", "save"} => ~asText
        /\ \A l \in Loops : loop[l].pc = "refused" => asText
  BY DEF RangesHandled, InRange, Fetched
<1>2. RefusedOrRead <=>
        /\ asText => stored = {}
        /\ \A l \in Loops : loop[l].pc \in {"fetch", "look", "store", "save"} => ~asText
        /\ \A l \in Loops : loop[l].pc = "refused" => asText
  BY DEF RefusedOrRead
<1> QED
  BY <1>1, <1>2 DEF PollInv

\* A loop that goes on to a pass of which RangesHandled holds, while the rows
\* and the logs passed by only grow.
LEMMA MoveKeepsPollInv ==
  ASSUME PollInv, NEW l \in Loops, NEW k \in PollPasses, Move(l, k),
         stored \subseteq stored', passed \subseteq passed',
         stored' \subseteq Blocks, final' \subseteq stored',
         InRange(k)', UNCHANGED <<asText, head>>, asText => stored' = {},
         cursor' \in 0 .. MaxHead, Handled(1, cursor)'
  PROVE  PollInv'
<1>1. loop' = [loop EXCEPT ![l] = k]
  BY DEF Move
<1>2. loop \in [Loops -> PollPasses]
  BY DEF PollInv, PollTypeOK, PollPasses, PollStages
<1>3. loop' \in [Loops -> PollPasses]
  BY <1>1, <1>2
<1>4. PollTypeOK'
  BY <1>3 DEF PollInv, PollTypeOK, PollPasses, PollStages, Blocks
<1>5. ASSUME NEW m \in Loops, m # l PROVE InRange(loop[m])'
  <2>1. loop'[m] = loop[m] /\ InRange(loop[m])
    BY <1>1, <1>2, <1>5, RangesAreInRange
  <2> QED
    BY <2>1 DEF InRange, Handled
<1>6. InRange(loop[l])'
  BY <1>1, <1>2
<1> QED
  <2>1. NothingSkipped' /\ (asText => stored = {})'
    BY DEF NothingSkipped
  <2>2. \A m \in Loops : InRange(loop[m])'
    BY <1>5, <1>6
  <2>3. RangesHandled' /\ RefusedOrRead'
    BY <2>1, <2>2 DEF RangesHandled, RefusedOrRead, InRange, Fetched
  <2> QED
    BY <1>4, <2>1, <2>3 DEF PollInv

\* A loop outside its range: nothing is asked of it.
LEMMA IdleKeepsPollInv ==
  ASSUME PollInv, NEW l \in Loops, NEW k \in PollPasses, Move(l, k),
         k.pc \notin {"refused", "fetch", "look", "store", "save"},
         UNCHANGED <<asText, head, cursor, stored, passed>>, final' \subseteq stored
  PROVE  PollInv'
<1>1. InRange(k)'
  BY DEF InRange
<1>2. Handled(1, cursor)' /\ cursor' \in 0 .. MaxHead /\ stored' \subseteq Blocks
  BY DEF PollInv, PollTypeOK, NothingSkipped, Handled
<1>3. asText => stored' = {}
  BY DEF PollInv, RefusedOrRead
<1> QED
  BY <1>1, <1>2, <1>3, MoveKeepsPollInv

LEMMA AtIsPass ==
  ASSUME NEW pc \in PollStages, NEW top \in 0 .. MaxHead
  PROVE  At(pc, top) \in PollPasses /\ At(pc, top).pc = pc
BY PollAssumption DEF At, Pass, PollPasses, Blocks

\* The operations that leave every loop alone, and the loss of all of them.
LEMMA OutsideKeepsPollInv ==
  ASSUME PollInv, Mine \/ FallBehind \/ StartIndexer \/ StartFails \/ StopIndexer \/ UNCHANGED pollVars
  PROVE  PollInv'
<1>1. head' \in 0 .. MaxHead /\ UNCHANGED <<asText, cursor, stored, final, loop, passed>>
  BY PollAssumption DEF PollInv, PollTypeOK, Mine, FallBehind, StartIndexer, StartFails, StopIndexer, pollVars
<1> QED
  BY <1>1 DEF PollInv, PollTypeOK, NothingSkipped, RangesHandled, RefusedOrRead, Handled, Fetched

LEMMA CrashKeepsPollInv == ASSUME PollInv, Crash PROVE PollInv'
<1>1. loop' = [l \in Loops |-> Over] /\ UNCHANGED <<asText, head, cursor, stored, final, passed>>
  BY DEF Crash
<1>2. Over \in PollPasses /\ Over.pc = "off"
  BY PollAssumption, AtIsPass DEF Over, PollStages
<1> HIDE DEF Over
<1>3. loop' \in [Loops -> PollPasses] /\ \A l \in Loops : loop'[l].pc = "off"
  BY <1>1, <1>2
<1> QED
  BY <1>1, <1>3 DEF PollInv, PollTypeOK, NothingSkipped, RangesHandled, RefusedOrRead, Handled, PollPasses, PollStages

\* A backfill passes by what it jumps over.
LEMMA BackfillKeepsPollInv == ASSUME PollInv, NEW b \in Blocks, Backfill(b) PROVE PollInv'
<1>1. /\ cursor' = b - 1 /\ passed' = passed \union ((cursor + 1 .. b - 1) \ stored)
      /\ UNCHANGED <<asText, head, stored, final, loop>>
  BY DEF Backfill
<1>2. PollTypeOK'
  BY <1>1, PollAssumption DEF PollInv, PollTypeOK, Blocks
<1>3. NothingSkipped'
  BY <1>1, PollAssumption DEF PollInv, PollTypeOK, NothingSkipped, Handled, Blocks
<1>4. RangesHandled'
  BY <1>1 DEF PollInv, RangesHandled, Handled, Fetched
<1>5. RefusedOrRead'
  BY <1>1 DEF PollInv, RefusedOrRead
<1> QED
  BY <1>2, <1>3, <1>4, <1>5 DEF PollInv

LEMMA IdleStepsKeepPollInv ==
  ASSUME PollInv, NEW l \in Loops, Launch(l) \/ Wake(l) \/ GetHeight(l) \/ EndPass(l)
  PROVE  PollInv'
<1>1. PICK pc \in {"off", "sleep", "height", "read"}, top \in 0 .. MaxHead : Move(l, At(pc, top))
  BY PollAssumption DEF Launch, Wake, GetHeight, EndPass, Rest, Over, PollInv, PollTypeOK
<1>2. UNCHANGED <<asText, head, cursor, stored, final, passed>> /\ final \subseteq stored
  BY DEF Launch, Wake, GetHeight, EndPass, PollInv, PollTypeOK
<1>3. PICK k \in PollPasses : k = At(pc, top) /\ k.pc = pc
  BY AtIsPass DEF PollStages
<1> QED
  BY <1>1, <1>2, <1>3, IdleKeepsPollInv

\* The range begins after the cursor that was read, unless that is a string: then
\* it is refused.
LEMMA ReadCursorKeepsPollInv == ASSUME PollInv, NEW l \in Loops, ReadCursor(l) PROVE PollInv'
<1> DEFINE top == loop[l].height
           start == NextBlock(cursor)
           end == EndBlock(start, top)
<1>1. /\ top \in 0 .. MaxHead /\ cursor \in 0 .. MaxHead /\ final \subseteq stored /\ stored \subseteq Blocks
      /\ UNCHANGED <<asText, head, cursor, stored, final, passed>> /\ Handled(1, cursor)
      /\ asText => stored = {}
  BY DEF PollInv, PollTypeOK, NothingSkipped, RefusedOrRead, ReadCursor
<1>2. Handled(1, cursor)'
  BY <1>1 DEF Handled
<1>3. CASE NothingToDo(start, end)
  <2>1. PICK k \in PollPasses : k = At("reconcile", top) /\ k.pc = "reconcile"
    BY <1>1, AtIsPass DEF PollStages
  <2>2. Move(l, k)
    BY <1>3, <2>1 DEF ReadCursor
  <2> QED
    BY <1>1, <2>1, <2>2, IdleKeepsPollInv
<1>4. CASE ~NothingToDo(start, end) /\ ~asText
  <2>1. start = cursor + 1 /\ end \in 1 .. MaxHead /\ cursor + 1 <= end
    BY <1>1, <1>4, PollAssumption DEF NothingToDo, NextBlock, EndBlock, Least
  <2>2. PICK k \in PollPasses : k = Pass("fetch", top, cursor, cursor + 1, end, {})
    <3> HIDE DEF end, top, start
    <3>1. cursor + 1 \in 1 .. MaxHead + 1 /\ end \in 0 .. MaxHead
      BY <1>1, <2>1, PollAssumption
    <3>2. Pass("fetch", top, cursor, cursor + 1, end, {}) \in PollPasses
      BY <1>1, <3>1 DEF Pass, PollPasses, PollStages
    <3> QED
      BY <3>2
  <2>3. Move(l, k)
    BY <1>4, <2>1, <2>2 DEF ReadCursor
  <2>4. k.pc = "fetch" /\ k.base = cursor /\ k.from = k.base + 1 /\ k.from <= k.to
    BY <2>1, <2>2 DEF Pass
  <2>5. InRange(k)'
    <3>1. Handled(1, k.base)' /\ ~asText'
      BY <1>1, <1>4, <2>4 DEF Handled
    <3> QED
      BY <2>4, <3>1 DEF InRange
  <2> HIDE DEF end, top, start
  <2> QED
    BY <1>1, <1>2, <2>3, <2>5, MoveKeepsPollInv
<1>5. CASE ~NothingToDo(start, end) /\ asText
  <2>1. PICK k \in PollPasses : k = Pass("refused", top, cursor, 1, 0, {})
    <3>1. Pass("refused", top, cursor, 1, 0, {}) \in PollPasses
      BY <1>1, PollAssumption DEF Pass, PollPasses, PollStages
    <3> QED
      BY <3>1
  <2>2. Move(l, k)
    BY <1>5, <2>1 DEF ReadCursor
  <2>3. k.pc = "refused" /\ k.base = cursor
    BY <2>1 DEF Pass
  <2>4. InRange(k)'
    BY <1>1, <1>2, <1>5, <2>3 DEF InRange
  <2> HIDE DEF end, top, start
  <2> QED
    BY <1>1, <1>2, <2>2, <2>4, MoveKeepsPollInv
<1> QED
  BY <1>3, <1>4, <1>5

\* The steps inside a range: the pass keeps its range, and lets go of a log only
\* when it is stored or passed by.
LEMMA WithinRangeKeepsPollInv ==
  ASSUME PollInv, NEW l \in Loops, NEW pc \in {"look", "store", "save"}, NEW todo \in SUBSET Blocks,
         loop[l].pc \in {"fetch", "look", "store"}, OnTo(l, pc, todo),
         stored \subseteq stored', passed \subseteq passed',
         stored' \subseteq Blocks, final' \subseteq stored', UNCHANGED <<asText, head, cursor>>,
         Fetched(l) \ todo \subseteq stored' \union passed',
         pc = "save" => todo = {}
  PROVE  PollInv'
<1>1. loop[l] \in PollPasses
  BY DEF PollInv, PollTypeOK, PollPasses, PollStages
<1>2. PICK k \in PollPasses : k = Pass(pc, loop[l].height, loop[l].base, loop[l].from, loop[l].to, todo)
  BY <1>1 DEF Pass, PollPasses, PollStages
<1>3. Move(l, k)
  BY <1>2 DEF OnTo
<1>4. /\ k.pc = pc /\ k.todo = todo
      /\ k.base = loop[l].base /\ k.from = loop[l].from /\ k.to = loop[l].to
  BY <1>2 DEF Pass
<1>5. Handled(1, k.base) /\ k.from = k.base + 1 /\ k.from <= k.to /\ ~asText
  BY <1>4 DEF PollInv, RangesHandled, RefusedOrRead
<1>6. (k.from .. k.to) \ k.todo \subseteq stored' \union passed'
  BY <1>4 DEF Fetched
<1>7. InRange(k)'
  BY <1>4, <1>5, <1>6 DEF InRange, Handled
<1>8. Handled(1, cursor)' /\ cursor' \in 0 .. MaxHead
  BY DEF PollInv, PollTypeOK, NothingSkipped, Handled
<1> QED
  BY <1>3, <1>5, <1>7, <1>8, MoveKeepsPollInv

LEMMA LeftBehind ==
  ASSUME PollInv, NEW l \in Loops, loop[l].pc \in {"look", "store"}
  PROVE  /\ Fetched(l) \ loop[l].todo \subseteq stored \union passed
         /\ loop[l].todo \in SUBSET Blocks /\ final \subseteq stored /\ stored \subseteq Blocks
BY DEF PollInv, PollTypeOK, RangesHandled

LEMMA FetchKeepsPollInv == ASSUME PollInv, NEW l \in Loops, Fetch(l) PROVE PollInv'
<1>1. PICK todo : todo = {b \in Fetched(l) : b <= head}
  OBVIOUS
<1>2. /\ OnTo(l, "look", todo) /\ passed' = passed \union {b \in Fetched(l) \ stored : b > head}
      /\ UNCHANGED <<asText, head, cursor, stored, final>>
  BY <1>1 DEF Fetch
<1>3. Fetched(l) \subseteq Blocks /\ head \in Int /\ final \subseteq stored /\ stored \subseteq Blocks
  BY PollAssumption DEF Fetched, Blocks, PollInv, PollTypeOK
<1>4. todo \in SUBSET Blocks
  BY <1>1, <1>3
<1>5. ASSUME NEW b \in Fetched(l) \ todo PROVE b \in stored' \union passed'
  <2>1. b > head
    BY <1>1, <1>3, <1>5 DEF Blocks
  <2> QED
    BY <1>2, <1>5, <2>1
<1>6. Fetched(l) \ todo \subseteq stored' \union passed'
  BY <1>5
<1> QED
  BY <1>2, <1>3, <1>4, <1>6, WithinRangeKeepsPollInv DEF Fetch

LEMMA LookKeepsPollInv == ASSUME PollInv, NEW l \in Loops, Look(l) PROVE PollInv'
<1>1. loop[l].pc = "look" /\ UNCHANGED <<asText, head, cursor, stored, final, passed>>
  BY DEF Look
<1>2. PICK pc \in {"look", "store", "save"}, todo \in SUBSET loop[l].todo :
        /\ OnTo(l, pc, todo) /\ loop[l].todo \ todo \subseteq stored /\ (pc = "save" => todo = {})
  <2>1. CASE loop[l].todo = {} /\ OnTo(l, "save", {})
    BY <2>1
  <2>2. ASSUME NEW b \in loop[l].todo, b \in stored, OnTo(l, "look", loop[l].todo \ {b})
        PROVE  \E pc \in {"look", "store", "save"}, todo \in SUBSET loop[l].todo :
                 OnTo(l, pc, todo) /\ loop[l].todo \ todo \subseteq stored /\ (pc = "save" => todo = {})
    <3>1. loop[l].todo \ {b} \in SUBSET loop[l].todo
      OBVIOUS
    <3> QED
      BY <2>2, <3>1
  <2>3. CASE OnTo(l, "store", loop[l].todo)
    BY <2>3
  <2> QED
    BY <2>1, <2>2, <2>3 DEF Look
<1>3. todo \in SUBSET Blocks /\ Fetched(l) \ todo \subseteq stored \union passed
  BY <1>1, <1>2, LeftBehind
<1> QED
  BY <1>1, <1>2, <1>3, LeftBehind, WithinRangeKeepsPollInv

LEMMA StoreKeepsPollInv == ASSUME PollInv, NEW l \in Loops, Store(l) PROVE PollInv'
<1>1. PICK b \in loop[l].todo :
        /\ stored' = stored \union {b} /\ final' \subseteq final \union {b}
        /\ OnTo(l, "look", loop[l].todo \ {b})
  BY DEF Store
<1>2. loop[l].pc = "store" /\ UNCHANGED <<asText, head, cursor, passed>>
  BY DEF Store
<1>3. PICK todo \in SUBSET Blocks : todo = loop[l].todo \ {b} /\ b \in Blocks
  BY <1>2, LeftBehind
<1>4. Fetched(l) \ todo \subseteq stored' \union passed'
  BY <1>1, <1>2, <1>3, LeftBehind
<1>5. stored' \subseteq Blocks /\ final' \subseteq stored'
  BY <1>1, <1>2, <1>3, LeftBehind
<1> QED
  BY <1>1, <1>2, <1>3, <1>4, <1>5, WithinRangeKeepsPollInv

LEMMA StoreFailsKeepsPollInv == ASSUME PollInv, NEW l \in Loops, StoreFails(l) PROVE PollInv'
<1>1. PICK b \in loop[l].todo :
        passed' = passed \union ({b} \ stored) /\ OnTo(l, "look", loop[l].todo \ {b})
  BY DEF StoreFails
<1>2. loop[l].pc = "store" /\ UNCHANGED <<asText, head, cursor, stored, final>>
  BY DEF StoreFails
<1>3. PICK todo \in SUBSET Blocks : todo = loop[l].todo \ {b}
  BY <1>2, LeftBehind
<1>4. Fetched(l) \ todo \subseteq stored' \union passed'
  BY <1>1, <1>2, <1>3, LeftBehind
<1> QED
  BY <1>1, <1>2, <1>3, <1>4, LeftBehind, WithinRangeKeepsPollInv

\* A save sets the cursor to the end of a range that was handled, or back to
\* the cursor the pass had read.
LEMMA SaveKeepsPollInv ==
  ASSUME PollInv, NEW l \in Loops, NEW last, last = loop[l].to \/ last = loop[l].base,
         loop[l].pc = "save" \/ (loop[l].pc \in {"fetch", "refused"} /\ last = loop[l].base),
         cursor' = last, Move(l, At("reconcile", loop[l].height)), UNCHANGED <<asText, head, stored, final, passed>>
  PROVE  PollInv'
<1>1. /\ loop[l] \in PollPasses /\ final \subseteq stored /\ stored \subseteq Blocks
  BY DEF PollInv, PollTypeOK, PollPasses, PollStages
<1>2. PICK k \in PollPasses : k = At("reconcile", loop[l].height) /\ k.pc = "reconcile"
  <2>1. loop[l].height \in 0 .. MaxHead
    BY <1>1 DEF PollPasses
  <2> QED
    BY <2>1, AtIsPass DEF PollStages
<1>3. last \in 0 .. MaxHead
  BY <1>1 DEF PollPasses
<1>4. Handled(1, loop[l].base) /\ (loop[l].pc = "save" => loop[l].from = loop[l].base + 1)
  BY DEF PollInv, RangesHandled
<1>5. loop[l].pc = "save" => Handled(1, loop[l].to)
  <2> SUFFICES ASSUME loop[l].pc = "save", NEW b \in 1 .. loop[l].to PROVE b \in stored \union passed
    BY DEF Handled
  <2>1. loop[l].from .. loop[l].to \subseteq stored \union passed
    BY DEF PollInv, RangesHandled, Fetched
  <2>2. b \in 1 .. loop[l].base \/ b \in loop[l].from .. loop[l].to
    BY <1>1, <1>4 DEF PollPasses
  <2> QED
    BY <1>4, <2>1, <2>2 DEF Handled
<1>6. Handled(1, cursor)'
  <2>1. Handled(1, last)
    BY <1>4, <1>5
  <2> QED
    BY <2>1 DEF Handled
<1>7. InRange(k)'
  BY <1>2 DEF InRange
<1>8. Move(l, k) /\ cursor' \in 0 .. MaxHead
  BY <1>2, <1>3
<1>9. stored' \subseteq Blocks /\ final' \subseteq stored' /\ (asText => stored' = {})
  BY <1>1 DEF PollInv, RefusedOrRead
<1> QED
  BY <1>6, <1>7, <1>8, <1>9, MoveKeepsPollInv

LEMMA SaveCursorKeepsPollInv == ASSUME PollInv, NEW l \in Loops, SaveCursor(l) PROVE PollInv'
<1>1. PICK last : last = loop[l].to
  OBVIOUS
<1>2. /\ cursor' = last /\ loop[l].pc = "save" /\ Move(l, At("reconcile", loop[l].height))
      /\ UNCHANGED <<asText, head, stored, final, passed>>
  BY <1>1 DEF SaveCursor, SaveLast
<1> QED
  BY <1>1, <1>2, SaveKeepsPollInv

LEMMA RefuseRangeKeepsPollInv == ASSUME PollInv, NEW l \in Loops, RefuseRange(l) PROVE PollInv'
<1>1. PICK last : last = loop[l].base
  OBVIOUS
<1>2. /\ cursor' = last /\ loop[l].pc = "refused" /\ Move(l, At("reconcile", loop[l].height))
      /\ UNCHANGED <<asText, head, stored, final, passed>>
  BY <1>1 DEF RefuseRange, SaveLast
<1> QED
  BY <1>1, <1>2, SaveKeepsPollInv

\* A call that fails: the state is saved as it was read, or not at all.
LEMMA CallFailsKeepsPollInv == ASSUME PollInv, NEW l \in Loops, CallFails(l) PROVE PollInv'
<1>1. UNCHANGED <<asText, head, stored, final, passed>> /\ final \subseteq stored
  BY DEF CallFails, PollInv, PollTypeOK
<1>2. CASE loop[l].pc = "fetch" /\ cursor' = loop[l].base /\ Move(l, At("reconcile", loop[l].height))
  <2>1. PICK last : last = loop[l].base
    OBVIOUS
  <2> QED
    BY <1>1, <1>2, <2>1, SaveKeepsPollInv
<1>3. CASE cursor' = cursor
  <2>1. PICK pc \in {"off", "sleep", "reconcile"}, top \in 0 .. MaxHead : Move(l, At(pc, top))
    BY PollAssumption DEF CallFails, Rest, Over, PollInv, PollTypeOK
  <2>2. PICK k \in PollPasses : k = At(pc, top) /\ k.pc = pc
    BY AtIsPass DEF PollStages
  <2> QED
    BY <1>1, <1>3, <2>1, <2>2, IdleKeepsPollInv
<1> QED
  BY <1>2, <1>3 DEF CallFails, OnError, SaveLast

LEMMA ReconcileKeepsPollInv == ASSUME PollInv, NEW l \in Loops, Reconcile(l) PROVE PollInv'
<1>1. final \subseteq stored /\ stored \subseteq Blocks /\ loop[l] \in PollPasses
  BY DEF PollInv, PollTypeOK, PollPasses, PollStages
<1>2. PICK todo \in SUBSET Blocks : todo = {b \in final : loop[l].height - b < Required}
  BY <1>1
<1>3. PICK k \in PollPasses : k = Pass("unfinal", loop[l].height, 0, 1, 0, todo) /\ k.pc = "unfinal"
  <2>1. loop[l].height \in 0 .. MaxHead
    BY <1>1 DEF PollPasses
  <2>2. Pass("unfinal", loop[l].height, 0, 1, 0, todo) \in PollPasses
    BY <2>1, PollAssumption DEF Pass, PollPasses, PollStages
  <2> QED
    BY <2>2 DEF Pass
<1>4. Move(l, k) /\ UNCHANGED <<asText, head, cursor, stored, final, passed>>
  BY <1>2, <1>3 DEF Reconcile
<1> QED
  BY <1>1, <1>3, <1>4, IdleKeepsPollInv

LEMMA UnfinaliseKeepsPollInv == ASSUME PollInv, NEW l \in Loops, Unfinalise(l) PROVE PollInv'
<1>1. PICK b \in loop[l].todo : final' = final \ {b} /\ OnTo(l, "unfinal", loop[l].todo \ {b})
  BY DEF Unfinalise
<1>2. UNCHANGED <<asText, head, cursor, stored, passed>> /\ final' \subseteq stored /\ loop[l] \in PollPasses
  BY <1>1 DEF Unfinalise, PollInv, PollTypeOK, PollPasses, PollStages
<1>3. PICK todo \in SUBSET Blocks : todo = loop[l].todo \ {b}
  BY <1>2 DEF PollPasses
<1>4. PICK k \in PollPasses : /\ k = Pass("unfinal", loop[l].height, loop[l].base, loop[l].from, loop[l].to, todo)
                          /\ k.pc = "unfinal"
  <2>1. /\ loop[l].height \in 0 .. MaxHead /\ loop[l].base \in 0 .. MaxHead
        /\ loop[l].from \in 1 .. MaxHead + 1 /\ loop[l].to \in 0 .. MaxHead
    BY <1>2 DEF PollPasses
  <2>2. Pass("unfinal", loop[l].height, loop[l].base, loop[l].from, loop[l].to, todo) \in PollPasses
    BY <2>1 DEF Pass, PollPasses, PollStages
  <2> QED
    BY <2>2 DEF Pass
<1>5. Move(l, k)
  BY <1>1, <1>3, <1>4 DEF OnTo
<1> QED
  BY <1>2, <1>4, <1>5, IdleKeepsPollInv

LEMMA PollStepKeepsPollInv == ASSUME PollInv, [PollNext]_pollVars PROVE PollInv'
<1>1. CASE Mine \/ FallBehind \/ StartIndexer \/ StartFails \/ StopIndexer \/ UNCHANGED pollVars
  BY <1>1, OutsideKeepsPollInv
<1>2. CASE Crash
  BY <1>2, CrashKeepsPollInv
<1>3. ASSUME NEW b \in Blocks, Backfill(b) PROVE PollInv'
  BY <1>3, BackfillKeepsPollInv
<1>4. ASSUME NEW l \in Loops, Launch(l) \/ PassStep(l) \/ StoreFails(l) \/ CallFails(l) PROVE PollInv'
  BY <1>4, IdleStepsKeepPollInv, ReadCursorKeepsPollInv, FetchKeepsPollInv, LookKeepsPollInv, StoreKeepsPollInv,
     SaveCursorKeepsPollInv, RefuseRangeKeepsPollInv, ReconcileKeepsPollInv, UnfinaliseKeepsPollInv, StoreFailsKeepsPollInv,
     CallFailsKeepsPollInv DEF PassStep
<1> QED
  BY <1>1, <1>2, <1>3, <1>4 DEF PollNext

\* However many loops poll, wherever they are stopped, crash or fail, every log
\* up to the cursor is stored or was passed by in one of the named ways.
THEOREM PollingInvariant == PollInit /\ [][PollNext]_pollVars => []PollInv
<1>1. PollInit => PollInv
  BY PollInitEstablishesPollInv
<1>2. PollInv /\ [PollNext]_pollVars => PollInv'
  BY PollStepKeepsPollInv
<1> QED
  BY <1>1, <1>2, PTL

\* The cursor falls only by a backfill, or when a save overwrites another one.
THEOREM CursorOnlyRises == PollInit /\ [][PollNext]_pollVars => CursorRises
<1> DEFINE Rises == cursor' < cursor => crossed' \/ \E b \in Blocks : Backfill(b)
<1>1. ASSUME PollInv, PollNext PROVE Rises
  <2>1. cursor \in Nat
    BY <1>1, PollAssumption DEF PollInv, PollTypeOK
  <2>2. ASSUME NEW l \in Loops, SaveCursor(l) PROVE Rises
    <3>1. loop[l].base < loop[l].to
      <4>1. loop[l].base \in Int /\ loop[l].to \in Int /\ loop[l].from = loop[l].base + 1 /\ loop[l].from <= loop[l].to
        BY <1>1, <2>2 DEF SaveCursor, PollInv, PollTypeOK, RangesHandled
      <4> QED
        BY <4>1
    <3>2. cursor' = loop[l].to /\ (cursor # loop[l].base => crossed')
      BY <2>2 DEF SaveCursor, SaveLast
    <3>3. loop[l].base \in Int /\ loop[l].to \in Int
      BY <1>1 DEF PollInv, PollTypeOK
    <3> QED
      BY <2>1, <3>1, <3>2, <3>3
  <2>3. ASSUME NEW l \in Loops, CallFails(l) PROVE Rises
    <3>1. cursor' = cursor \/ (cursor' = loop[l].base /\ (cursor # loop[l].base => crossed'))
      BY <2>3 DEF CallFails, OnError, SaveLast
    <3> QED
      BY <2>1, <3>1
  <2>4. CASE UNCHANGED cursor
    BY <2>1, <2>4
  <2>5. ASSUME NEW l \in Loops, RefuseRange(l) PROVE Rises
    <3>1. cursor' = loop[l].base /\ (cursor # loop[l].base => crossed')
      BY <2>5 DEF RefuseRange, SaveLast
    <3> QED
      BY <2>1, <3>1
  <2> QED
    BY <1>1, <2>2, <2>3, <2>4, <2>5
       DEF PollNext, PassStep, Mine, FallBehind, StartIndexer, StartFails, StopIndexer, Crash, Launch, Wake, GetHeight,
           ReadCursor, Fetch, Look, Store, Reconcile, Unfinalise, EndPass, StoreFails
<1>2. PollInv /\ [PollNext]_pollVars => [Rises]_pollVars
  BY <1>1
<1> QED
  BY <1>2, PollingInvariant, PTL DEF CursorRises

-----------------------------------------------------------------------------
(* The reward listener.                                                    *)

Feeds == [pc : {"down", "query", "handle", "listen", "live"}, from : 0 .. height, upto : 0 .. height,
          kind : Kinds, todo : SUBSET LogsOf(1, height)]

LEMMA StartIsAFeed ==
  ASSUME height \in Nat, NEW p \in {"down", "query", "handle", "listen", "live"}, NEW u \in 0 .. height
  PROVE  [pc |-> p, from |-> 0, upto |-> u, kind |-> "claim", todo |-> {}] \in Feeds
BY DEF Feeds, Kinds

\* A set of naturals that has a member has a smallest one.
LEMMA Smallest ==
  ASSUME NEW T \in SUBSET Nat, T # {}
  PROVE  \E m \in T : \A y \in T : m <= y
<1>1. PICK m \in T : \A y \in T : ~ (<<y, m>> \in OpToRel(<, Nat))
  BY NatLessThanWellFounded, WFMin
<1>2. ASSUME NEW y \in T PROVE m <= y
  <2>1. ~ (y < m)
    BY <1>1 DEF OpToRel
  <2> QED
    BY <2>1
<1> QED
  BY <1>2

\* The highest block of either table is a block of the chain, or 0.
LEMMA LastSyncedIsABlock ==
  ASSUME height \in 0 .. MaxBlock, rows \subseteq LogsOf(1, height)
  PROVE  LastSynced \in 0 .. height
<1> DEFINE T == {b \in 0 .. MaxBlock : \A r \in rows : r[1] <= b}
           L(b) == (b = 0 \/ \E k \in Kinds : <<b, k>> \in rows) /\ \A r \in rows : r[1] <= b
<1>1. T \in SUBSET Nat /\ height \in T
  BY FeedAssumption DEF LogsOf
<1> HIDE DEF T
<1>2. PICK m \in T : \A y \in T : m <= y
  BY <1>1, Smallest
<1> USE DEF T
<1>3. L(m)
  <2>1. CASE m = 0
    BY <2>1, <1>2
  <2>2. CASE m # 0
    <3>1. m - 1 \in 0 .. MaxBlock /\ m - 1 \notin T
      BY <2>2, <1>2, FeedAssumption
    <3>2. PICK r \in rows : ~ (r[1] <= m - 1)
      BY <3>1
    <3>3. r[1] = m /\ r = <<r[1], r[2]>> /\ r[2] \in Kinds
      BY <3>2, <1>2, FeedAssumption DEF LogsOf
    <3> QED
      BY <3>3, <1>2
  <2> QED
    BY <2>1, <2>2
<1>4. LastSynced \in 0 .. MaxBlock /\ L(LastSynced)
  BY <1>3, <1>2 DEF LastSynced
<1>5. ASSUME NEW k \in Kinds, <<LastSynced, k>> \in rows PROVE LastSynced \in 0 .. height
  BY <1>5, <1>4, FeedAssumption DEF LogsOf
<1>6. CASE LastSynced = 0
  BY <1>6, FeedAssumption
<1>7. LastSynced = 0 \/ \E k \in Kinds : <<LastSynced, k>> \in rows
  BY <1>4
<1> QED
  BY <1>5, <1>6, <1>7

\* The log handled next is one of those left.
LEMMA NextIsLeft ==
  ASSUME FeedTypeOK, feed.todo # {}
  PROVE  NextOne \in feed.todo
<1> DEFINE T == {r[1] : r \in feed.todo}
<1>1. feed.todo \subseteq (1 .. height) \X Kinds /\ height \in Nat
  BY FeedAssumption DEF FeedTypeOK, LogsOf
<1>2. T \in SUBSET Nat /\ T # {}
  BY <1>1
<1>3. PICK m \in T : \A y \in T : m <= y
  BY <1>2, Smallest
<1>4. PICK r \in feed.todo : r[1] = m
  BY <1>3
<1>5. \A q \in feed.todo : r[1] <= q[1]
  BY <1>3, <1>4
<1> QED
  BY <1>4, <1>5 DEF NextOne

LEMMA FeedInitEstablishesFeedInv == FeedInit => FeedInv
<1> SUFFICES ASSUME FeedInit PROVE FeedInv
  OBVIOUS
<1>1. height = 0 /\ rows = {} /\ LastSynced \in 0 .. 0
  BY LastSyncedIsABlock, FeedAssumption DEF FeedInit
<1> QED
  BY <1>1, FeedAssumption
  DEF FeedInit, FeedInv, FeedTypeOK, NothingMissed, AskedForAgain, BackfillCovers, Settled, Down, LogsOf, Kinds

\* What is settled stays so.
LEMMA SettledStays ==
  ASSUME NEW S, Settled(S), rows \subseteq rows', forgone \subseteq forgone'
  PROVE  S \subseteq rows' \union forgone'
BY DEF Settled

LEMMA MineBlockKeepsFeedInv == FeedInv /\ MineBlock => FeedInv'
<1> SUFFICES ASSUME FeedInv, MineBlock PROVE FeedInv'
  OBVIOUS
<1> USE FeedAssumption DEF FeedInv, MineBlock
<1>1. height' \in 0 .. MaxBlock /\ height \in Nat /\ height' = height + 1
  BY DEF FeedTypeOK
<1>2. FeedTypeOK'
  BY <1>1 DEF FeedTypeOK, LogsOf
<1>3. NothingMissed'
  BY <1>1 DEF NothingMissed, Settled, LogsOf
<1>4. BackfillCovers'
  BY <1>1 DEF BackfillCovers, Settled, LogsOf, ChunkLogs, ChunkEnd, LastSynced
<1>5. AskedForAgain'
  <2>1. \A r \in rows : r[1] \in 1 .. height
    BY <1>1 DEF FeedTypeOK, LogsOf
  <2>2. \A q \in LogsOf(height + 1, height + 1) : q[1] = height + 1
    BY <1>1 DEF LogsOf
  <2>3. live' \union unheard' \subseteq (live \union unheard) \union LogsOf(height + 1, height + 1)
    OBVIOUS
  <2> QED
    BY <1>1, <2>1, <2>2, <2>3 DEF AskedForAgain
<1> QED
  BY <1>2, <1>3, <1>4, <1>5

LEMMA BeginBackfillKeepsFeedInv == FeedInv /\ BeginBackfill => FeedInv'
<1> SUFFICES ASSUME FeedInv, BeginBackfill PROVE FeedInv'
  OBVIOUS
<1> USE FeedAssumption DEF FeedInv, BeginBackfill, FirstBlock, Down
<1>1. LastSynced \in 0 .. height /\ height \in Nat
  BY LastSyncedIsABlock DEF FeedTypeOK
<1>2. FeedTypeOK'
  <2>1. feed' \in {[pc |-> "listen", from |-> 0, upto |-> height, kind |-> "claim", todo |-> {}],
                  [pc |-> "query", from |-> LastSynced, upto |-> height, kind |-> "claim", todo |-> {}]}
    OBVIOUS
  <2>2. feed' \in Feeds /\ feed'.pc # "live"
    BY <1>1, <2>1 DEF Feeds, Kinds
  <2>3. forgone' \subseteq LogsOf(0, height)
    BY <1>1 DEF FeedTypeOK, LogsOf
  <2> QED
    BY <2>2, <2>3 DEF FeedTypeOK, Feeds
<1>3. NothingMissed' /\ AskedForAgain' /\ rows' \subseteq LogsOf(1, feed.upto)' /\ feed'.todo = {}
  BY DEF NothingMissed, AskedForAgain, FeedTypeOK
<1>4. CASE LastSynced >= height
  <2>1. feed'.pc = "listen" /\ feed'.upto = height
    BY <1>4
  <2>2. LogsOf(1, height) \subseteq rows' \union forgone'
    BY <1>1, <1>4 DEF BackfillCovers, Settled, LogsOf
  <2> QED
    BY <1>2, <1>3, <2>1, <2>2 DEF BackfillCovers, Settled
<1>5. CASE ~ (LastSynced >= height)
  <2>1. feed' = [pc |-> "query", from |-> LastSynced, upto |-> height, kind |-> "claim", todo |-> {}]
    BY <1>5
  <2>2. LogsOf(1, LastSynced - 1) \subseteq rows' \union forgone'
    BY <1>5 DEF BackfillCovers, Settled
  <2> QED
    BY <1>1, <1>2, <1>3, <1>5, <2>1, <2>2 DEF BackfillCovers, Settled
<1> QED
  BY <1>4, <1>5

LEMMA QueryChunkKeepsFeedInv == FeedInv /\ QueryChunk => FeedInv'
<1> SUFFICES ASSUME FeedInv, QueryChunk PROVE FeedInv'
  OBVIOUS
<1> USE FeedAssumption DEF FeedInv, QueryChunk
<1>1. height \in Nat /\ feed \in Feeds
  BY DEF FeedTypeOK, Feeds
<1>2. ChunkLogs(feed.kind) \subseteq LogsOf(1, height)
  BY <1>1 DEF ChunkLogs, ChunkEnd, LogsOf, Feeds
<1>3. feed' \in Feeds
  BY <1>1, <1>2 DEF Feeds
<1>4. FeedTypeOK'
  BY <1>3 DEF FeedTypeOK, Feeds
<1>5. feed'.pc = "handle" /\ feed'.kind = feed.kind /\ feed'.todo = ChunkLogs(feed.kind)
      /\ feed'.from = feed.from /\ feed'.upto = feed.upto
  BY <1>1 DEF Feeds
<1>6. ChunkEnd' = ChunkEnd
  BY <1>5 DEF ChunkEnd
<1>7. ChunkLogs(feed.kind) \subseteq LogsOf(1, feed.upto)
  BY <1>1 DEF ChunkLogs, ChunkEnd, LogsOf, Feeds
<1>8. rows' \union feed'.todo \subseteq LogsOf(1, feed.upto)'
  BY <1>5, <1>7 DEF BackfillCovers, LogsOf
<1>9. NothingMissed' /\ AskedForAgain'
  BY <1>5 DEF NothingMissed, AskedForAgain
<1> QED
  BY <1>4, <1>5, <1>6, <1>8, <1>9 DEF BackfillCovers, Settled, ChunkLogs

\* A log of the chunk is stored, or lost to an error: the chunk is as before.
LEMMA OneLessKeepsFeedInv ==
  ASSUME FeedInv, feed.pc = "handle", NEW r \in feed.todo,
         feed' = [feed EXCEPT !.todo = @ \ {r}],
         rows \subseteq rows', rows' \subseteq rows \union {r},
         forgone \subseteq forgone', forgone' \subseteq forgone \union {r},
         r \in rows' \union forgone', UNCHANGED <<height, live, unheard>>
  PROVE  FeedInv'
<1> USE FeedAssumption DEF FeedInv
<1>1. height \in Nat /\ feed \in Feeds
  BY DEF FeedTypeOK, Feeds
<1>2. feed' \in Feeds
  BY <1>1 DEF Feeds
<1>3. FeedTypeOK'
  <2>1. r \in LogsOf(1, height) /\ r \in LogsOf(0, height)
    BY <1>1 DEF Feeds, LogsOf
  <2> QED
    BY <1>2, <2>1 DEF FeedTypeOK, Feeds
<1>4. feed'.pc = "handle" /\ feed'.kind = feed.kind /\ feed'.todo = feed.todo \ {r}
      /\ feed'.from = feed.from /\ feed'.upto = feed.upto
  BY <1>1 DEF Feeds
<1>5. ChunkEnd' = ChunkEnd
  BY <1>4 DEF ChunkEnd
<1>6. rows' \union feed'.todo \subseteq LogsOf(1, feed.upto)'
  BY <1>4 DEF BackfillCovers, LogsOf
<1>7. NothingMissed' /\ AskedForAgain'
  BY <1>4 DEF NothingMissed, AskedForAgain, FeedTypeOK
<1> QED
  BY <1>3, <1>4, <1>5, <1>6, <1>7 DEF BackfillCovers, Settled, ChunkLogs

LEMMA AdvanceChunkKeepsFeedInv == FeedInv /\ AdvanceChunk => FeedInv'
<1> SUFFICES ASSUME FeedInv, AdvanceChunk PROVE FeedInv'
  OBVIOUS
<1> USE FeedAssumption DEF FeedInv, AdvanceChunk
<1>1. height \in Nat /\ feed \in Feeds
  BY DEF FeedTypeOK, Feeds
<1>2. Settled(ChunkLogs(feed.kind)) /\ Settled(LogsOf(1, feed.from - 1)) /\ feed.from <= feed.upto
  BY DEF BackfillCovers, Settled
<1>0. live' \union unheard' = {} /\ rows \subseteq LogsOf(1, feed.upto)
  BY DEF FeedTypeOK, BackfillCovers
<1>3. CASE feed.kind = "claim"
  <2>1. feed' = [feed EXCEPT !.pc = "query", !.kind = "distribution"]
    BY <1>3
  <2>2. feed' \in Feeds /\ feed'.pc = "query" /\ feed'.from = feed.from /\ feed'.upto = feed.upto
    BY <1>1, <2>1 DEF Feeds, Kinds
  <2>3. ChunkLogs("claim")' = ChunkLogs("claim")
    BY <2>2 DEF ChunkLogs, ChunkEnd
  <2>4. rows' \union feed'.todo \subseteq LogsOf(1, feed.upto)'
    BY <1>0, <2>1, <2>2 DEF LogsOf
  <2> QED
    BY <1>0, <1>2, <1>3, <2>2, <2>3, <2>4 DEF FeedTypeOK, Feeds, NothingMissed, AskedForAgain, BackfillCovers, Settled
<1>4. CASE feed.kind # "claim"
  <2>1. feed.kind = "distribution" /\ Settled(ChunkLogs("claim")) /\ Settled(ChunkLogs("distribution"))
    BY <1>1, <1>2, <1>4 DEF Feeds, Kinds, BackfillCovers
  <2>2. Settled(LogsOf(1, ChunkEnd))
    BY <1>1, <1>2, <2>1 DEF Settled, LogsOf, ChunkLogs, ChunkEnd, Kinds, Feeds
  <2>3. CASE feed.from + Chunk <= feed.upto
    <3>1. feed' = [feed EXCEPT !.pc = "query", !.kind = "claim", !.from = @ + Chunk]
      BY <1>4, <2>3
    <3>2. feed' \in Feeds /\ feed'.pc = "query" /\ feed'.kind = "claim"
          /\ feed'.from = feed.from + Chunk /\ feed'.upto = feed.upto
      <4>1. feed.from + Chunk \in 0 .. height
        BY <1>1, <2>3 DEF Feeds
      <4> QED
        BY <1>1, <3>1, <4>1 DEF Feeds, Kinds
    <3>3. feed'.from - 1 = ChunkEnd
      BY <1>1, <2>3, <3>2 DEF ChunkEnd, Feeds
    <3>4. rows' \union feed'.todo \subseteq LogsOf(1, feed.upto)'
      BY <1>0, <3>1, <3>2 DEF LogsOf
    <3> QED
      BY <1>0, <2>2, <2>3, <3>2, <3>3, <3>4
      DEF FeedTypeOK, Feeds, NothingMissed, AskedForAgain, BackfillCovers, Settled
  <2>4. CASE ~ (feed.from + Chunk <= feed.upto)
    <3>1. feed' = [pc |-> "listen", from |-> 0, upto |-> feed.upto, kind |-> "claim", todo |-> {}]
      BY <1>4, <2>4 DEF Down
    <3>2. feed' \in Feeds /\ feed'.pc = "listen" /\ feed'.upto = feed.upto
      <4>1. feed.upto \in 0 .. height
        BY <1>1 DEF Feeds
      <4> HIDE DEF AdvanceChunk
      <4> QED
        BY <1>1, <3>1, <4>1, StartIsAFeed
    <3>3. feed.upto = ChunkEnd
      BY <1>1, <2>4 DEF ChunkEnd, Feeds
    <3>4. rows' \union feed'.todo \subseteq LogsOf(1, feed.upto)'
      <4>1. rows' = rows
        OBVIOUS
      <4> HIDE DEF AdvanceChunk
      <4>2. feed'.todo = {} /\ feed'.upto = feed.upto
        BY <3>1
      <4> QED
        BY <1>0, <4>1, <4>2 DEF LogsOf
    <3>5. FeedTypeOK' /\ NothingMissed' /\ AskedForAgain'
      <4>1. UNCHANGED <<height, live, rows, unheard, forgone>>
        OBVIOUS
      <4> HIDE DEF AdvanceChunk
      <4>2. FeedTypeOK'
        BY <1>0, <3>2, <4>1 DEF FeedTypeOK, Feeds
      <4>3. NothingMissed' /\ AskedForAgain'
        BY <1>0, <3>2, <4>1 DEF NothingMissed, AskedForAgain
      <4> QED
        BY <4>2, <4>3
    <3>6. LogsOf(1, feed.upto)' \subseteq rows' \union forgone'
      BY <2>2, <3>2, <3>3 DEF Settled, LogsOf
    <3>7. BackfillCovers'
      BY <3>2, <3>4, <3>6 DEF BackfillCovers, Settled
    <3> QED
      BY <3>5, <3>7
  <2> QED
    BY <2>3, <2>4
<1> QED
  BY <1>3, <1>4

LEMMA ListenKeepsFeedInv == FeedInv /\ Listen => FeedInv'
<1> SUFFICES ASSUME FeedInv, Listen PROVE FeedInv'
  OBVIOUS
<1> USE FeedAssumption DEF FeedInv, Listen
<1>1. height \in Nat /\ feed \in Feeds
  BY DEF FeedTypeOK, Feeds
<1>2. feed' = [pc |-> "live", from |-> 0, upto |-> 0, kind |-> "claim", todo |-> {}]
  BY DEF Down
<1>3. FeedTypeOK'
  <2>1. feed' \in Feeds
    <3>1. 0 \in 0 .. height
      BY <1>1
    <3> HIDE DEF Listen
    <3> QED
      BY <1>1, <1>2, <3>1, StartIsAFeed
  <2>2. unheard' \subseteq LogsOf(1, height)
    BY <1>1 DEF LogsOf, Feeds
  <2> QED
    BY <1>2, <2>1, <2>2 DEF FeedTypeOK, Feeds
<1>4. LogsOf(1, height) \ unheard' \subseteq rows \union forgone
  BY <1>1 DEF BackfillCovers, Settled, LogsOf, Feeds
<1>5. AskedForAgain'
  <2>1. live' = {} /\ \A q \in unheard' : q[1] > feed.upto
    BY <1>1 DEF FeedTypeOK, LogsOf, Feeds
  <2>2. \A r \in rows : r[1] \in 1 .. feed.upto
    BY DEF BackfillCovers, LogsOf
  <2>3. feed.upto \in Int /\ \A q \in unheard' : q[1] \in Int
    BY <1>1 DEF Feeds, LogsOf
  <2> QED
    BY <2>1, <2>2, <2>3 DEF AskedForAgain
<1> QED
  BY <1>2, <1>3, <1>4, <1>5 DEF NothingMissed, BackfillCovers, Settled

\* The listener drops a log.
LEMMA HandleLiveKeepsFeedInv == ASSUME FeedInv, NEW r, HandleLive(r) PROVE FeedInv'
<1>1. feed.pc = "live" /\ live' \union unheard' = live \union unheard
  BY DEF HandleLive, FeedInv, FeedTypeOK
<1>2. UNCHANGED <<height, feed, rows, forgone>>
  BY DEF HandleLive
<1>3. FeedTypeOK'
  BY <1>1, <1>2 DEF HandleLive, FeedInv, FeedTypeOK
<1> QED
  BY <1>1, <1>2, <1>3 DEF FeedInv, NothingMissed, AskedForAgain, BackfillCovers, Settled

LEMMA GoDownKeepsFeedInv == FeedInv /\ GoDown => FeedInv'
<1> SUFFICES ASSUME FeedInv, GoDown PROVE FeedInv'
  OBVIOUS
<1> USE FeedAssumption DEF FeedInv, GoDown
<1>1. LastSynced \in 0 .. height /\ height \in Nat
  BY LastSyncedIsABlock DEF FeedTypeOK
<1>2. feed' = [pc |-> "down", from |-> 0, upto |-> 0, kind |-> "claim", todo |-> {}]
  BY DEF Down
<1>3. FeedTypeOK'
  BY <1>1, <1>2 DEF FeedTypeOK, LogsOf, Kinds
<1>4. LastSynced' = LastSynced
  BY DEF LastSynced
<1> QED
  BY <1>2, <1>3, <1>4 DEF NothingMissed, AskedForAgain, BackfillCovers, Settled

LEMMA FeedNextKeepsFeedInv == FeedInv /\ [FeedNext]_feedVars => FeedInv'
<1> SUFFICES ASSUME FeedInv, [FeedNext]_feedVars PROVE FeedInv'
  OBVIOUS
<1>1. CASE MineBlock
  BY <1>1, MineBlockKeepsFeedInv
<1>2. CASE BeginBackfill
  BY <1>2, BeginBackfillKeepsFeedInv
<1>3. CASE QueryChunk
  BY <1>3, QueryChunkKeepsFeedInv
<1>4. CASE HandleNext
  <2>1. NextOne \in feed.todo
    BY <1>4, NextIsLeft DEF HandleNext, FeedInv
  <2> QED
    BY <1>4, <2>1, OneLessKeepsFeedInv DEF HandleNext
<1>5. CASE AdvanceChunk
  BY <1>5, AdvanceChunkKeepsFeedInv
<1>6. CASE Listen
  BY <1>6, ListenKeepsFeedInv
<1>7. CASE HandlerFails
  <2>1. NextOne \in feed.todo
    BY <1>7, NextIsLeft DEF HandlerFails, FeedInv
  <2> QED
    BY <1>7, <2>1, OneLessKeepsFeedInv DEF HandlerFails
<1>8. CASE GoDown
  BY <1>8, GoDownKeepsFeedInv
<1>9. ASSUME NEW r \in LogsOf(1, MaxBlock), HandleLive(r) PROVE FeedInv'
  BY <1>9, HandleLiveKeepsFeedInv
<1>10. CASE UNCHANGED feedVars
  BY <1>10
  DEF feedVars, FeedInv, FeedTypeOK, NothingMissed, AskedForAgain, BackfillCovers, Settled, ChunkLogs, ChunkEnd,
      LastSynced
<1> QED
  BY <1>1, <1>2, <1>3, <1>4, <1>5, <1>6, <1>7, <1>8, <1>9, <1>10 DEF FeedNext, FeedStep

\* Every log of every mined block is stored, on its way, or lost in one of the
\* ways the code leaves open (BlockchainListenerService, RewardSyncService).
THEOREM FeedInvariant == FeedSpec => []FeedInv
<1>1. FeedInit => FeedInv
  BY FeedInitEstablishesFeedInv
<1>2. FeedInv /\ [FeedNext]_feedVars => FeedInv'
  BY FeedNextKeepsFeedInv
<1> QED
  BY <1>1, <1>2, PTL DEF FeedSpec

-----------------------------------------------------------------------------
(* All three.                                                              *)

\* The specification the run checks: each component keeps its invariant,
\* whichever of them runs.
THEOREM FeedsInvariant == FeedsSpec => [](Inv /\ PollInv /\ FeedInv)
<1>1. FeedsInit => Inv /\ PollInv /\ FeedInv
  BY InitEstablishesInv, PollInitEstablishesPollInv, FeedInitEstablishesFeedInv DEF FeedsInit
<1>2. Inv /\ PollInv /\ FeedInv /\ [FeedsNext]_feedsVars => (Inv /\ PollInv /\ FeedInv)'
  <2> SUFFICES ASSUME Inv, PollInv, FeedInv, [FeedsNext]_feedsVars PROVE (Inv /\ PollInv /\ FeedInv)'
    OBVIOUS
  <2>1. [Next]_vars /\ [PollNext]_pollVars /\ [FeedNext]_feedVars
    BY DEF FeedsNext, feedsVars, realtimeVars
  <2> QED
    BY <2>1, StepKeepsInv, PollStepKeepsPollInv, FeedNextKeepsFeedInv
<1> QED
  BY <1>1, <1>2, PTL DEF FeedsSpec

=============================================================================
