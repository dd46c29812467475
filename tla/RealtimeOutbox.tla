--------------------------- MODULE RealtimeOutbox ---------------------------
(***************************************************************************)
(* The realtime projection stream (src/src/realtime): transactions record  *)
(* projection events in the outbox table, the passes of                    *)
(* RealtimePublisherService broadcast the committed ones and record        *)
(* rollbacks, and RealtimeService.streamFrom replays the outbox to a       *)
(* client before it goes live.                                             *)
(*                                                                         *)
(* One process.  A pass may still run when the cron starts the next.  The  *)
(* bus drains a subscriber's buffer in the microtask after the publish     *)
(* that filled it, before another pass can run: a broadcast reaches its    *)
(* streams in one step.                                                    *)
(***************************************************************************)
EXTENDS Integers, FiniteSets

CONSTANTS Ids,       \* bound: the ids the sequence of the table gives out, 1 .. n
          Txs,       \* transaction hashes of indexed events
          Streams,   \* clients' streams
          Passes,    \* runs of publishPending that may overlap
          MaxBatch,  \* maxPublishBatch
          MaxReplay, \* maxReplayRows
          MaxFaults, \* bound: failed updates and restarts
          None       \* no correlation

ASSUME OutboxAssumption ==
  /\ Ids \subseteq Nat \ {0} /\ None \notin Txs
  /\ MaxBatch \in Nat \ {0} /\ MaxReplay \in Nat /\ MaxFaults \in Nat

VARIABLES
  row,     \* projection_events: [state, kind, published, tx: the correlation of a final row]
  unfinal, \* transactions with an indexed event that is not, or no longer, final
  pass,    \* each pass: [pc, batch (ids left), at (the row in hand), full, todo (rows to roll back)]
  stream,  \* each stream: [pc, after, found, got (ids)]
  sent,    \* rows that were broadcast
  gap,     \* rows the replay left out, or broadcast after its query and before its end
  faults   \* failures so far

vars == <<row, unfinal, pass, stream, sent, gap, faults>>

Event(state, kind, tx) == [state |-> state, kind |-> kind, tx |-> tx, published |-> FALSE]
Unused == Event("unused", "change", None)

Stage(pc, batch, at, full, todo) == [pc |-> pc, batch |-> batch, at |-> at, full |-> full, todo |-> todo]
Resting == Stage("claim", {}, 0, FALSE, {})

View(pc, after, found, got) == [pc |-> pc, after |-> after, found |-> found, got |-> got]
NotOpen == View("new", 0, {}, {})

Init ==
  /\ row = [i \in Ids |-> Unused] /\ unfinal = {}
  /\ pass = [p \in Passes |-> Resting] /\ stream = [s \in Streams |-> NotOpen]
  /\ sent = {} /\ gap = [s \in Streams |-> {}] /\ faults = 0

Fails == faults < MaxFaults /\ faults' = faults + 1

\* What a SELECT of another transaction sees.
Visible(i) == row[i].state = "stored"

\* The first k of a set of ids.
FirstOf(ids, k) == {i \in ids : Cardinality({j \in ids : j < i}) < k}

NextId(i) == row[i].state = "unused" /\ \A k \in Ids : k < i => row[k].state # "unused"

-----------------------------------------------------------------------------
(* Recording.                                                              *)

\* emitWithinTransaction: the row has its id before its transaction ends.
Record(i) ==
  /\ NextId(i)
  /\ \E t \in Txs \union {None} : row' = [row EXCEPT ![i] = Event("open", "change", t)]
  /\ UNCHANGED <<unfinal, pass, stream, sent, gap, faults>>

End(i) ==
  /\ row[i].state = "open"
  /\ \E s \in {"stored", "undone"} : row' = [row EXCEPT ![i].state = s]
  /\ UNCHANGED <<unfinal, pass, stream, sent, gap, faults>>

\* The event indexer stores an event of t as not final, or takes that back after
\* a reorg.
Unfinal(t) ==
  /\ t \notin unfinal
  /\ unfinal' = unfinal \union {t}
  /\ UNCHANGED <<row, pass, stream, sent, gap, faults>>

-----------------------------------------------------------------------------
(* A pass of the publisher.                                                *)

\* Fault: a cursor in place of the flag, rows above every published one.
FaultClaimable == {i \in Ids : Visible(i) /\ \A k \in Ids : row[k].published => k < i}

Claimable == {i \in Ids : Visible(i) /\ ~row[i].published}

\* claimUnpublished.  Its row locks end with its transaction, at once.
Batch == FirstOf(Claimable, MaxBatch)

Enter(p, stage) == pass' = [pass EXCEPT ![p] = stage]

Claimed(p) ==
  Enter(p, IF Batch = {} THEN Stage("detect", {}, 0, FALSE, {})
           ELSE Stage("publish", Batch, 0, Cardinality(Batch) = MaxBatch, {}))

\* Fault: the rows are marked when they are claimed.
FaultClaim(p) ==
  /\ pass[p].pc = "claim"
  /\ row' = [i \in Ids |-> [row[i] EXCEPT !.published = @ \/ i \in Batch]]
  /\ Claimed(p)
  /\ UNCHANGED <<unfinal, stream, sent, gap, faults>>

Claim(p) ==
  /\ pass[p].pc = "claim"
  /\ Claimed(p)
  /\ UNCHANGED <<row, unfinal, stream, sent, gap, faults>>

\* A stream ignores the bus until its replay is done.
Received(st, i) == IF st.pc = "live" THEN View("live", st.after, st.found, st.got \union {i}) ELSE st

\* publishRow, the bus: the rows of a batch in the order of their ids.
Broadcast(p) ==
  /\ pass[p].pc = "publish"
  /\ \E i \in pass[p].batch :
       /\ \A k \in pass[p].batch : i <= k
       /\ sent' = sent \union {i}
       /\ stream' = [s \in Streams |-> Received(stream[s], i)]
       /\ gap' = [s \in Streams |-> IF stream[s].pc = "replay" THEN gap[s] \union {i} ELSE gap[s]]
       /\ Enter(p, Stage("mark", pass[p].batch \ {i}, i, pass[p].full, {}))
  /\ UNCHANGED <<row, unfinal, faults>>

\* The rest of the batch; after a full batch, another.
Continue(p) ==
  Enter(p, IF pass[p].batch # {} THEN Stage("publish", pass[p].batch, 0, pass[p].full, {})
           ELSE Stage(IF pass[p].full THEN "claim" ELSE "detect", {}, 0, FALSE, {}))

\* publishRow, the UPDATE.  When it fails the row stays unpublished.
Mark(p) ==
  /\ pass[p].pc = "mark"
  /\ \/ row' = [row EXCEPT ![pass[p].at].published = TRUE] /\ UNCHANGED faults
     \/ Fails /\ UNCHANGED row
  /\ Continue(p)
  /\ UNCHANGED <<unfinal, stream, sent, gap>>

Outdated(i) == row[i].published /\ row[i].tx \in unfinal

Detect(p) ==
  /\ pass[p].pc = "detect"
  /\ Enter(p, Stage("check", {}, 0, FALSE, {i \in Ids : Outdated(i)}))
  /\ UNCHANGED <<row, unfinal, stream, sent, gap, faults>>

\* A rollback of the row that is still to be published.
Pending(i) == \E k \in Ids : Visible(k) /\ row[k].kind = "rollback" /\ row[k].tx = row[i].tx /\ ~row[k].published

Check(p) ==
  /\ pass[p].pc = "check"
  /\ \/ pass[p].todo = {} /\ Enter(p, Resting)
     \/ \E i \in pass[p].todo :
          Enter(p, IF Pending(i) THEN Stage("check", {}, 0, FALSE, pass[p].todo \ {i})
                   ELSE Stage("insert", {}, i, FALSE, pass[p].todo))
  /\ UNCHANGED <<row, unfinal, stream, sent, gap, faults>>

\* The rollback is stored; when the ids are used up it is left out.
Insert(p) ==
  /\ pass[p].pc = "insert"
  /\ row' = [k \in Ids |-> IF NextId(k) THEN Event("stored", "rollback", row[pass[p].at].tx) ELSE row[k]]
  /\ Enter(p, Stage("check", {}, 0, FALSE, pass[p].todo \ {pass[p].at}))
  /\ UNCHANGED <<unfinal, stream, sent, gap, faults>>

Publish(p) == Claim(p) \/ Broadcast(p) \/ Mark(p) \/ Detect(p) \/ Check(p) \/ Insert(p)

-----------------------------------------------------------------------------
(* A client's stream.                                                      *)

\* Fault: an off-by-one on the cursor.
FaultAfter(c) == {i \in Ids : Visible(i) /\ i > c + 1}

\* Committed rows after the cursor, published or not.
After(c) == {i \in Ids : Visible(i) /\ i > c}

\* streamFrom with the cursor c: subscribed to the bus at once, the stream
\* ignores it until its query is answered; a longer answer is truncated.
Open(s) ==
  /\ stream[s].pc = "new"
  /\ \E c \in {0} \union Ids : LET found == FirstOf(After(c), MaxReplay) IN
       /\ stream' = [stream EXCEPT ![s] = View("replay", c, found, {})]
       /\ gap' = [gap EXCEPT ![s] = After(c) \ found]
  /\ UNCHANGED <<row, unfinal, pass, sent, faults>>

\* The answer of the query is replayed, and the stream is live.
GoLive(s) ==
  /\ stream[s].pc = "replay"
  /\ stream' = [stream EXCEPT ![s] = View("live", stream[s].after, {}, stream[s].found)]
  /\ UNCHANGED <<row, unfinal, pass, sent, gap, faults>>

\* The client leaves; it may open another stream.
Close(s) ==
  /\ stream[s].pc # "new"
  /\ stream' = [stream EXCEPT ![s] = NotOpen] /\ gap' = [gap EXCEPT ![s] = {}]
  /\ UNCHANGED <<row, unfinal, pass, sent, faults>>

\* The process restarts: passes, streams and open transactions are gone.
Restart ==
  /\ Fails
  /\ pass' = [p \in Passes |-> Resting]
  /\ stream' = [s \in Streams |-> NotOpen] /\ gap' = [s \in Streams |-> {}]
  /\ row' = [i \in Ids |-> IF row[i].state = "open" THEN [row[i] EXCEPT !.state = "undone"] ELSE row[i]]
  /\ UNCHANGED <<unfinal, sent>>

Next ==
  \/ \E i \in Ids : Record(i) \/ End(i)
  \/ \E t \in Txs : Unfinal(t)
  \/ \E p \in Passes : Publish(p)
  \/ \E s \in Streams : Open(s) \/ GoLive(s) \/ Close(s)
  \/ Restart

\* The cron starts passes for ever, and every statement of a pass is answered.
Spec == Init /\ [][Next]_vars /\ \A p \in Passes : WF_vars(Publish(p))

-----------------------------------------------------------------------------
(* The properties.                                                         *)

\* The table, the passes and the streams are well typed.
TypeOK ==
  /\ row \in [Ids -> [state : {"unused", "open", "stored", "undone"}, kind : {"change", "rollback"},
                      tx : Txs \union {None}, published : BOOLEAN]]
  /\ unfinal \subseteq Txs /\ sent \subseteq Ids /\ gap \in [Streams -> SUBSET Ids]
  /\ pass \in [Passes -> [pc : {"claim", "publish", "mark", "detect", "check", "insert"},
                          batch : SUBSET Ids, at : Ids \union {0}, full : BOOLEAN, todo : SUBSET Ids]]
  /\ stream \in [Streams -> [pc : {"new", "replay", "live"}, after : Ids \union {0},
                             found : SUBSET Ids, got : SUBSET Ids]]

\* Nothing is broadcast or replayed before its transaction has committed,
\* in whatever order the transactions end.
OnlyCommitted ==
  /\ \A i \in Ids : i \in sent => row[i].state = "stored"
  /\ \A s \in Streams, i \in Ids : i \in stream[s].got \union stream[s].found => row[i].state = "stored"

\* A row is marked published only after it was broadcast: failures and
\* restarts may broadcast it again and never skip it.
PublishedWasBroadcast == \A i \in Ids : row[i].published => i \in sent

\* A live stream has been given every broadcast row after its cursor, except
\* those its truncated replay left out and those broadcast between its query
\* and its going live.
MissedOnlyInGap ==
  \A s \in Streams, i \in Ids :
    stream[s].pc = "live" /\ i \in sent /\ i > stream[s].after => i \in stream[s].got \/ i \in gap[s]

\* The publisher records a rollback only for a transaction that is not final,
\* and after a final row of it was broadcast.
RollbackJustified ==
  \A i \in Ids : row[i].kind = "rollback" =>
    /\ row[i].tx \in unfinal
    /\ \E k \in Ids : k # i /\ row[k].tx = row[i].tx /\ k \in sent

\* What a pass holds is still true when it comes to use it: its batch has
\* committed, the row it marks was broadcast, the rows it rolls back were
\* published and are not final.
PassesHold ==
  \A p \in Passes :
    /\ \A i \in pass[p].batch : row[i].state = "stored"
    /\ pass[p].pc = "mark" => pass[p].at \in sent
    /\ \A i \in pass[p].todo : Outdated(i)
    /\ pass[p].pc = "insert" => pass[p].at \in pass[p].todo

\* A stream that replays has found every broadcast row, but for the gap.
ReplayCovers ==
  \A s \in Streams, i \in Ids :
    stream[s].pc = "replay" /\ i \in sent /\ i > stream[s].after => i \in stream[s].found \/ i \in gap[s]

\* What every state of the outbox keeps: the inductive invariant.
Inv ==
  /\ TypeOK /\ OnlyCommitted /\ PublishedWasBroadcast /\ RollbackJustified
  /\ MissedOnlyInGap /\ PassesHold /\ ReplayCovers

Progress(i) ==
  IF row[i].published THEN "published"
  ELSE IF i \in sent THEN "broadcast"
  ELSE IF Visible(i) THEN "committed" ELSE "absent"

progress == [i \in Ids |-> Progress(i)]

Promise == INSTANCE OutboxPromise WITH status <- progress

\* Overlapping passes, failed updates and restarts repeat a broadcast, and that
\* is all: every row comes as far as OutboxPromise lets it, in that order.
ImplementsPromise == Promise!PromiseSpec

\* Every committed row is published in the end, also one that commits after
\* rows with larger ids were published.
EveryRowPublished == \A i \in Ids : row[i].state = "stored" ~> row[i].published

=============================================================================
