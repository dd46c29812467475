---------------------------- MODULE EventPolling ----------------------------
(***************************************************************************)
(* EventIndexerService (src/src/indexer): its poll loops, the cursor of    *)
(* one event type and the events it stores, one log in every block.        *)
(*                                                                         *)
(* stop() only lowers a flag.  A loop whose timer or pass is pending when  *)
(* start() raises it again goes on beside the new one.  save(state) is one *)
(* step: it writes the columns its own SELECT found to differ, so it takes *)
(* effect either at that SELECT or at its UPDATE.                          *)
(*                                                                         *)
(* lastProcessedBlockNumber is a bigint column, used as a number.  SQLite's *)
(* driver returns a number; Postgres's, which app.module.ts configures, a  *)
(* string, and + appends to that.                                          *)
(***************************************************************************)
EXTENDS Integers

CONSTANTS
  Loops,    \* poll loops a process may come to run
  MaxHead,  \* blocks of the chain: 1 .. MaxHead, each with one log
  Required, \* confirmationsRequired
  BlockRange,    \* blockRangePerBatch
  MaxMishaps \* bound on mishaps, backfills and stops together

ASSUME PollAssumption == MaxHead \in Nat /\ Required \in Nat /\ BlockRange \in Nat \ {0} /\ MaxMishaps \in Nat

VARIABLES
  asText,   \* whether the driver returns a bigint as a string
  head,     \* the block number the node answers with; it may fall behind
  running,  \* isIndexing
  starting, \* a start() is initialising the cursor
  cursor,   \* lastProcessedBlockNumber
  stored,   \* the rows of indexed_events, by the block of their log
  final,    \* those with isFinalized
  loop,     \* each loop: [pc, height, base, from, to, todo]
  passed,   \* history: logs that a pass went by without storing them
  crossed,  \* history: whether a save of the cursor overwrote another one
  mishaps   \* mishaps, backfills and stops so far

pollVars == <<asText, head, running, starting, cursor, stored, final, loop, passed, crossed, mishaps>>

Blocks == 1 .. MaxHead
Pass(pc, height, base, from, to, todo) ==
  [pc |-> pc, height |-> height, base |-> base, from |-> from, to |-> to, todo |-> todo]
At(pc, height) == Pass(pc, height, 0, 1, 0, {})
Over == At("off", 0)

PollInit ==
  /\ asText \in BOOLEAN
  /\ head = 0 /\ running = FALSE /\ starting = FALSE /\ cursor = 0
  /\ stored = {} /\ final = {}
  /\ loop = [l \in Loops |-> Over]
  /\ passed = {} /\ crossed = FALSE /\ mishaps = 0

Move(l, k) == loop' = [loop EXCEPT ![l] = k]
Mishap == mishaps < MaxMishaps /\ mishaps' = mishaps + 1

-----------------------------------------------------------------------------
(* The node, and the operations of the service.                            *)

Mine ==
  /\ head < MaxHead /\ head' = head + 1
  /\ UNCHANGED <<asText, running, starting, cursor, stored, final, loop, passed, crossed, mishaps>>

\* Another node answers, or the chain is reorganised: fewer blocks.
FallBehind ==
  /\ Mishap /\ head > 0 /\ head' = head - 1
  /\ UNCHANGED <<asText, running, starting, cursor, stored, final, loop, passed, crossed>>

StartIndexer ==
  /\ ~running /\ ~starting
  /\ running' = TRUE /\ starting' = TRUE
  /\ UNCHANGED <<asText, head, cursor, stored, final, loop, passed, crossed, mishaps>>

\* The cursors are there: startIndexingLoop begins a loop whatever the others do.
Launch(l) ==
  /\ starting /\ loop[l].pc = "off"
  /\ starting' = FALSE
  /\ Move(l, At("height", 0))
  /\ UNCHANGED <<asText, head, running, cursor, stored, final, passed, crossed, mishaps>>

\* A cursor could not be read or created.
StartFails ==
  /\ starting /\ Mishap
  /\ starting' = FALSE /\ running' = FALSE
  /\ UNCHANGED <<asText, head, cursor, stored, final, loop, passed, crossed>>

StopIndexer ==
  /\ running /\ Mishap /\ running' = FALSE
  /\ UNCHANGED <<asText, head, starting, cursor, stored, final, loop, passed, crossed>>

\* backfillFromBlock; a block after the next one leaves those in between out.
Backfill(b) ==
  /\ Mishap
  /\ cursor' = b - 1
  /\ passed' = passed \union ((cursor + 1 .. b - 1) \ stored)
  /\ UNCHANGED <<asText, head, running, starting, stored, final, loop, crossed>>

Crash ==
  /\ running /\ Mishap
  /\ running' = FALSE /\ starting' = FALSE /\ loop' = [l \in Loops |-> Over]
  /\ UNCHANGED <<asText, head, cursor, stored, final, passed, crossed>>

-----------------------------------------------------------------------------
(* A pass of a loop.                                                       *)

\* Fault: a loop that has caught up is not scheduled again.
FaultRest(l) == Move(l, IF running /\ cursor < head - Required THEN At("sleep", 0) ELSE Over)

\* The end of a pass: the next one is scheduled while the flag is up.
Rest(l) == Move(l, IF running THEN At("sleep", 0) ELSE Over)

Wake(l) ==
  /\ loop[l].pc = "sleep"
  /\ Move(l, IF running THEN At("height", 0) ELSE Over)
  /\ UNCHANGED <<asText, head, running, starting, cursor, stored, final, passed, crossed, mishaps>>

GetHeight(l) ==
  /\ loop[l].pc = "height"
  /\ Move(l, IF running THEN At("read", head) ELSE Over)
  /\ UNCHANGED <<asText, head, running, starting, cursor, stored, final, passed, crossed, mishaps>>

Least(m, n) == IF m < n THEN m ELSE n

\* lastProcessedBlockNumber + 1: '5' + 1 is '51'.
NextBlock(block) == IF asText THEN 10 * block + 1 ELSE block + 1

\* Appended to a string, the range is no limit: its end is not below the start.
EndBlock(start, height) ==
  IF asText THEN height - Required ELSE Least(start + BlockRange - 1, height - Required)

\* Fault: a range is worked on even if it is empty.
FaultNothingToDo(start, end) == end < 0

NothingToDo(start, end) == start > end

ReadCursor(l) ==
  /\ loop[l].pc = "read"
  /\ LET start == NextBlock(cursor)  end == EndBlock(start, loop[l].height) IN
     Move(l, IF NothingToDo(start, end) THEN At("reconcile", loop[l].height)
             ELSE IF asText THEN Pass("refused", loop[l].height, cursor, 1, 0, {})
             ELSE Pass("fetch", loop[l].height, cursor, start, end, {}))
  /\ UNCHANGED <<asText, head, running, starting, cursor, stored, final, passed, crossed, mishaps>>

Fetched(l) == loop[l].from .. loop[l].to
OnTo(l, pc, todo) == Move(l, Pass(pc, loop[l].height, loop[l].base, loop[l].from, loop[l].to, todo))

\* getLogs: of the blocks the node knows at that moment.
Fetch(l) ==
  /\ loop[l].pc = "fetch"
  /\ OnTo(l, "look", {b \in Fetched(l) : b <= head})
  /\ passed' = passed \union {b \in Fetched(l) \ stored : b > head}
  /\ UNCHANGED <<asText, head, running, starting, cursor, stored, final, crossed, mishaps>>

\* The logs come in order.
NextLog(l, b) == b \in loop[l].todo /\ \A c \in loop[l].todo : b <= c

\* A log that is stored already is skipped; none is left: the cursor is saved.
Look(l) ==
  /\ loop[l].pc = "look"
  /\ \/ loop[l].todo = {} /\ OnTo(l, "save", {})
     \/ \E b \in loop[l].todo : /\ NextLog(l, b)
                               /\ IF b \in stored THEN OnTo(l, "look", loop[l].todo \ {b})
                                  ELSE OnTo(l, "store", loop[l].todo)
  /\ UNCHANGED <<asText, head, running, starting, cursor, stored, final, passed, crossed, mishaps>>

\* The confirmations are counted from the end of the range; getBlock may not
\* know the block, which counts as none.
Confirmed(l, b) == loop[l].to - b >= Required

\* The insert; the unique index refuses a second row, and the error is logged.
Store(l) ==
  /\ loop[l].pc = "store"
  /\ \E b \in loop[l].todo :
       /\ NextLog(l, b)
       /\ stored' = stored \union {b}
       /\ \/ b \notin stored /\ Confirmed(l, b) /\ final' = final \union {b}
          \/ (b \in stored \/ ~Confirmed(l, b) \/ b > head) /\ UNCHANGED final
       /\ OnTo(l, "look", loop[l].todo \ {b})
  /\ UNCHANGED <<asText, head, running, starting, cursor, passed, crossed, mishaps>>

\* processEvent logs its errors and goes on.
StoreFails(l) ==
  /\ loop[l].pc = "store" /\ Mishap
  /\ \E b \in loop[l].todo : /\ NextLog(l, b)
                            /\ passed' = passed \union ({b} \ stored)
                            /\ OnTo(l, "look", loop[l].todo \ {b})
  /\ UNCHANGED <<asText, head, running, starting, cursor, stored, final, crossed>>

SaveLast(l, last) ==
  /\ cursor' = last
  /\ crossed' = (crossed \/ cursor # loop[l].base)

SaveCursor(l) ==
  /\ loop[l].pc = "save"
  /\ SaveLast(l, loop[l].to)
  /\ Move(l, At("reconcile", loop[l].height))
  /\ UNCHANGED <<asText, head, running, starting, stored, final, passed, mishaps>>

\* Fault: the state saved on an error of getLogs carries the end of the range.
FaultOnError(l) == SaveLast(l, loop[l].to)

\* getLogs: ethers takes a number, a bigint or a 0x string for a block and throws
\* at a decimal string; the state is saved as it was read, with the error.
RefuseRange(l) ==
  /\ loop[l].pc = "refused"
  /\ SaveLast(l, loop[l].base)
  /\ Move(l, At("reconcile", loop[l].height))
  /\ UNCHANGED <<asText, head, running, starting, stored, final, passed, mishaps>>

\* The state is saved as it was read, with the error; or it is not.
OnError(l) == SaveLast(l, loop[l].base) \/ UNCHANGED <<cursor, crossed>>

\* A call to the node or the database fails.  Every part of a pass catches its
\* own errors, and poll() schedules the next pass whatever happened.
CallFails(l) ==
  /\ Mishap
  /\ \/ loop[l].pc = "height" /\ Rest(l) /\ UNCHANGED <<cursor, crossed>>
     \/ /\ loop[l].pc \in {"read", "save", "refused"} /\ Move(l, At("reconcile", loop[l].height))
        /\ UNCHANGED <<cursor, crossed>>
     \/ loop[l].pc = "fetch" /\ Move(l, At("reconcile", loop[l].height)) /\ OnError(l)
     \/ loop[l].pc = "unfinal" /\ Rest(l) /\ UNCHANGED <<cursor, crossed>>
  /\ UNCHANGED <<asText, head, running, starting, stored, final, passed>>

\* Final events that are too few blocks below the height the pass has seen.
Reconcile(l) ==
  /\ loop[l].pc = "reconcile"
  /\ Move(l, Pass("unfinal", loop[l].height, 0, 1, 0, {b \in final : loop[l].height - b < Required}))
  /\ UNCHANGED <<asText, head, running, starting, cursor, stored, final, passed, crossed, mishaps>>

Unfinalise(l) ==
  /\ loop[l].pc = "unfinal"
  /\ \E b \in loop[l].todo : /\ NextLog(l, b)
                            /\ final' = final \ {b}
                            /\ OnTo(l, "unfinal", loop[l].todo \ {b})
  /\ UNCHANGED <<asText, head, running, starting, cursor, stored, passed, crossed, mishaps>>

EndPass(l) ==
  /\ loop[l].pc = "unfinal" /\ loop[l].todo = {}
  /\ Rest(l)
  /\ UNCHANGED <<asText, head, running, starting, cursor, stored, final, passed, crossed, mishaps>>

PassStep(l) ==
  \/ Wake(l) \/ GetHeight(l) \/ ReadCursor(l) \/ Fetch(l) \/ Look(l) \/ Store(l)
  \/ SaveCursor(l) \/ RefuseRange(l) \/ Reconcile(l) \/ Unfinalise(l) \/ EndPass(l)

PollNext ==
  \/ Mine \/ FallBehind \/ StartIndexer \/ StartFails \/ StopIndexer \/ Crash
  \/ \E b \in Blocks : Backfill(b)
  \/ \E l \in Loops : Launch(l) \/ PassStep(l) \/ StoreFails(l) \/ CallFails(l)

\* Timers fire and awaits settle.
PollFairness ==
  /\ WF_pollVars(\E l \in Loops : Launch(l))
  /\ \A l \in Loops : WF_pollVars(PassStep(l))

-----------------------------------------------------------------------------
(* The properties.                                                         *)

\* The chain, the cursor, the rows and the loops are well typed.
PollTypeOK ==
  /\ asText \in BOOLEAN /\ head \in 0 .. MaxHead /\ cursor \in 0 .. MaxHead
  /\ stored \subseteq Blocks /\ final \subseteq stored
  /\ loop \in [Loops -> [pc : {"off", "sleep", "height", "read", "refused", "fetch", "look", "store", "save",
                               "reconcile", "unfinal"},
                         height : 0 .. MaxHead, base : 0 .. MaxHead, from : 1 .. MaxHead + 1, to : 0 .. MaxHead,
                         todo : SUBSET Blocks]]

Handled(low, high) == low .. high \subseteq stored \union passed

\* Every log up to the cursor is stored, or some pass went by it: the node did
\* not return it, or its insert failed, or a backfill jumped over it.  However
\* many loops run and wherever they stop, none is lost otherwise.
NothingSkipped == Handled(1, cursor)

\* So is every log below the range of a pass, whatever the cursor does in the
\* meantime, and every log of its range that it has left behind.
RangesHandled ==
  \A l \in Loops :
    /\ loop[l].pc \in {"refused", "fetch", "look", "store", "save"} => Handled(1, loop[l].base)
    /\ loop[l].pc \in {"fetch", "look", "store", "save"} =>
         /\ loop[l].from = loop[l].base + 1 /\ loop[l].from <= loop[l].to
    /\ loop[l].pc \in {"look", "store", "save"} => Fetched(l) \ loop[l].todo \subseteq stored \union passed
    /\ loop[l].pc = "save" => loop[l].todo = {}

\* Where the driver returns strings every range is refused and no event is ever
\* stored; where it returns numbers, no range is refused.
RefusedOrRead ==
  /\ asText => stored = {} /\ \A l \in Loops : loop[l].pc \notin {"fetch", "look", "store", "save"}
  /\ ~asText => \A l \in Loops : loop[l].pc # "refused"

\* What every state of the indexer keeps: the inductive invariant.
PollInv == PollTypeOK /\ NothingSkipped /\ RangesHandled /\ RefusedOrRead

\* The cursor falls only by a backfill, or when a pass saves over a cursor that
\* is not the one it read.
CursorRises == [][cursor' < cursor => crossed' \/ \E b \in Blocks : Backfill(b)]_pollVars

\* An indexer that nobody stops any more comes to process every confirmed
\* block, again and again, whatever failed before and however many loops run,
\* where the driver returns numbers.  Where it returns strings it never does: its
\* passes come to an end one after the other, and that is all.
CatchesUp ==
  <>[]running => []<>(IF asText THEN \E l \in Loops : loop[l].pc = "reconcile"
                      ELSE cursor >= head - Required)

\* A pass that has ended its reconciliation leaves no event waiting for blocks
\* that are there.
DeepIsFinal ==
  \A l \in Loops : loop[l].pc = "unfinal" /\ loop[l].todo = {} =>
    \A b \in stored : loop[l].height - b >= Required => b \in final

=============================================================================
