----------------------------- MODULE RewardFeed -----------------------------
(***************************************************************************)
(* BlockchainListenerService and RewardSyncService (src/src/rewards): the  *)
(* backfill at start-up, the live listener after it, and the two tables.   *)
(* Every block holds one claim and one distribution, the logs <<b, kind>>. *)
(* A log is looked up and inserted in one step: the unique index refuses a *)
(* second row, and the handler swallows that error as it does any other.   *)
(*                                                                         *)
(* The fields a handler reads are those of an EventLog, which queryFilter  *)
(* returns.  A listener of ethers 6 is given a ContractEventPayload, whose *)
(* log has them: there the hash, the block and the index are undefined.    *)
(***************************************************************************)
EXTENDS Integers

CONSTANTS
  MaxBlock,  \* blocks of the chain
  Chunk,     \* CHUNK_SIZE
  MaxOutages \* bound on failures and crashes together

ASSUME FeedAssumption == MaxBlock \in Nat /\ Chunk \in Nat \ {0}

VARIABLES
  height,  \* the last block mined
  feed,    \* the process: [pc, from, upto, kind, todo]
  live,    \* logs the listener was given and is handling
  rows,    \* logs stored in reward_claims and reward_distributions
  unheard, \* history: logs of the gap before the listener, and those it dropped
  forgone, \* history: logs lost by a backfill, and those below the last row
  outages  \* failures and crashes so far

feedVars == <<height, feed, live, rows, unheard, forgone, outages>>

Kinds == {"claim", "distribution"}
LogsOf(low, high) == (low .. high) \X Kinds
Down == [pc |-> "down", from |-> 0, upto |-> 0, kind |-> "claim", todo |-> {}]

FeedInit ==
  /\ height = 0 /\ feed = Down /\ live = {} /\ rows = {} /\ unheard = {} /\ forgone = {}
  /\ outages = 0

Outage == outages < MaxOutages /\ outages' = outages + 1

\* getLastSyncedBlock: the highest block of either table.
LastSynced == CHOOSE b \in 0 .. MaxBlock :
  (b = 0 \/ \E k \in Kinds : <<b, k>> \in rows) /\ \A r \in rows : r[1] <= b

-----------------------------------------------------------------------------

\* A live listener is given every log of a block mined while it listens.
MineBlock ==
  /\ height < MaxBlock /\ height' = height + 1
  /\ live' = IF feed.pc = "live" THEN live \union LogsOf(height + 1, height + 1) ELSE live
  /\ UNCHANGED <<feed, rows, unheard, forgone, outages>>

\* Fault: the block of the last row is taken for complete.
FaultFirstBlock == LastSynced + 1

\* The last block synced may have another log that was not.
FirstBlock == LastSynced

\* onModuleInit: what is there, and how far the chain is.  When the chain is no
\* further than the last row, the rest of that block is left out.
BeginBackfill ==
  /\ feed.pc = "down"
  /\ IF FirstBlock >= height
     THEN /\ feed' = [Down EXCEPT !.pc = "listen", !.upto = height]
          /\ forgone' = forgone \union (LogsOf(height, height) \ rows)
     ELSE /\ feed' = [Down EXCEPT !.pc = "query", !.from = FirstBlock, !.upto = height]
          /\ UNCHANGED forgone
  /\ UNCHANGED <<height, live, rows, unheard, outages>>

ChunkEnd == IF feed.from + Chunk - 1 < feed.upto THEN feed.from + Chunk - 1 ELSE feed.upto

\* Nothing is logged before the first block.
ChunkLogs(kind) == ((feed.from .. ChunkEnd) \ {0}) \X {kind}

\* queryFilter for one kind of log over one chunk.
QueryChunk ==
  /\ feed.pc = "query"
  /\ feed' = [feed EXCEPT !.pc = "handle", !.todo = ChunkLogs(feed.kind)]
  /\ UNCHANGED <<height, live, rows, unheard, forgone, outages>>

NextOne == CHOOSE r \in feed.todo : \A q \in feed.todo : r[1] <= q[1]

HandleNext ==
  /\ feed.pc = "handle" /\ feed.todo # {}
  /\ rows' = rows \union {NextOne}
  /\ feed' = [feed EXCEPT !.todo = @ \ {NextOne}]
  /\ UNCHANGED <<height, live, unheard, forgone, outages>>


\* First every claim of the chunk, then its distributions, then the next chunk.
AdvanceChunk ==
  /\ feed.pc = "handle" /\ feed.todo = {}
  /\ feed' = IF feed.kind = "claim" THEN [feed EXCEPT !.pc = "query", !.kind = "distribution"]
             ELSE IF feed.from + Chunk <= feed.upto
                  THEN [feed EXCEPT !.pc = "query", !.kind = "claim", !.from = @ + Chunk]
                  ELSE [Down EXCEPT !.pc = "listen", !.upto = feed.upto]
  /\ UNCHANGED <<height, live, rows, unheard, forgone, outages>>

\* The listener is set up: blocks mined since the backfill read the height are
\* in neither.
Listen ==
  /\ feed.pc = "listen"
  /\ feed' = [Down EXCEPT !.pc = "live"]
  /\ unheard' = LogsOf(feed.upto + 1, height)
  /\ UNCHANGED <<height, live, rows, forgone, outages>>

\* Handlers of live logs run beside each other.  A look-up by an undefined hash
\* and index finds any row, and the log counts as a duplicate; or there is no row,
\* and the INSERT without a hash is refused.  Either way nothing is stored.
HandleLive(r) ==
  /\ r \in live
  /\ live' = live \ {r} /\ unheard' = unheard \union {r}
  /\ UNCHANGED <<height, feed, rows, forgone, outages>>

\* The block cannot be read or the row not stored: logged, and that is all.
HandlerFails ==
  /\ feed.pc = "handle" /\ feed.todo # {} /\ Outage
  /\ feed' = [feed EXCEPT !.todo = @ \ {NextOne}]
  /\ forgone' = forgone \union ({NextOne} \ rows)
  /\ UNCHANGED <<height, live, rows, unheard>>

\* The process is lost, or a query fails and the module does not come up.  What
\* is not stored below the last row will not be looked for again.
GoDown ==
  /\ feed.pc # "down" /\ Outage
  /\ feed' = Down /\ live' = {} /\ unheard' = {}
  /\ forgone' = forgone \union (LogsOf(1, LastSynced - 1) \ rows)
  /\ UNCHANGED <<height, rows>>

FeedStep == BeginBackfill \/ QueryChunk \/ HandleNext \/ AdvanceChunk \/ Listen

FeedNext ==
  \/ MineBlock \/ FeedStep
  \/ HandlerFails \/ GoDown
  \/ \E r \in LogsOf(1, MaxBlock) : HandleLive(r)

\* The process comes up again, and its awaits settle.
FeedFairness == WF_feedVars(FeedStep)

FeedSpec == FeedInit /\ [][FeedNext]_feedVars /\ FeedFairness

-----------------------------------------------------------------------------
(* The properties.                                                         *)

\* The logs are those of mined blocks; only a listener is given logs.
FeedTypeOK ==
  /\ height \in 0 .. MaxBlock
  /\ live \subseteq LogsOf(1, height) /\ rows \subseteq LogsOf(1, height) /\ forgone \subseteq LogsOf(0, height)
  /\ unheard \subseteq LogsOf(1, height)
  /\ feed \in [pc : {"down", "query", "handle", "listen", "live"}, from : 0 .. height, upto : 0 .. height,
               kind : Kinds, todo : SUBSET LogsOf(1, height)]
  /\ live \union unheard # {} => feed.pc = "live"

Settled(logs) == logs \subseteq rows \union forgone

\* When the listener is up, every log of every block mined so far is stored, was
\* given to the listener or fell in the gap before it, or was lost in one of the
\* named ways: to a handler of the backfill that failed, below the last row when
\* the process went down, in the last row's block when the chain had got no further.
NothingMissed == feed.pc = "live" => Settled(LogsOf(1, height) \ (live \union unheard))

\* What the listener is given and what it missed lies above every row, for it
\* stores none of it: the next start asks for all of it.
AskedForAgain == \A q \in live \union unheard : \A r \in rows : r[1] < q[1]

\* So is what a backfill has left behind: the blocks before its chunk, the
\* claims when it has come to the distributions, the logs of the chunk that it
\* no longer holds; and before it starts, the blocks it will not ask for.  It
\* stores nothing above the height it has read.
BackfillCovers ==
  /\ feed.pc = "down" => Settled(LogsOf(1, LastSynced - 1))
  /\ feed.pc \in {"query", "handle"} =>
       /\ feed.from <= feed.upto /\ Settled(LogsOf(1, feed.from - 1))
       /\ feed.kind = "distribution" => Settled(ChunkLogs("claim"))
  /\ feed.pc = "handle" => Settled(ChunkLogs(feed.kind) \ feed.todo)
  /\ feed.pc = "listen" => Settled(LogsOf(1, feed.upto))
  /\ feed.pc \in {"query", "handle", "listen"} => rows \union feed.todo \subseteq LogsOf(1, feed.upto)

\* What every state of the feed keeps: the inductive invariant.
FeedInv == FeedTypeOK /\ NothingMissed /\ AskedForAgain /\ BackfillCovers


=============================================================================
