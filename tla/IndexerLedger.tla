--------------------------- MODULE IndexerLedger ---------------------------
(***************************************************************************)
(* What src/src/blockchain/blockchain-indexer.service.ts promises of its   *)
(* three tables, with no queue, no transaction and no failure in sight:    *)
(* an event is recorded, moved into the balances and reflected in the      *)
(* checkpoint in one indivisible step, and a rollback undoes a suffix of   *)
(* the blocks in one indivisible step.  BlockchainIndexer implements it.   *)
(***************************************************************************)
EXTENDS Integers

CONSTANTS
    Events,     \* event identities (txHash, logIndex)
    Blocks,     \* block numbers
    Transfers,  \* the events of type Transfer
    None        \* no row

VARIABLES
    stored,     \* stored[e]: block of e's ProcessedEvent row, or None
    payload,    \* payload[e]: the row keeps the decoded payload
    debited,    \* debited[e]: net times the amount of e left the sender
    credited,   \* credited[e]: net times the amount of e reached the receiver
    checkpoint  \* IndexerCheckpoint.lastBlock, or None before the first save

ledgerVars == <<stored, payload, debited, credited, checkpoint>>

\* Faults, as in SequentialQueue: the maximum not taken, the rewind not
\* clamped, and two slips in the range a rollback covers.
FaultLatest(m, n) == n

FaultOneBlockMore(start) == {e \in Events : stored[e] # None /\ stored[e] + 1 >= start}

FaultExactBlock(start) == {e \in Events : stored[e] # None /\ stored[e] = start}

Greater(m, n) == IF m > n THEN m ELSE n

\* `checkpoint ? checkpoint.lastBlock : 0'
LastBlock == IF checkpoint = None THEN 0 ELSE checkpoint

RewoundTo(start) == Greater(0, start - 1)

Orphaned(start) == {e \in Events : stored[e] # None /\ stored[e] >= start}

Record(e, block) ==
    /\ stored[e] = None
    /\ stored' = [stored EXCEPT ![e] = block]
    /\ payload' = [payload EXCEPT ![e] = TRUE]
    /\ debited' = [debited EXCEPT ![e] = IF e \in Transfers THEN @ + 1 ELSE @]
    /\ credited' = [credited EXCEPT ![e] = IF e \in Transfers THEN @ + 1 ELSE @]
    /\ checkpoint' = Greater(LastBlock, block)

Rollback(start) ==
    LET reversed == {e \in Orphaned(start) \cap Transfers : payload[e]} IN
    /\ debited' = [e \in Events |-> IF e \in reversed THEN debited[e] - 1 ELSE debited[e]]
    /\ credited' = [e \in Events |-> IF e \in reversed THEN credited[e] - 1 ELSE credited[e]]
    /\ stored' = [e \in Events |-> IF e \in Orphaned(start) THEN None ELSE stored[e]]
    /\ payload' = [e \in Events |-> payload[e] /\ e \notin Orphaned(start)]
    /\ checkpoint' = RewoundTo(start)

LedgerNext ==
    \E block \in Blocks : Rollback(block) \/ \E e \in Events : Record(e, block)
=============================================================================
