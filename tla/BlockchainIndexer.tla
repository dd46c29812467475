------------------------- MODULE BlockchainIndexer -------------------------
(***************************************************************************)
(* src/src/blockchain/blockchain-indexer.service.ts: processEvent() and    *)
(* replayFromBlock(), each a task of the SequentialQueue whose body is a   *)
(* lookup or a read followed by one database transaction.                  *)
(*                                                                         *)
(* A transaction's writes are invisible until it commits, so they appear   *)
(* in the step that commits; what the transaction READ on the way (the     *)
(* idempotency lookup, the checkpoint, the rows to roll back) is kept in   *)
(* the task and may have gone stale by then.  Any statement may fail: the  *)
(* transaction rolls back and the caller's promise rejects.  The answer to *)
(* a commit may be lost after the database applied it: the caller then     *)
(* sees a rejection of something that was done.                            *)
(*                                                                         *)
(* A balance is the sum of the transfers applied to it, so the balances    *)
(* are represented by how often each transfer's amount has, net, left the  *)
(* sender's row and reached the receiver's.  decrement() and increment()   *)
(* are relative UPDATEs and commute; amounts and row arithmetic are left   *)
(* out.                                                                    *)
(***************************************************************************)
EXTENDS SequentialQueue, Integers

CONSTANTS
    Events,     \* event identities (txHash, logIndex)
    Blocks,     \* block numbers events are delivered with
    Transfers,  \* the events of type Transfer
    Legacy,     \* events whose row predates the payload column
    LegacyBlock \* the block those rows carry

ASSUME IndexerAssumption ==
    /\ Blocks \subseteq Nat
    /\ None \notin Nat
    /\ Transfers \subseteq Events
    /\ Legacy \subseteq Events
    /\ LegacyBlock \in Blocks

VARIABLES
    stored,     \* stored[e]: block of e's ProcessedEvent row, or None
    payload,    \* payload[e]: the row keeps the decoded payload
    debited,    \* debited[e]: net times e's amount left the sender's row
    credited,   \* credited[e]: net times e's amount reached the receiver's
    checkpoint, \* IndexerCheckpoint.lastBlock, or None before the first save
    op,         \* op[t]: what task t was asked to do
    stage,      \* stage[t]: the statement task t has reached
    seen        \* seen[t]: what task t has read in its transaction

Ledger == INSTANCE IndexerLedger WITH
    stored <- stored, payload <- payload, debited <- debited, credited <- credited,
    checkpoint <- checkpoint

tables == <<stored, payload, debited, credited, checkpoint>>
taskVars == <<op, stage, seen>>
vars == <<queueVars, tables, taskVars>>

\* A process task carries the event and its block; a replay task its start.
Requests ==
    [kind : {"process"}, event : Events, block : Blocks]
        \cup [kind : {"replay"}, block : Blocks]

Stage == {"none", "lookup", "applying", "saving", "loading", "reversing"}

\* The checkpoint and the orphaned rows a transaction has read.
Nothing == [last |-> 0, rows |-> {}]

TypeOK ==
    /\ QueueTypeOK
    /\ stored \in [Events -> Blocks \cup {None}]
    /\ payload \in [Events -> BOOLEAN]
    /\ debited \in [Events -> Int]
    /\ credited \in [Events -> Int]
    /\ checkpoint \in Nat \cup {None}
    /\ op \in [Tasks -> Requests \cup {None}]
    /\ stage \in [Tasks -> Stage]
    /\ seen \in [Tasks -> [last : Nat, rows : SUBSET Events]]

Once(S) == [e \in Events |-> IF e \in S THEN 1 ELSE 0]

Init ==
    /\ QueueInit
    /\ stored = [e \in Events |-> IF e \in Legacy THEN LegacyBlock ELSE None]
    /\ payload = [e \in Events |-> FALSE]
    /\ debited = Once(Legacy \cap Transfers)
    /\ credited = Once(Legacy \cap Transfers)
    /\ checkpoint = IF Legacy = {} THEN None ELSE LegacyBlock
    /\ op = [t \in Tasks |-> None]
    /\ stage = [t \in Tasks |-> "none"]
    /\ seen = [t \in Tasks |-> Nothing]

---------------------------------------------------------------------------
(* Faults, as in SequentialQueue.                                          *)

\* The reversal credits the sender back but leaves the receiver's amount.
FaultReverseSenderOnly(t, outcome) ==
    LET start == op[t].block
        reversed == {e \in seen[t].rows \cap Transfers : payload[e]}
    IN  /\ stage[t] = "reversing"
        /\ debited' = [e \in Events |-> debited[e] - (IF e \in reversed THEN 1 ELSE 0)]
        /\ stored' = [e \in Events |-> IF e \in Ledger!Orphaned(start) THEN None ELSE stored[e]]
        /\ payload' = [e \in Events |-> payload[e] /\ e \notin Ledger!Orphaned(start)]
        /\ checkpoint' = Ledger!RewoundTo(start)
        /\ Settle(t, outcome)
        /\ stage' = [stage EXCEPT ![t] = "none"]
        /\ seen' = [seen EXCEPT ![t] = Nothing]
        /\ UNCHANGED <<op, credited>>

---------------------------------------------------------------------------
(* The public calls: both only enqueue.                                    *)

Submit(t, request) ==
    /\ Enqueue(t)
    /\ op' = [op EXCEPT ![t] = request]
    /\ UNCHANGED <<tables, stage, seen>>

ProcessEvent(t, e, block) ==
    Submit(t, [kind |-> "process", event |-> e, block |-> block])

ReplayFromBlock(t, start) ==
    Submit(t, [kind |-> "replay", block |-> start])

\* The queue runs the task's closure.
Begin(t) ==
    /\ Start(t)
    /\ stage' = [stage EXCEPT ![t] = IF op[t].kind = "process" THEN "lookup" ELSE "loading"]
    /\ UNCHANGED <<tables, op, seen>>

\* The task's promise settles and its transaction, if any, is released.
Finish(t, outcome) ==
    /\ Settle(t, outcome)
    /\ stage' = [stage EXCEPT ![t] = "none"]
    /\ seen' = [seen EXCEPT ![t] = Nothing]
    /\ UNCHANGED op

---------------------------------------------------------------------------
(* processEventInternal.                                                   *)

\* `existing' found: nothing to do, no transaction is opened.
SkipDuplicate(t) ==
    /\ stage[t] = "lookup"
    /\ stored[op[t].event] # None
    /\ Finish(t, "fulfilled")
    /\ UNCHANGED tables

OpenTransaction(t) ==
    /\ stage[t] = "lookup"
    /\ stored[op[t].event] = None
    /\ stage' = [stage EXCEPT ![t] = "applying"]
    /\ UNCHANGED <<queueVars, tables, op, seen>>

\* saveCheckpoint reads the row it is about to overwrite.
ReadCheckpoint(t) ==
    /\ stage[t] = "applying"
    /\ stage' = [stage EXCEPT ![t] = "saving"]
    /\ seen' = [seen EXCEPT ![t].last = Ledger!LastBlock]
    /\ UNCHANGED <<queueVars, tables, op>>

\* The event row, the balances and the checkpoint become visible together.
\* The unique index on (txHash, logIndex) refuses a second row.
CommitEvent(t, outcome) ==
    LET e == op[t].event
        moved == IF e \in Transfers THEN 1 ELSE 0
    IN  /\ stage[t] = "saving"
        /\ stored[e] = None
        /\ stored' = [stored EXCEPT ![e] = op[t].block]
        /\ payload' = [payload EXCEPT ![e] = TRUE]
        /\ debited' = [debited EXCEPT ![e] = @ + moved]
        /\ credited' = [credited EXCEPT ![e] = @ + moved]
        /\ checkpoint' = Ledger!Greater(seen[t].last, op[t].block)
        /\ Finish(t, outcome)

---------------------------------------------------------------------------
(* replayFromBlockInternal.                                                *)

LoadOrphaned(t) ==
    /\ stage[t] = "loading"
    /\ stage' = [stage EXCEPT ![t] = "reversing"]
    /\ seen' = [seen EXCEPT ![t].rows = Ledger!Orphaned(op[t].block)]
    /\ UNCHANGED <<queueVars, tables, op>>

\* Reverses the transfers it loaded, deletes by block number whatever is there
\* by then, and sets the checkpoint without looking at its present value.
CommitReplay(t, outcome) ==
    LET start == op[t].block
        reversed == {e \in seen[t].rows \cap Transfers : payload[e]}
    IN  /\ stage[t] = "reversing"
        /\ debited' = [e \in Events |-> debited[e] - (IF e \in reversed THEN 1 ELSE 0)]
        /\ credited' = [e \in Events |-> credited[e] - (IF e \in reversed THEN 1 ELSE 0)]
        /\ stored' = [e \in Events |-> IF e \in Ledger!Orphaned(start) THEN None ELSE stored[e]]
        /\ payload' = [e \in Events |-> payload[e] /\ e \notin Ledger!Orphaned(start)]
        /\ checkpoint' = Ledger!RewoundTo(start)
        /\ Finish(t, outcome)

---------------------------------------------------------------------------
\* Any statement may throw: rollbackTransaction, then the promise rejects.
Fail(t) ==
    /\ stage[t] # "none"
    /\ Finish(t, "rejected")
    /\ UNCHANGED tables

\* The process dies: open transactions are rolled back by the database.
Crash ==
    /\ Restart
    /\ stage' = [t \in Tasks |-> "none"]
    /\ seen' = [t \in Tasks |-> Nothing]
    /\ UNCHANGED <<tables, op>>

\* The step task t takes on its own once it has been started.
TaskStep(t) ==
    \/ SkipDuplicate(t)
    \/ OpenTransaction(t)
    \/ ReadCheckpoint(t)
    \/ LoadOrphaned(t)
    \/ \E outcome \in {"fulfilled", "rejected"} :
         CommitEvent(t, outcome) \/ CommitReplay(t, outcome)
    \/ Fail(t)

Next ==
    \/ \E t \in Tasks :
         \/ \E block \in Blocks :
              ReplayFromBlock(t, block) \/ \E e \in Events : ProcessEvent(t, e, block)
         \/ Begin(t)
         \/ TaskStep(t)
    \/ Crash

Fairness == \A t \in Tasks : WF_vars(Begin(t)) /\ WF_vars(TaskStep(t))

SafetySpec == Init /\ [][Next]_vars

Spec == SafetySpec /\ Fairness

---------------------------------------------------------------------------
(***************************************************************************)
(* Properties.                                                             *)
(***************************************************************************)

\* Exactly once: however deliveries are repeated, fail, are lost in a restart
\* or are answered wrongly, a transfer is in the balances once if its event is
\* recorded and not at all if it is not, on both sides.
BalancesMatchEvents ==
    \A e \in Transfers :
        /\ debited[e] = IF stored[e] = None THEN 0 ELSE 1
        /\ credited[e] = IF stored[e] = None THEN 0 ELSE 1

\* A consumer that resumes after the checkpoint never meets a recorded event
\* again: no row lies beyond it, also after rollbacks and crashes.
CheckpointCoversEvents ==
    \A e \in Events : stored[e] # None => checkpoint # None /\ stored[e] <= checkpoint

\* A recorded event changes only by leaving the table, and only because a
\* rollback that was asked for and is running covers its block.
OnlyRollbackForgets ==
    [][\A e \in Events :
         stored[e] # None /\ stored'[e] # stored[e]
           => /\ stored'[e] = None
              /\ \E t \in Tasks : /\ phase[t] = "running"
                                  /\ op[t].kind = "replay"
                                  /\ op[t].block <= stored[e]]_vars

\* A caller that is told "done" finds it done: the event is recorded, or no
\* row and no checkpoint of the rolled-back range is left.
FulfilledMeansDone ==
    [][\A t \in Tasks :
         phase[t] = "running" /\ phase'[t] = "fulfilled"
           => IF op[t].kind = "process"
              THEN stored'[op[t].event] # None /\ checkpoint' # None
              ELSE /\ \A e \in Events : stored'[e] # None => stored'[e] < op[t].block
                   /\ checkpoint' = Ledger!RewoundTo(op[t].block)]_vars

\* Every step of the tables is one whole Record or one whole Rollback of the
\* abstract ledger: reads that precede the commit were still true at it.
LedgerInit ==
    /\ \A e \in Events : stored[e] \in {None, LegacyBlock}
    /\ BalancesMatchEvents
    /\ CheckpointCoversEvents

ImplementsLedger == LedgerInit /\ [][Ledger!LedgerNext]_tables

---------------------------------------------------------------------------
(***************************************************************************)
(* The inductive invariant.  What makes the reads of a task safe is that   *)
(* only the running task writes the tables, and the queue runs one task.   *)
(***************************************************************************)

\* Task t is at a statement exactly while it runs.
StageMatchesPhase ==
    \A t \in Tasks :
        /\ stage[t] # "none" <=> phase[t] = "running"
        /\ phase[t] # "new" => op[t] \in Requests
        /\ stage[t] \in {"lookup", "applying", "saving"} => op[t].kind = "process"
        /\ stage[t] \in {"loading", "reversing"} => op[t].kind = "replay"

\* What a task has read is still what the tables hold.
ReadsAreFresh ==
    \A t \in Tasks :
        /\ stage[t] \in {"applying", "saving"} => stored[op[t].event] = None
        /\ stage[t] = "saving" => seen[t].last = Ledger!LastBlock
        /\ stage[t] = "reversing" => seen[t].rows = Ledger!Orphaned(op[t].block)

PayloadKept == \A e \in Events : stored[e] # None => payload[e]

IInv ==
    /\ QueueInv
    /\ TypeOK
    /\ StageMatchesPhase
    /\ ReadsAreFresh
    /\ PayloadKept
    /\ BalancesMatchEvents
    /\ CheckpointCoversEvents
=============================================================================
