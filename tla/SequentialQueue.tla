-------------------------- MODULE SequentialQueue --------------------------
(***************************************************************************)
(* The promise chain of src/src/blockchain/utils/sequential-queue.ts.      *)
(*                                                                         *)
(* enqueue() chains the new task off `tail' whether the previous task      *)
(* fulfilled or rejected, replaces `tail' by the promise that settles with *)
(* the new task, and counts the task in `pending' until then.  A task      *)
(* starts when the promise it was chained off settles, so what runs when   *)
(* is decided by the chain alone: nothing here says "one at a time".       *)
(*                                                                         *)
(* The queue lives in the memory of one Node.js process: Restart models    *)
(* the loss of the process, of every unsettled task and of the chain.      *)
(* ticket and issued are history: the order of the enqueue() calls.        *)
(***************************************************************************)
EXTENDS Naturals, FiniteSets

CONSTANTS
    Tasks,      \* identities of enqueue() calls, each used once
    None        \* "no promise": tail is Promise.resolve()

ASSUME TasksAssumption == IsFiniteSet(Tasks) /\ None \notin Tasks

VARIABLES
    phase,      \* phase[t]: how far the call t has come
    prev,       \* prev[t]: the task whose settling t waits for
    tail,       \* the task behind this.tail
    pending,    \* this.pending
    ticket,     \* history: ticket[t] = k when t was the k-th call
    issued,     \* history: number of enqueue() calls
    waiter      \* the task an onIdle() caller awaits, see OnIdle

queueVars == <<phase, prev, tail, pending, ticket, issued, waiter>>

Settled == {"fulfilled", "rejected", "lost"}

Phase == {"new", "waiting", "running"} \cup Settled

Over(t) == phase[t] \in Settled

QueueTypeOK ==
    /\ phase \in [Tasks -> Phase]
    /\ prev \in [Tasks -> Tasks \cup {None}]
    /\ tail \in Tasks \cup {None}
    /\ pending \in Nat
    /\ ticket \in [Tasks -> Nat]
    /\ issued \in Nat
    /\ waiter \in [on : BOOLEAN, task : Tasks \cup {None}]

QueueInit ==
    /\ phase = [t \in Tasks |-> "new"]
    /\ prev = [t \in Tasks |-> None]
    /\ tail = None
    /\ pending = 0
    /\ ticket = [t \in Tasks |-> 0]
    /\ issued = 0
    /\ waiter = [on |-> FALSE, task |-> None]

---------------------------------------------------------------------------
(* Faults a slip in the code would introduce.  No definition uses them: a  *)
(* property is worth checking if one of them, in place of the action it is *)
(* named after, breaks it.                                                 *)

\* `this.tail = ...' forgotten.
FaultEnqueueKeepsTail(t) ==
    /\ phase[t] = "new"
    /\ phase' = [phase EXCEPT ![t] = "waiting"]
    /\ prev' = [prev EXCEPT ![t] = tail]
    /\ pending' = pending + 1
    /\ ticket' = [ticket EXCEPT ![t] = issued + 1]
    /\ issued' = issued + 1
    /\ UNCHANGED <<tail, waiter>>

\* The task is called at once instead of from the tail's reaction.
FaultStartAtOnce(t) == TRUE

\* `then' with one handler: a rejection is not passed over.
FaultChainNeedsSuccess(t) == prev[t] # None => phase[prev[t]] = "fulfilled"

---------------------------------------------------------------------------
(***************************************************************************)
(* enqueue(): runs to its end without an await, so it is one step.         *)
(***************************************************************************)
Enqueue(t) ==
    /\ phase[t] = "new"
    /\ phase' = [phase EXCEPT ![t] = "waiting"]
    /\ prev' = [prev EXCEPT ![t] = tail]
    /\ tail' = t
    /\ pending' = pending + 1
    /\ ticket' = [ticket EXCEPT ![t] = issued + 1]
    /\ issued' = issued + 1
    /\ UNCHANGED waiter

\* The promise t was chained off has settled, with whatever result.
ChainReached(t) == prev[t] # None => Over(prev[t])

Start(t) ==
    /\ phase[t] = "waiting"
    /\ ChainReached(t)
    /\ phase' = [phase EXCEPT ![t] = "running"]
    /\ UNCHANGED <<prev, tail, pending, ticket, issued, waiter>>

\* The task's promise settles; the tail's reaction, the first one registered
\* on it, decrements pending before any other code sees the result.
Settle(t, outcome) ==
    /\ phase[t] = "running"
    /\ phase' = [phase EXCEPT ![t] = outcome]
    /\ pending' = pending - 1
    /\ UNCHANGED <<prev, tail, ticket, issued, waiter>>

\* onIdle() reads this.tail once and awaits that promise.
OnIdle ==
    /\ ~waiter.on
    /\ waiter' = [on |-> TRUE, task |-> tail]
    /\ UNCHANGED <<phase, prev, tail, pending, ticket, issued>>

IdleReached == waiter.on /\ (waiter.task # None => Over(waiter.task))

OnIdleReturns ==
    /\ IdleReached
    /\ waiter' = [on |-> FALSE, task |-> None]
    /\ UNCHANGED <<phase, prev, tail, pending, ticket, issued>>

\* The process dies and comes back with an empty queue.
Restart ==
    /\ phase' = [t \in Tasks |->
                   IF phase[t] \in {"waiting", "running"} THEN "lost" ELSE phase[t]]
    /\ tail' = None
    /\ pending' = 0
    /\ waiter' = [on |-> FALSE, task |-> None]
    /\ UNCHANGED <<prev, ticket, issued>>

QueueNext ==
    \/ \E t \in Tasks :
         \/ Enqueue(t)
         \/ Start(t)
         \/ \E outcome \in {"fulfilled", "rejected"} : Settle(t, outcome)
    \/ OnIdle
    \/ OnIdleReturns
    \/ Restart

SettleAny == \E t \in Tasks, outcome \in {"fulfilled", "rejected"} : Settle(t, outcome)

(***************************************************************************)
(* The event loop runs a reaction whose promise has settled, and a task is *)
(* a bounded series of database calls, each of which answers or throws.    *)
(* Nobody is obliged to enqueue, to call onIdle() or to restart.           *)
(***************************************************************************)
QueueFairness == WF_queueVars(\E t \in Tasks : Start(t)) /\ WF_queueVars(SettleAny)

QueueSpec == QueueInit /\ [][QueueNext]_queueVars /\ QueueFairness

---------------------------------------------------------------------------
(***************************************************************************)
(* What the queue promises (lines 1-11 of the source).                     *)
(***************************************************************************)

\* "runs async tasks strictly one at a time": at most one task is between its
\* start and its settling, however calls, failures and restarts interleave.
OneAtATime ==
    \A a, b \in Tasks : phase[a] = "running" /\ phase[b] = "running" => a = b

\* "in the order they were enqueued": when a task has started, every task
\* enqueued before it has settled (or was lost with the process).
InOrder ==
    \A a, b \in Tasks :
        /\ 0 < ticket[a] /\ ticket[a] < ticket[b]
        /\ phase[b] \in {"running", "fulfilled", "rejected"}
        => Over(a)

Outstanding == {t \in Tasks : phase[t] \in {"waiting", "running"}}

\* The `size' getter (pending) is the number of tasks enqueued and not yet
\* settled: it neither leaks on a rejection nor drops below the truth.
SizeIsOutstanding == pending = Cardinality(Outstanding)

\* "one failure cannot stall the whole queue": every call to enqueue() gets an
\* answer, unless the process that holds it is lost.
EveryCallSettles == \A t \in Tasks : (phase[t] = "waiting") ~> Over(t)

---------------------------------------------------------------------------
(***************************************************************************)
(* Why OneAtATime holds.  Nothing compares tasks with one another: each    *)
(* one waits for its predecessor only.  The chain of predecessors goes     *)
(* through every earlier unsettled ticket, so "my predecessor is over"     *)
(* means "everybody before me is over".                                    *)
(***************************************************************************)
Started(t) == phase[t] \in {"running"} \cup Settled

\* Tickets number the calls, from 1.
TicketsNumberCalls ==
    /\ \A t \in Tasks : phase[t] = "new" <=> ticket[t] = 0
    /\ \A t \in Tasks : ticket[t] <= issued
    /\ \A a, b \in Tasks : ticket[a] = ticket[b] /\ ticket[a] # 0 => a = b

\* The tail is the latest call, or nothing when nothing is outstanding.
TailIsLatest ==
    IF tail = None
    THEN Outstanding = {}
    ELSE ticket[tail] = issued /\ issued # 0

\* A waiting task is chained off the call just before its own; if it was
\* chained off nothing, every earlier call is over.
ChainIsComplete ==
    \A b \in Tasks :
        phase[b] = "waiting" =>
            IF prev[b] = None
            THEN \A a \in Tasks : 0 < ticket[a] /\ ticket[a] < ticket[b] => Over(a)
            ELSE ticket[prev[b]] # 0 /\ ticket[prev[b]] + 1 = ticket[b]

EarlierAreOver ==
    \A a, b \in Tasks :
        0 < ticket[a] /\ ticket[a] < ticket[b] /\ Started(b) => Over(a)

QueueInv ==
    /\ QueueTypeOK
    /\ TicketsNumberCalls
    /\ TailIsLatest
    /\ ChainIsComplete
    /\ EarlierAreOver
    /\ SizeIsOutstanding
=============================================================================
