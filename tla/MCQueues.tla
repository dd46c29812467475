------------------------------ MODULE MCQueues ------------------------------
(***************************************************************************)
(* The two queues of the program, each with its fairness: the jobs of the  *)
(* webhooks, and the promise chain of the chain indexer.  They share no    *)
(* state; a behaviour exercises the one its initial state names.           *)
(***************************************************************************)
EXTENDS WebhookDelivery

CONSTANTS Tasks, None  \* SequentialQueue

VARIABLES
  scope,  \* the queue that runs
  \* SequentialQueue
  phase, prev, tail, pending, ticket, issued, waiter

Chain == INSTANCE SequentialQueue

webhookVars == vars
chainVars   == <<phase, prev, tail, pending, ticket, issued, waiter>>

QueuesInit ==
  /\ scope \in {"webhook", "chain"}
  /\ Init /\ Chain!QueueInit
  /\ scope = "chain" => firstAttempt = 0

QueuesNext ==
  \/ scope = "webhook" /\ Next /\ UNCHANGED <<scope, chainVars>>
  \/ scope = "chain" /\ Chain!QueueNext /\ UNCHANGED <<scope, webhookVars>>

\* The fairness of the queue that runs, as in WebhookDelivery!Spec and
\* SequentialQueue!QueueFairness.
QueuesFairness ==
  /\ \A j \in Jobs : WF_webhookVars(scope = "webhook" /\ Work(j))
  /\ WF_chainVars(scope = "chain" /\ \E t \in Tasks : Chain!Start(t))
  /\ WF_chainVars(scope = "chain" /\ Chain!SettleAny)

QueuesSpec == QueuesInit /\ [][QueuesNext]_<<scope, webhookVars, chainVars>> /\ QueuesFairness

\* "one failure cannot stall the whole queue" (SequentialQueue!EveryCallSettles).
EveryCallSettles == Chain!EveryCallSettles
=============================================================================
