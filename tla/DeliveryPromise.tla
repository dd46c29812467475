-------------------------- MODULE DeliveryPromise --------------------------
(***************************************************************************)
(* What src/src/webhooks promises of the deliveries of a webhook, with no  *)
(* job, call or worker in sight: a request is made for a delivery that is  *)
(* stored, out of the number that its queueings have granted; what is      *)
(* recorded of it has been earned by its requests; and nothing but a new   *)
(* queueing stores a delivery again that was removed with its webhook,     *)
(* although a save that had read the webhook may bring that back.          *)
(***************************************************************************)
EXTENDS Naturals

CONSTANTS Deliveries,
          Requests  \* the requests that a queueing of a delivery grants

VARIABLES status,   \* each delivery's status
          sent,     \* the requests made for it
          granted,  \* the requests that may be made for it
          answered, \* the deliveries with a request that was answered
          gone      \* whether the webhook is removed

promiseVars == <<status, sent, granted, answered, gone>>

PromiseInit ==
  /\ status = [d \in Deliveries |-> "none"]
  /\ sent = [d \in Deliveries |-> 0] /\ granted = [d \in Deliveries |-> 0]
  /\ answered = {} /\ gone = FALSE

Stored(d) == status[d] # "none"

\* The statuses that the requests made for d entitle it to.
Earned(d) ==
  {s \in {"DELIVERED", "FAILED", "DEAD_LETTER"} :
     /\ s = "DELIVERED" => d \in answered
     /\ s = "FAILED" => sent[d] > 0
     /\ s = "DEAD_LETTER" => sent[d] >= Requests}

Store(d) ==
  /\ ~gone
  /\ status' = [status EXCEPT ![d] = "PENDING"]
  /\ UNCHANGED <<sent, granted, answered, gone>>

\* A queueing of d, or a worker lost with a job of it, which grants one more.
Grant(d) ==
  /\ Stored(d)
  /\ \E n \in {1, Requests} : granted' = [granted EXCEPT ![d] = @ + n]
  /\ UNCHANGED <<status, sent, answered, gone>>

Request(d) ==
  /\ Stored(d) /\ sent[d] < granted[d]
  /\ sent' = [sent EXCEPT ![d] = @ + 1]
  /\ answered' \in {answered, answered \union {d}}
  /\ UNCHANGED <<status, granted, gone>>

Record(d) ==
  /\ Stored(d) /\ status[d] # "removed"
  /\ \E s \in Earned(d) : status' = [status EXCEPT ![d] = s]
  /\ UNCHANGED <<sent, granted, answered, gone>>

Remove ==
  /\ ~gone /\ gone' = TRUE
  /\ status' = [d \in Deliveries |-> IF Stored(d) THEN "removed" ELSE "none"]
  /\ UNCHANGED <<sent, granted, answered>>

\* The webhook is back, without its deliveries.
Restore ==
  /\ gone /\ gone' = FALSE
  /\ UNCHANGED <<status, sent, granted, answered>>

PromiseNext == Remove \/ Restore \/ \E d \in Deliveries : Store(d) \/ Grant(d) \/ Request(d) \/ Record(d)

PromiseSpec == PromiseInit /\ [][PromiseNext]_promiseVars
=============================================================================
