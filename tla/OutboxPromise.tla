---------------------------- MODULE OutboxPromise ----------------------------
(***************************************************************************)
(* What src/src/realtime promises for a projection event, with no pass, no *)
(* failed update and no restart in sight: it is seen by nobody before its  *)
(* transaction commits, and it is broadcast before it is published.        *)
(***************************************************************************)
CONSTANT Ids  \* the rows of the outbox

VARIABLE status  \* how far each row has come

PromiseInit == status = [i \in Ids |-> "absent"]

Come(i, from, to) == status[i] = from /\ status' = [status EXCEPT ![i] = to]

PromiseNext == \E i \in Ids :
  \/ Come(i, "absent", "committed")
  \/ Come(i, "committed", "broadcast")
  \/ Come(i, "broadcast", "published")

PromiseSpec == PromiseInit /\ [][PromiseNext]_status
=============================================================================
