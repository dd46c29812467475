---------------------------- MODULE RpcFailover ----------------------------
(***************************************************************************)
(* RpcProviderManager and withRpcBackoff                                   *)
(* (src/src/blockchain/utils/rpc-backoff.util.ts): calls that overlap try  *)
(* the providers in their order, retry what is worth it, and pass over a   *)
(* provider whose circuit is open or that asked for a pause.               *)
(*                                                                         *)
(* The calls share the providers' states, and an outcome is recorded when  *)
(* it arrives, however old its request.  Between two awaits a call runs to *)
(* the end: it may pass over several providers in one step.                *)
(***************************************************************************)
EXTENDS Naturals, FiniteSets, FiniteSetsExt

CONSTANTS Calls,     \* calls of the manager
          Providers, \* in the order they are tried: 1 .. n
          Threshold, \* circuitBreakerThreshold
          Reset,     \* circuitBreakerResetMs, in ticks of the clock
          Pause,     \* rateLimitMs
          MaxRetries,
          MaxTime    \* bound: the last tick

VARIABLES
  now,     \* Date.now()
  circuit, \* each provider's state: [open, failures, retryAt, limitedUntil]
  rpc,     \* each call: [pc, at, attempt], `at' being the provider tried, 0 at first
  failed,  \* history: the providers that failed in each call
  skipped, \* history: the providers each call passed over
  streak   \* history: failures of each provider since it last answered

rpcVars == <<now, circuit, rpc, failed, skipped, streak>>

Closed == [open |-> FALSE, failures |-> 0, retryAt |-> 0, limitedUntil |-> 0]

RpcInit ==
  /\ now = 0
  /\ circuit = [p \in Providers |-> Closed]
  /\ rpc = [c \in Calls |-> [pc |-> "idle", at |-> 0, attempt |-> 0]]
  /\ failed = [c \in Calls |-> {}] /\ skipped = failed
  /\ streak = [p \in Providers |-> 0]

-----------------------------------------------------------------------------
(* What is done to the providers' states.                                  *)

\* Fault: the pause a provider asked for outlives its answer.
FaultMarkSuccess(s) == [Closed EXCEPT !.limitedUntil = s.limitedUntil]

MarkSuccess(s) == Closed

\* Whether the error asked for a pause is read from its code or its message.
MarkFailure(s, limited) ==
  LET n == s.failures + 1 IN
  [open |-> s.open \/ n >= Threshold, failures |-> n,
   retryAt |-> IF n >= Threshold THEN now + Reset ELSE s.retryAt,
   limitedUntil |-> IF limited THEN now + Pause ELSE s.limitedUntil]

\* The loop comes to a provider: a circuit whose time is over is closed.
Reached(s) == IF s.open /\ now >= s.retryAt THEN [s EXCEPT !.open = FALSE, !.failures = 0] ELSE s
Usable(s) == ~Reached(s).open /\ s.limitedUntil <= now

\* The loop goes on behind provider i, the states being s: it stops at the
\* first provider it can use, or throws.
GoOn(c, i, s) ==
  LET ahead == {p \in Providers : p > i}
      next  == {p \in ahead : Usable(s[p])}
      past  == IF next = {} THEN ahead ELSE {p \in ahead : p < Min(next)}
      seen  == IF next = {} THEN past ELSE past \union {Min(next)}
  IN /\ circuit' = [p \in Providers |-> IF p \in seen THEN Reached(s[p]) ELSE s[p]]
     /\ skipped' = [skipped EXCEPT ![c] = @ \union past]
     /\ rpc' = [rpc EXCEPT ![c] = IF next = {} THEN [pc |-> "failed", at |-> 0, attempt |-> 0]
                                  ELSE [pc |-> "network", at |-> Min(next), attempt |-> 0]]

-----------------------------------------------------------------------------
(* The steps of a call.                                                    *)

Call(c) ==
  /\ rpc[c].pc = "idle"
  /\ GoOn(c, 0, circuit)
  /\ UNCHANGED <<now, failed, streak>>

\* The catch of the loop: a failure is recorded and the next provider tried.
Fails(c, limited) ==
  LET p == rpc[c].at IN
  /\ GoOn(c, p, [circuit EXCEPT ![p] = MarkFailure(@, limited)])
  /\ failed' = [failed EXCEPT ![c] = @ \union {p}]
  /\ streak' = [streak EXCEPT ![p] = @ + 1]
  /\ UNCHANGED now

\* getNetwork answers with the expected chain, or not, or throws.
Network(c) ==
  /\ rpc[c].pc = "network"
  /\ \/ rpc' = [rpc EXCEPT ![c].pc = "attempt"] /\ UNCHANGED <<now, circuit, failed, skipped, streak>>
     \/ \E limited \in BOOLEAN : Fails(c, limited)

\* The method answers, and the block has the expected hash.
Answers(c) ==
  /\ rpc[c].pc = "attempt"
  /\ LET p == rpc[c].at IN
       /\ circuit' = [circuit EXCEPT ![p] = MarkSuccess(@)]
       /\ streak' = [streak EXCEPT ![p] = 0]
  /\ rpc' = [rpc EXCEPT ![c].pc = "done"]
  /\ UNCHANGED <<now, failed, skipped>>

\* An error worth a retry, while there are any left.
Sleep(c) ==
  /\ rpc[c].pc = "attempt" /\ rpc[c].attempt < MaxRetries
  /\ rpc' = [rpc EXCEPT ![c].pc = "sleep"]
  /\ UNCHANGED <<now, circuit, failed, skipped, streak>>

Wake(c) ==
  /\ rpc[c].pc = "sleep"
  /\ rpc' = [rpc EXCEPT ![c].pc = "attempt", ![c].attempt = @ + 1]
  /\ UNCHANGED <<now, circuit, failed, skipped, streak>>

\* An error not worth a retry, another block than the expected one, or an error
\* of the last attempt.
GiveUp(c) ==
  /\ rpc[c].pc = "attempt"
  /\ \E limited \in BOOLEAN : Fails(c, limited)

Tick == now < MaxTime /\ now' = now + 1 /\ UNCHANGED <<circuit, rpc, failed, skipped, streak>>

RpcStep(c) == Network(c) \/ Answers(c) \/ Sleep(c) \/ Wake(c) \/ GiveUp(c)
RpcNext == Tick \/ \E c \in Calls : Call(c) \/ RpcStep(c)

-----------------------------------------------------------------------------
(* The properties.                                                         *)

\* The clock, the circuits and the calls are well typed.
RpcTypeOK ==
  /\ now \in 0 .. MaxTime
  /\ \A p \in Providers : circuit[p].failures \in Nat /\ circuit[p].limitedUntil <= now + Pause
  /\ \A c \in Calls : rpc[c].at \in Providers \union {0} /\ rpc[c].attempt \in 0 .. MaxRetries

\* A circuit is open after enough failures without an answer between them, and
\* not for longer than the reset from now.
OpenAfterStreak == \A p \in Providers :
  circuit[p].failures <= streak[p] /\ (circuit[p].open => streak[p] >= Threshold /\ circuit[p].retryAt <= now + Reset)

\* A provider whose last outcome was an answer is passed over by nobody.
AnsweringIsUsable == \A p \in Providers : streak[p] = 0 => Usable(circuit[p])

\* A call throws only after it tried or passed over every provider, and tries
\* none that it has passed over or seen fail.
ThrowsAfterAll == \A c \in Calls :
  /\ rpc[c].pc = "failed" => failed[c] \union skipped[c] = Providers
  /\ rpc[c].at \notin skipped[c] \union failed[c]
  /\ failed[c] \intersect skipped[c] = {}

\* What every state of the manager keeps.
RpcInv == RpcTypeOK /\ OpenAfterStreak /\ AnsweringIsUsable /\ ThrowsAfterAll
=============================================================================
