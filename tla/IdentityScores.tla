--------------------------- MODULE IdentityScores ---------------------------
(***************************************************************************)
(* IdentityService, WorldcoinService and SybilResistanceService: who owns  *)
(* a wallet, who proved to be a person, and the scores computed from both  *)
(* (src/src/identity, src/src/sybil-resistance).                           *)
(*                                                                         *)
(* Users, wallets, scores and one copy of the verifications are in SQLite, *)
(* which runs one transaction at a time; the other copy is in Postgres.    *)
(* Nothing spans the two.  A step is one statement, or one transaction.    *)
(* Of a score only its Worldcoin component is kept; the other components   *)
(* are functions of the wallets' rows and of the stakes.                   *)
(***************************************************************************)
EXTENDS Naturals, FiniteSets

CONSTANTS Calls,     \* requests
          Users,     \* the users' rows
          Addresses, \* normalised addresses
          Chains,    \* names of chains
          Nullifiers,\* nullifier hashes of Worldcoin proofs
          None       \* no owner, no verification, no score

Wallets == Addresses \X Chains

VARIABLES
  owner,    \* the user a wallet's row names, or None without a row
  claimed,  \* Postgres: the user a nullifier's row names, or None
  proven,   \* SQLite: the same
  marked,   \* the users with worldcoinVerified
  score,    \* the Worldcoin component of each user's latest score, or None
  errand,   \* each request: [kind, pc, user, about, read, late]
  bare,     \* history: the users an unlink left without a wallet
  crossed,  \* history: the users who lost a wallet to an unlink that another crossed, or to
            \* one asked for by the wallet's owner before them
  torn      \* history: the nullifiers and users whose verification failed halfway

tables == <<owner, claimed, proven, marked, score>>
traces == <<bare, crossed, torn>>
identityVars == <<tables, errand, traces>>

\* `read' is what the request has read; `late' whether that has changed since.
Errand(kind, pc, u, about) ==
  [kind |-> kind, pc |-> pc, user |-> u, about |-> about, read |-> None, late |-> FALSE]
NotSent  == Errand("none", "new", None, None)
Answered == Errand("none", "done", None, None)

Owned(u) == {w \in Wallets : owner[w] = u}
OneOwner(o) == \A v, w \in Wallets : v[1] = w[1] /\ None \notin {o[v], o[w]} => o[v] = o[w]
Proven(u) == \E n \in Nullifiers : proven[n] = u

IdentityInit ==
  /\ owner \in {o \in [Wallets -> Users \union {None}] : OneOwner(o)}
  /\ claimed = [n \in Nullifiers |-> None] /\ proven = claimed
  /\ marked = {} /\ score = [u \in Users |-> None]
  /\ errand = [r \in Calls |-> NotSent]
  /\ bare = {} /\ crossed = {} /\ torn = {}

Send(r, kind, pc, u, about) ==
  errand[r] = NotSent /\ errand' = [errand EXCEPT ![r] = Errand(kind, pc, u, about)]
At(r, kind, pc) == errand[r].kind = kind /\ errand[r].pc = pc
Go(r, pc)  == errand' = [errand EXCEPT ![r].pc = pc]
Answer(r)  == errand' = [errand EXCEPT ![r] = Answered]

-----------------------------------------------------------------------------
(* Wallets.                                                                *)

\* Fault: only the chain asked for is looked at.
FaultLinkedRows(a, c) == {w \in Wallets : w = <<a, c>> /\ owner[w] # None}

\* findFirst searches by address; which of several rows it finds is not said.
LinkedRows(a, c) == {w \in Wallets : w[1] = a /\ owner[w] # None}

\* linkWallet, one transaction.  It writes when no row names another user, the
\* row found is not the one asked for, and the unique key is free.
LinkWallet(r, u, a, c) ==
  /\ errand[r] = NotSent /\ Answer(r)
  /\ LET found == LinkedRows(a, c)
         mayCreate == /\ found = {} \/ \E w \in found : owner[w] = u /\ w # <<a, c>>
                      /\ owner[<<a, c>>] = None
     IN owner' = IF mayCreate THEN [owner EXCEPT ![<<a, c>>] = u] ELSE owner
  /\ UNCHANGED <<claimed, proven, marked, score, traces>>

\* unlinkWallet: the row is found and it is the user's,
FindOwned(r, u, w) ==
  /\ errand[r] = NotSent
  /\ IF owner[w] = u THEN Send(r, "unlink", "count", u, w) ELSE Answer(r)
  /\ UNCHANGED <<tables, traces>>

\* the user's wallets are counted,
CountWallets(r) ==
  /\ At(r, "unlink", "count")
  /\ IF Cardinality(Owned(errand[r].user)) <= 1 THEN Answer(r) ELSE Go(r, "delete")
  /\ UNCHANGED <<tables, traces>>

\* and the row is deleted, whoever it names by now; without a row it fails.
DeleteWallet(r) ==
  /\ At(r, "unlink", "delete") /\ owner[errand[r].about] # None
  /\ LET w == errand[r].about  u == owner[w] IN
       /\ owner' = [owner EXCEPT ![w] = None]
       /\ bare' = IF Owned(u) = {w} THEN bare \union {u} ELSE bare
       /\ crossed' = IF errand[r].late \/ u # errand[r].user THEN crossed \union {u} ELSE crossed
       /\ errand' = [c \in Calls |->
            IF c = r THEN Answered
            ELSE IF At(c, "unlink", "delete") /\ errand[c].user = u THEN [errand[c] EXCEPT !.late = TRUE]
            ELSE errand[c]]
  /\ UNCHANGED <<claimed, proven, marked, score, torn>>

-----------------------------------------------------------------------------
(* Verification.                                                           *)

\* verifyProof: the proof is valid, and neither table has the nullifier.
CheckProof(r, u, n) ==
  /\ errand[r] = NotSent
  /\ IF claimed[n] = None /\ proven[n] = None THEN Send(r, "verify", "claim", u, n) ELSE Answer(r)
  /\ UNCHANGED <<tables, traces>>

\* The unique key of nullifierHash.
Unclaimed(n) == claimed[n] = None

\* The row in Postgres, which the loser of two requests cannot insert,
ClaimNullifier(r) ==
  /\ At(r, "verify", "claim")
  /\ LET n == errand[r].about IN
     IF Unclaimed(n)
     THEN claimed' = [claimed EXCEPT ![n] = errand[r].user] /\ Go(r, "prove")
     ELSE Answer(r) /\ UNCHANGED claimed
  /\ UNCHANGED <<owner, proven, marked, score, traces>>

\* the row in SQLite,
StoreProof(r) ==
  /\ At(r, "verify", "prove")
  /\ LET u == errand[r].user IN
       /\ proven' = [proven EXCEPT ![errand[r].about] = u]
       /\ errand' = [c \in Calls |->
            IF c = r THEN [errand[r] EXCEPT !.pc = "mark"]
            ELSE IF errand[c].pc = "record" /\ errand[c].user = u THEN [errand[c] EXCEPT !.late = TRUE]
            ELSE errand[c]]
  /\ UNCHANGED <<owner, claimed, marked, score, traces>>

\* the user's row,
MarkVerified(r) ==
  /\ errand[r].pc = "mark"
  /\ marked' = IF At(r, "unmark", "mark") THEN marked \ {errand[r].user} ELSE marked \union {errand[r].user}
  /\ Go(r, "compute")
  /\ UNCHANGED <<owner, claimed, proven, score, traces>>

\* gatherSignals asks for a verification, whatever the user's row says.
Verified(u) == Proven(u)

\* and recordSybilScore: the signals are gathered,
ComputeScore(r) ==
  /\ errand[r].pc = "compute"
  /\ errand' = [errand EXCEPT ![r].pc = "record", ![r].read = Verified(errand[r].user)]
  /\ UNCHANGED <<tables, traces>>

\* and the score is inserted: the latest one is the last one inserted.
RecordScore(r) ==
  /\ errand[r].pc = "record"
  /\ score' = [score EXCEPT ![errand[r].user] = errand[r].read]
  /\ torn' = IF errand[r].late THEN torn \union {errand[r].user} ELSE torn
  /\ Answer(r)
  /\ UNCHANGED <<owner, claimed, proven, marked, bare, crossed>>

\* Any statement may fail, or the process end: the caller gets an error, and
\* what was written stays.
StatementFails(r) ==
  /\ errand[r].pc \in {"count", "delete", "claim", "prove", "mark", "compute", "record"}
  /\ Answer(r)
  /\ torn' = IF errand[r].kind = "verify" /\ errand[r].pc # "claim"
             THEN torn \union {errand[r].user, errand[r].about} ELSE torn
  /\ UNCHANGED <<tables, bare, crossed>>

\* setWorldcoinVerified.
SetWorldcoinVerified(r, u, verified) ==
  /\ Send(r, IF verified THEN "mark" ELSE "unmark", "mark", u, None)
  /\ UNCHANGED <<tables, traces>>

\* getLatestSybilScore computes one where there is none; recalculateAllScores
\* computes one for each user.
LatestScore(r, u) == score[u] = None /\ Send(r, "score", "compute", u, None) /\ UNCHANGED <<tables, traces>>
RecalculateScore(r, u) == Send(r, "score", "compute", u, None) /\ UNCHANGED <<tables, traces>>

\* cleanupScoreHistory, when the latest score is a year old.
CleanupScores(r, u) ==
  /\ errand[r] = NotSent /\ Answer(r)
  /\ score' = [score EXCEPT ![u] = None]
  /\ UNCHANGED <<owner, claimed, proven, marked, traces>>

WalletNext == \E r \in Calls :
  \/ \E u \in Users, a \in Addresses, c \in Chains : LinkWallet(r, u, a, c) \/ FindOwned(r, u, <<a, c>>)
  \/ CountWallets(r) \/ DeleteWallet(r) \/ StatementFails(r)

ScoreNext == \E r \in Calls :
  \/ \E u \in Users :
       \/ \E n \in Nullifiers : CheckProof(r, u, n)
       \/ \E v \in BOOLEAN : SetWorldcoinVerified(r, u, v)
       \/ LatestScore(r, u) \/ RecalculateScore(r, u) \/ CleanupScores(r, u)
  \/ ClaimNullifier(r) \/ StoreProof(r) \/ MarkVerified(r)
  \/ ComputeScore(r) \/ RecordScore(r) \/ StatementFails(r)

\* The requests about wallets and those about verifications share no table.
IdentityNext == WalletNext \/ ScoreNext

-----------------------------------------------------------------------------
(* The properties.                                                         *)

\* Every table holds what its columns may hold.
IdentityTypeOK ==
  /\ owner \in [Wallets -> Users \union {None}]
  /\ claimed \in [Nullifiers -> Users \union {None}] /\ proven \in [Nullifiers -> Users \union {None}]
  /\ marked \subseteq Users /\ score \in [Users -> BOOLEAN \union {None}]
  /\ bare \subseteq Users /\ crossed \subseteq Users

\* "users must retain at least 1 linked wallet(s)" (identity.service.ts): who
\* loses the last one to an unlink lost it to two that crossed, or to that of
\* another user, who had the wallet when the request began.
BareOnlyWhenCrossed == bare \subseteq crossed

\* A proof in SQLite is the one in Postgres; a proof in Postgres alone is on its
\* way, or its request failed in between and it can never be used again.
ProofsAgree == \A n \in Nullifiers :
  /\ proven[n] # None => proven[n] = claimed[n]
  /\ claimed[n] # None /\ proven[n] = None =>
       n \in torn \/ \E r \in Calls : At(r, "verify", "prove") /\ errand[r].about = n

\* A score says what the verifications say, unless one is being computed, or
\* a request failed before it was, or stored what it had read too early.
ScoreUpToDate == \A u \in Users :
  /\ score[u] = TRUE => Proven(u)
  /\ score[u] = FALSE /\ Proven(u) =>
       \/ u \in torn
       \/ \E r \in Calls : /\ errand[r].user = u /\ errand[r].kind = "verify"
                           /\ errand[r].pc \in {"mark", "compute", "record"}

\* What every state of users, wallets and scores keeps.
IdentityInv ==
  /\ IdentityTypeOK /\ OneOwner(owner) /\ BareOnlyWhenCrossed /\ ProofsAgree /\ ScoreUpToDate
=============================================================================
