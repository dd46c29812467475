------------------------------ MODULE ScoreJobs ------------------------------
(***************************************************************************)
(* The two jobs of JobsService (src/src/jobs) that feed each other:        *)
(* computeScores finalizes claims by the reputation of those who staked,   *)
(* computeReputation rates those who staked by the claims finalized.       *)
(*                                                                         *)
(* A run reads what it needs first and then saves row after row.  Runs     *)
(* overlap: the cron adds jobs every hour, an administrator at will, and   *)
(* the queue repeats a job whose worker was lost.  Every vote counts as    *)
(* TRUE (deriveVotedTrue), so the weight of the votes for FALSE is 0.      *)
(***************************************************************************)
EXTENDS Integers, FiniteSets

CONSTANTS Calls,  \* runs of a job, and other requests
          Raters, \* users who staked
          Topics, \* claims
          ScoreBatch,      \* SCORE_BATCH_SIZE, a number
          ReputationBatch, \* REPUTATION_BATCH_SIZE, a number
          None    \* nothing read

VARIABLES
  stakes,     \* each user's row for each claim: "none", "withdrawn" or "staked"
  verdict,    \* each claim: "open", or finalized "true" or "false"
  reputation, \* each user's reputation, 0 .. 100
  work,       \* each run: [job, pc, claims, users, batch, todo, clean]
  outside,    \* history: whether someone else than a job finalized a claim
  everTrue,   \* history: the claims that were finalized "true" at some time
  uptodate    \* history: whom the last rating took, if it was undisturbed and no claim changed since

jobsVars == <<stakes, verdict, reputation, work, outside, everTrue, uptodate>>

NotRun   == [job |-> "none", pc |-> "new", claims |-> None, users |-> None,
             batch |-> {}, todo |-> {}, clean |-> FALSE]
Finished == [NotRun EXCEPT !.pc = "done"]

JobsInit ==
  /\ stakes \in [Raters \X Topics -> {"none", "withdrawn", "staked"}]
  /\ verdict = [c \in Topics |-> "open"]
  /\ reputation = [u \in Raters |-> 0]
  /\ work = [r \in Calls |-> NotRun]
  /\ outside = FALSE /\ everTrue = {} /\ uptodate = {}

Running(job) == {r \in Calls : work[r].job = job /\ work[r].pc # "done"}

\* A claim becomes v: whoever is rating rates by what was, and so did the last.
SetVerdict(c, v) ==
  /\ verdict' = [verdict EXCEPT ![c] = v]
  /\ everTrue' = IF v = "true" THEN everTrue \union {c} ELSE everTrue
  /\ uptodate' = IF v = verdict[c] THEN uptodate ELSE {}
Disturbed(c, v) == IF v = verdict[c] THEN work ELSE [r \in Calls |-> [work[r] EXCEPT !.clean = FALSE]]

\* ClaimsService and ClaimResolutionService.
FinalizeOutside(r, c, v) ==
  /\ work[r] = NotRun /\ verdict[c] = "open"
  /\ SetVerdict(c, v)
  /\ work' = [Disturbed(c, v) EXCEPT ![r] = Finished]
  /\ outside' = TRUE
  /\ UNCHANGED <<stakes, reputation>>

\* What a query without an order may return of the rows when it takes at most size.
Batches(rows, size) ==
  {batch \in SUBSET rows : Cardinality(batch) <= size /\ (batch # rows => Cardinality(batch) = size)}

-----------------------------------------------------------------------------
(* computeScores.                                                          *)

\* Of the claims not finalized, a batch.
BeginScores(r) ==
  /\ work[r] = NotRun
  /\ \E batch \in Batches({c \in Topics : verdict[c] = "open"}, ScoreBatch) :
       work' = [work EXCEPT ![r] = [NotRun EXCEPT !.job = "scores", !.pc = "users", !.todo = batch]]
  /\ UNCHANGED <<stakes, verdict, reputation, outside, everTrue, uptodate>>

\* The users behind their stakes.
ReadStakers(r) ==
  /\ work[r].job = "scores" /\ work[r].pc = "users"
  /\ work' = [work EXCEPT ![r].pc = "save", ![r].users = reputation]
  /\ UNCHANGED <<stakes, verdict, reputation, outside, everTrue, uptodate>>

\* Fault: everybody's vote has some weight.
FaultWeighs(rated, u, c) == stakes[<<u, c>>] = "staked"

\* buildVerifications and computeWeight: stake times reputation.
Weighs(rated, u, c) == stakes[<<u, c>>] = "staked" /\ rated[u] > 0

\* aggregate: with any weight the votes, all TRUE, are certain; with none the
\* claim is inconclusive, and stays as the run read it.
Aggregated(rated, c) == IF \E u \in Raters : Weighs(rated, u, c) THEN "true" ELSE "open"

\* The entity overwrites the row, also one finalized since it was read.
SaveScore(r) ==
  /\ work[r].job = "scores" /\ work[r].pc = "save"
  /\ \E c \in work[r].todo : LET v == Aggregated(work[r].users, c) IN
       /\ SetVerdict(c, v)
       /\ work' = [Disturbed(c, v) EXCEPT ![r].todo = @ \ {c}]
  /\ UNCHANGED <<stakes, reputation, outside>>

-----------------------------------------------------------------------------
(* computeReputation.                                                      *)

\* A batch of the users, as rated by now.
BeginRating(r) ==
  /\ work[r] = NotRun
  /\ \E batch \in Batches(Raters, ReputationBatch) :
       work' = [work EXCEPT ![r] = [NotRun EXCEPT !.job = "rating", !.pc = "claims", !.users = reputation,
                                                  !.batch = batch, !.todo = batch, !.clean = TRUE]]
  /\ UNCHANGED <<stakes, verdict, reputation, outside, everTrue, uptodate>>

\* The finalized claims they have a stake in.
ReadFinalized(r) ==
  /\ work[r].job = "rating" /\ work[r].pc = "claims"
  /\ work' = [work EXCEPT ![r].pc = "save", ![r].claims = verdict]
  /\ UNCHANGED <<stakes, verdict, reputation, outside, everTrue, uptodate>>

VotedOn(claims, u) == {c \in Topics : stakes[<<u, c>>] # "none" /\ claims[c] # "open"}
Correct(claims, u) == {c \in VotedOn(claims, u) : claims[c] = "true"}

\* Math.round of the percentage.
Rating(claims, u) ==
  LET voted == Cardinality(VotedOn(claims, u)) IN (200 * Cardinality(Correct(claims, u)) + voted) \div (2 * voted)

\* A rating is saved where it differs from the one read at the start.
SaveRating(r) ==
  /\ work[r].job = "rating" /\ work[r].pc = "save"
  /\ \E u \in work[r].todo :
       LET rated == VotedOn(work[r].claims, u) # {} /\ Rating(work[r].claims, u) # work[r].users[u] IN
       /\ reputation' = IF rated THEN [reputation EXCEPT ![u] = Rating(work[r].claims, u)] ELSE reputation
       /\ work' = [q \in Calls |->
            IF q = r THEN [work[r] EXCEPT !.todo = @ \ {u}]
            ELSE [work[q] EXCEPT !.clean = @ /\ reputation' = reputation]]
  /\ UNCHANGED <<stakes, verdict, outside, everTrue, uptodate>>

-----------------------------------------------------------------------------
(* Either job.                                                             *)

\* A row that cannot be saved is counted, and the run goes on.
SaveRowFails(r) ==
  /\ work[r].pc = "save"
  /\ \E row \in work[r].todo : work' = [work EXCEPT ![r].todo = @ \ {row}, ![r].clean = FALSE]
  /\ UNCHANGED <<stakes, verdict, reputation, outside, everTrue, uptodate>>

\* Nothing is left to save.
EndRun(r) ==
  /\ work[r].pc = "save" /\ work[r].todo = {}
  /\ work' = [work EXCEPT ![r] = Finished]
  /\ uptodate' = IF work[r].job # "rating" THEN uptodate
                 ELSE IF work[r].clean /\ Running("rating") = {r} THEN work[r].batch ELSE {}
  /\ UNCHANGED <<stakes, verdict, reputation, outside, everTrue>>

\* A query fails, or the worker is lost: what was saved stays.
LoseRun(r) ==
  /\ work[r].pc \in {"users", "claims", "save"}
  /\ work' = [work EXCEPT ![r] = Finished]
  /\ UNCHANGED <<stakes, verdict, reputation, outside, everTrue, uptodate>>

JobsNext == \E r \in Calls :
  \/ \E c \in Topics, v \in {"true", "false"} : FinalizeOutside(r, c, v)
  \/ BeginScores(r) \/ ReadStakers(r) \/ SaveScore(r)
  \/ BeginRating(r) \/ ReadFinalized(r) \/ SaveRating(r)
  \/ SaveRowFails(r) \/ EndRun(r) \/ LoseRun(r)

-----------------------------------------------------------------------------
(* The properties.                                                         *)

\* The tables hold what their columns may hold.
JobsTypeOK ==
  /\ verdict \in [Topics -> {"open", "true", "false"}] /\ reputation \in [Raters -> 0 .. 100]
  /\ everTrue \subseteq Topics /\ uptodate \subseteq Raters

\* The jobs cannot start each other: as long as nobody else has finalized a
\* claim, no run has finalized one and nobody has a reputation.
NeedsASeed == ~outside => everTrue = {} /\ \A u \in Raters : reputation[u] = 0

\* A reputation was earned by a stake in a claim that turned out true.
ReputationEarned == \A u \in Raters :
  reputation[u] > 0 => \E c \in everTrue : stakes[<<u, c>>] # "none"

\* After a rating that nothing disturbed, everybody whom it took and who voted on
\* a finalized claim has the share of those that turned out true, until a claim
\* changes.  Of those it did not take, beyond the size of a batch, nothing is said:
\* no later run need take them either.
RatedAsVoted == \A u \in uptodate :
  VotedOn(verdict, u) # {} => reputation[u] = Rating(verdict, u)

\* What every state of the jobs keeps.
JobsInv == JobsTypeOK /\ NeedsASeed /\ ReputationEarned /\ RatedAsVoted
=============================================================================
