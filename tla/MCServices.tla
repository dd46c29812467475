----------------------------- MODULE MCServices -----------------------------
(***************************************************************************)
(* The services that share nothing but the process they run in: a          *)
(* behaviour exercises one of them, chosen in its initial state.  The      *)
(* interleavings of two are products of theirs.                            *)
(***************************************************************************)
EXTENDS GovernanceVoting, TLC

CONSTANTS Disputes, Values, Off, MaxVersion,
          Queues, Emergencies, Users, Addresses, Chains, Nullifiers, Raters, Topics, ScoreBatch, ReputationBatch,
          Providers, Threshold, Reset, Pause, MaxRetries, MaxTime

VARIABLES
  scope, \* the service that runs
  \* DisputeService
  dispute, recent, disputeCall, overlaid, crowded,
  \* ConfigurationService, FeatureFlagsService
  table, made, setting, past, cached, request, overlap, torn, missed,
  \* ProtocolAdminService
  memory, order, paused, audit, raised, answer, mixed,
  \* IdentityService, WorldcoinService, SybilResistanceService
  owner, claimed, proven, marked, score, errand, bare, crossed, halted,
  \* IncidentService, ModerationService
  sort, record, ticket, kept, left, recordOverlaid,
  \* JobsService
  stakes, verdict, reputation, work, outside, everTrue, uptodate,
  \* RpcProviderManager
  now, circuit, rpc, failed, skipped, streak

Dispute   == INSTANCE DisputeLifecycle WITH call <- disputeCall
Config    == INSTANCE ConfigurationStore
Admin     == INSTANCE ProtocolAdmin
Identity  == INSTANCE IdentityScores WITH torn <- halted
Records   == INSTANCE AdminRecords WITH overlaid <- recordOverlaid
Jobs      == INSTANCE ScoreJobs
Rpc       == INSTANCE RpcFailover

governanceVars == vars
disputeVars    == <<dispute, recent, disputeCall, overlaid, crowded>>
configVars     == <<table, made, setting, past, cached, request, overlap, torn, missed>>
adminVars      == <<memory, order, paused, audit, raised, answer, mixed>>
identityVars   == <<owner, claimed, proven, marked, score, errand, bare, crossed, halted>>
recordVars     == <<sort, record, ticket, kept, left, recordOverlaid>>
jobsVars       == <<stakes, verdict, reputation, work, outside, everTrue, uptodate>>
rpcVars        == <<now, circuit, rpc, failed, skipped, streak>>

\* A service that does not run keeps one of its initial states.  One withdrawn stake
\* is enough: it counts as a vote and weighs nothing.
ServicesInit ==
  /\ scope \in {"governance", "disputes", "configuration", "administration", "wallets", "scores", "records",
                "jobs", "rpc"}
  /\ Init /\ Dispute!Init /\ Config!ConfigInit
  /\ Admin!AdminInit /\ Identity!IdentityInit /\ Records!RecordsInit /\ Jobs!JobsInit /\ Rpc!RpcInit
  /\ scope # "wallets" => owner = [w \in Addresses \X Chains |-> None]
  /\ scope # "records" => sort = "report"
  /\ scope # "jobs" => stakes = [s \in Raters \X Topics |-> "none"]
  /\ \A s, q \in Raters \X Topics : stakes[s] = "withdrawn" /\ stakes[q] = "withdrawn" => s = q

ServicesNext ==
  \/ /\ scope = "governance" /\ Next
     /\ UNCHANGED <<scope, disputeVars, configVars, adminVars, identityVars, recordVars, jobsVars, rpcVars>>
  \/ /\ scope = "disputes" /\ Dispute!Next
     /\ UNCHANGED <<scope, governanceVars, configVars, adminVars, identityVars, recordVars, jobsVars, rpcVars>>
  \/ /\ scope = "configuration" /\ Config!ConfigNext
     /\ UNCHANGED <<scope, governanceVars, disputeVars, adminVars, identityVars, recordVars, jobsVars, rpcVars>>
  \/ /\ scope = "administration" /\ Admin!AdminNext
     /\ UNCHANGED <<scope, governanceVars, disputeVars, configVars, identityVars, recordVars, jobsVars, rpcVars>>
  \/ /\ \/ scope = "wallets" /\ Identity!WalletNext
        \/ scope = "scores" /\ Identity!ScoreNext
     /\ UNCHANGED <<scope, governanceVars, disputeVars, configVars, adminVars, recordVars, jobsVars, rpcVars>>
  \/ /\ scope = "records" /\ Records!RecordsNext
     /\ UNCHANGED <<scope, governanceVars, disputeVars, configVars, adminVars, identityVars, jobsVars, rpcVars>>
  \/ /\ scope = "jobs" /\ Jobs!JobsNext
     /\ UNCHANGED <<scope, governanceVars, disputeVars, configVars, adminVars, identityVars, recordVars, rpcVars>>
  \/ /\ scope = "rpc" /\ Rpc!RpcNext
     /\ UNCHANGED <<scope, governanceVars, disputeVars, configVars, adminVars, identityVars, recordVars, jobsVars>>

ServicesSpec == ServicesInit /\ [][ServicesNext]_<<scope, governanceVars, disputeVars, configVars,
                                                   adminVars, identityVars, recordVars, jobsVars, rpcVars>>

\* Every column of a dispute agrees with the others, and a claim has one open
\* dispute, except where calls overlapped (DisputeLifecycle!Inv).
DisputesCoherent == Dispute!Inv

\* A decision changes only under a call that had not seen it.
DecisionStands == Dispute!DecisionStands

\* Row, history and cache of a configuration key agree (ConfigurationStore).
ConfigurationCoherent == Config!ConfigInv

\* Queues paused or resumed together are alike (ProtocolAdmin!AdminInv).
QueuesCoherent == Admin!AdminInv

\* Wallets, verifications and scores agree across the two databases, but in the
\* cases IdentityScores!IdentityInv names.
IdentityCoherent == Identity!IdentityInv

\* No note, resolution, assignment or report that was saved is missing from an
\* incident or a report, and its status is left as AdminRecords!MayLeave says, but
\* where a request overlaid another (AdminRecords!RecordsInv).
RecordsKept == Records!RecordsInv

\* Verdicts and reputations follow from each other (ScoreJobs!JobsInv).
RatingsEarned == Jobs!JobsInv

\* A call gives up only after all providers, and passes over none that answers
\* (RpcFailover!RpcInv).
GivesUpLast == Rpc!RpcInv

\* No property tells calls apart.
Symmetry == Permutations(Calls)
=============================================================================
