SPECIFICATION ServicesSpec
CONSTANTS
  Calls = {c1, c2, c3}
  Voters = {v1, v2}
  Disputes = {1, 2, 3}
  Values = {x, y}
  Off = off
  MaxVersion = 3
  Queues = {1, 2, 3}
  Emergencies = {e1, e2}
  Users = {u1, u2}
  Addresses = {a, b}
  Chains = {h1, h2}
  Nullifiers = {n}
  Raters = {r1, r2}
  Topics = {t1, t2}
  ScoreBatch = 1
  ReputationBatch = 1
  Providers = {1, 2}
  Threshold = 2
  Reset = 2
  Pause = 1
  MaxRetries = 1
  MaxTime = 2
  None = None
SYMMETRY Symmetry
INVARIANTS
  Inv CountsExactUnlessStale DisputesCoherent ConfigurationCoherent
  QueuesCoherent IdentityCoherent RecordsKept RatingsEarned GivesUpLast
PROPERTIES TerminalUnlessStale DecisionStands
\* A service stops when every call is made.
CHECK_DEADLOCK FALSE
