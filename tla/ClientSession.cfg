CONSTANTS
  HINT_COVER_COUNTER_BASE = 100
  N_LEGS = 2
  Weights <- MCWeights
  Policies = {"weighted", "latency", "round_robin", "iid"}
  STRIPE_WINDOW = 1
  STRIPE_RECENT_MAX = 1
  Builds = {"base", "loopix"}
  MaxSends = 3
  MaxCovers = 1
  MaxUnderWay = 2
  Nothing = Nothing
SPECIFICATION Spec
CHECK_DEADLOCK FALSE
INVARIANT TypeOK
INVARIANT SetUpLegsAreBound
INVARIANT CreditsKept
INVARIANT SharesKept
PROPERTY OverwrittenOnlyThen
