SPECIFICATION Spec
CONSTANTS
  Shards = {s1}
  MaxJobs = 2
  Starters = {a, b}
  Cancellers = {k}
  MaxCancels = 1
INVARIANTS TypeOK OneFetchAtATime HandleClosedOnce VerdictIsTrue DoneMeansComplete
PROPERTY EveryJobEnds
CHECK_DEADLOCK FALSE
