SPECIFICATION Spec
CONSTANTS
  Shards = {s1}
  MaxJobs = 2
  Starters = {a, b}
  Cancellers = {k}
  MaxCancels = 1
PROPERTY CancelStopsTheFetch
SYMMETRY MCSymmetry
CHECK_DEADLOCK FALSE
