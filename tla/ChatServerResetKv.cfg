SPECIFICATION Spec
CONSTANTS
  Clients = {c1, c2, c3}
  Loaders = {l1}
  QueueLimit = 2
  Contexts <- MCContexts
  MaxRequests = 4
  MaxLoads = 2
  MaxTokens = 1
  NoOne = NoOne
  NoRunner = NoRunner
PROPERTIES
  NoResetMidPass
CHECK_DEADLOCK FALSE
