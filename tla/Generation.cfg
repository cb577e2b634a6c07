SPECIFICATION Spec
CONSTANTS
  Window = 6
  MaxContext = 9
  MaxBatch = 3
  PromptLengths <- MCPromptLengths
  MaxTokens <- MCMaxTokens
  DraftKs <- MCDraftKs
  StopIndices <- MCStopIndices
  Penalties = {FALSE, TRUE}
  GateWindow = 2
  Drafters = {"none", "mtp", "draft_runtime"}
  MaxGenerations = 2
INVARIANTS
  TypeOK
  ExactWhileItFits
  CacheMatchesHistory
  OnlyOldestKeysAreLost
  DraftKnowsWhatWasKept
PROPERTIES
  ImplementsDelivery
  CallsEnd
CHECK_DEADLOCK FALSE
