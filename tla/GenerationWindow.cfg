SPECIFICATION Spec
CONSTANTS
  Window = 6
  MaxContext = 9
  MaxBatch = 3
  PromptLengths <- MCPromptLengths
  MaxTokens <- MCMaxTokens
  DraftKs <- MCDraftKs
  StopIndices <- MCStopIndices
  Penalties = {FALSE}
  GateWindow = 2
  Drafters = {"none", "mtp"}
  MaxGenerations = 1
INVARIANTS
  NoStaleEntryIsRead
CHECK_DEADLOCK FALSE
