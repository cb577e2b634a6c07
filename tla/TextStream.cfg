SPECIFICATION Spec
CONSTANTS
  Symbols <- MCSymbols
  Pieces <- MCPieces
  Merges <- MCMerges
  Added <- MCAdded
  AddedToken <- MCAddedToken
  ByteIds <- MCByteIds
  Unk <- MCUnk
  Tokens <- MCTokens
  MaxTokens = 4
  Texts <- MCTexts
  StopLists <- MCStopLists
  None = None
INVARIANTS
  StreamIsDecode
  AnswerIsCut
  EchoIsExact
CHECK_DEADLOCK FALSE
