SPECIFICATION Spec
CONSTANTS
  Runners = 3
  Containers <- MCContainers
  Drafts <- MCDrafts
  None = None
  HeapPages = 60
  RamCap = 12
  PinLimit = 12
  ImportReserve = 4
  DraftReserve = 6
  MtpReserve = 1
  Unlimited = 1000
  Overrides <- MCOverrides
INVARIANTS
  TypeOK
  RunnersAreWhole
  PinnedIsBounded
  MemoryComesBack
  LayoutsAgree
CHECK_DEADLOCK FALSE
