\* Both hosts: the server, which a throw ends, and the C API, which goes on.
SPECIFICATION Spec
CONSTANTS
  NumSlots = 4
  NumLayers = 6
  Workers = {w1, w2}
  Policy = "LRU"
  ReadsMayFail = TRUE
  StreamedLists <- MCStreamedLists
  PrefetchDepth = 3
  AfterThrow = {"idle", "terminated"}
  SubmitMayFail = TRUE
  MaxPasses = 2
  MaxClears = 1
INVARIANTS
  TypeOK
  GpuReadsItsLayer
  OnlyDevicesFail
  UnpinnedSlotsAreIdle
  FreedSlotsAreQuiet
  IdlePoolIsWhole
PROPERTIES
  DestructionCompletes
  ImplementsLayerPass
