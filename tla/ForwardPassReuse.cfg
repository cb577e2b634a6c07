\* The C API: the engine is used again after a pass that failed.
SPECIFICATION Spec
CONSTANTS
  NumSlots = 4
  NumLayers = 6
  Workers = {w1, w2}
  Policy = "LRU"
  ReadsMayFail = TRUE
  StreamedLists <- MCStreamedLists
  PrefetchDepth = 3
  AfterThrow = {"idle"}
  SubmitMayFail = FALSE
  MaxPasses = 2
  MaxClears = 0
INVARIANT HitsNeedNoDisk
