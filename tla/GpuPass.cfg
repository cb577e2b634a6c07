SPECIFICATION Spec
CONSTANT Jobs <- AllJobs
INVARIANTS
  OnlyTheKeyIsOvertaken
  HiddenIsExact
  CacheIsExact
  LogitsAreExact
  DraftIsExact
  RunsAsRecorded
