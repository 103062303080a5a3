\* Two savers, a restart and a shutdown, any of which may fail.
SPECIFICATION FairSpec
CONSTANTS
  s1 = s1
  s2 = s2
  Savers = {s1, s2}
  MaxSaves = 2
  MaxEngines = 2
  MayShutdown = TRUE
  MayFail = TRUE
  None = None
INVARIANTS
  OneRuntime
  NothingLeaks
  StatusTruthful
PROPERTIES
  RestartEnds
CHECK_DEADLOCK FALSE
