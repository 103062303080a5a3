\* Three devices, of two groups, one and none, on a link that fails, is probed
\* slowly, polled, cancelled at any moment and replaced once by a reload.
SPECIFICATION FairSpec
CONSTANTS
  d1 = d1
  d2 = d2
  d3 = d3
  Devices = {d1, d2, d3}
  Groups <- MCGroups
  ReconnectRetries = 1
  BaseDelay = 2
  MaxDelay = 5
  Restarts = 1
  CountCap = 3
INVARIANTS
  AlarmPaired
  DownIsOffline
PROPERTIES
  PollWhole
  FailingNotFaster
  CancelEnds
  EveryDeviceGetsTurn
CHECK_DEADLOCK FALSE
