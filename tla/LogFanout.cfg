\* Two goroutines that log while the connection may be down.
SPECIFICATION FairSpec
CONSTANTS
  Loop = loop
  Writers = {w1, w2}
  Cap = 2
  MayFail = TRUE
  MaxRecords = 4
  MaxDepth = 2
PROPERTIES
  CallsReturn
CHECK_DEADLOCK FALSE
