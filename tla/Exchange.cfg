\* Modbus TCP and RTU, two slaves: reads, writes of one frame and of two, late,
\* repeated, damaged and lost answers, and a line that may break.
SPECIFICATION FairSpec
CONSTANTS
  r1 = r1
  r3 = r3
  w1 = w1
  w2 = w2
  w3 = w3
  w4 = w4
  Requests = {r1, r3, w2, w3, w4}
  Fc <- MCFc
  Unit <- MCUnit
  Shape <- MCShape
  Frames <- MCFrames
  Protocols = {"tcp", "rtu"}
  Attempts = 2
  MapMayFail = TRUE
  MayBreak = TRUE
  MaxFrames = 2
  WireCap = 2
INVARIANTS
  OwnAnswer
  ReceiptTruthful
  GoodAnswerAccepted
PROPERTIES
  CommandEnds
CHECK_DEADLOCK FALSE
