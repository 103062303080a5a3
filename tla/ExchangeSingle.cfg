\* Modbus RTU: a write of one register that the slave answers well.
SPECIFICATION Spec
CONSTANTS
  r1 = r1
  r3 = r3
  w1 = w1
  w2 = w2
  w3 = w3
  w4 = w4
  Requests = {w1}
  Fc <- MCFc
  Unit <- MCUnit
  Shape <- MCShape
  Frames <- MCFrames
  Protocols = {"rtu"}
  Attempts = 2
  MapMayFail = FALSE
  MayBreak = FALSE
  MaxFrames = 1
  WireCap = 2
INVARIANTS
  SingleWriteAccepted
CHECK_DEADLOCK FALSE
