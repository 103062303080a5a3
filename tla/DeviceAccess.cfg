\* Models that are only read and models that are written, with segments of
\* three registers or bits.
SPECIFICATION DeviceSpec
CONSTANTS
  Models <- ReadAndWritten
  MaxRegs = 3
  MaxReadRegisters = 4
  MaxReadBits = 9
  MaxWriteRegisters = 4
  MaxWriteBits = 8
  MaxAddress = 15
INVARIANTS
  PlanSound
  OwnRegisters
  ReadsBack
CHECK_DEADLOCK FALSE
