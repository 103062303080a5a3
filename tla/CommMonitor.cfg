\* A ring of two events over sessions and a reload, and the page of one device,
\* whose answers hold one event at a time.
SPECIFICATION Spec
CONSTANTS
  Devices = {1, 2}
  Selected = {1}
  Capacity = 2
  Limit = 1
  MaxReloads = 1
  MaxSeq = 4
  MaxDone = 2
INVARIANTS
  RingIsTail
  CountersAgree
  ViewFollows
CHECK_DEADLOCK FALSE
