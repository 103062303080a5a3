\* One command whose caller waits and one that does not, a telemetry event,
\* a queue of two, Close and a cancellation.
SPECIFICATION CommandsSpec
CONSTANTS
  c1 = c1
  c2 = c2
  t1 = t1
  Events = {c1, c2, t1}
  Receipts = {c1, c2}
  Waiting = {c1}
  Cap = 2
  None = None
INVARIANTS
  SendsSafe
  AnswersTruthful
PROPERTIES
  CloseReturns
  ImplementsEventQueue
  ReceiptPublished
CHECK_DEADLOCK FALSE
