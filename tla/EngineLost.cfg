\* The promise of the comment on drainPendingWrites, which TLC refutes.
SPECIFICATION FairSpec
CONSTANTS
  ch1 = ch1
  c1 = c1
  c2 = c2
  Channels = {ch1}
  Fps = {f1}
  IdleFps = {}
  BadFps = {}
  Applies = {a1}
  Stops = {s1}
  Cmds = {c1}
  QueueCap = 1
  MayPanic = FALSE
  MayCancel = FALSE
  CmdChannel <- MCCmdChannel
  None = None
PROPERTIES
  AcceptedIsAnswered
CHECK_DEADLOCK FALSE
