\* One link: two reloads between a valid, an idle and an invalid configuration,
\* a stop, two write commands, a panic and the cancellation of the parent context.
SPECIFICATION FairSpec
CONSTANTS
  ch1 = ch1
  c1 = c1
  c2 = c2
  Channels = {ch1}
  Fps = {f1, fidle, fbad}
  IdleFps = {fidle}
  BadFps = {fbad}
  Applies = {a1, a2}
  Stops = {s1}
  Cmds = {c1, c2}
  CmdChannel <- MCCmdChannel
  QueueCap = 1
  MayPanic = TRUE
  MayCancel = TRUE
  None = None
INVARIANTS
  OneWorkerPerChannel
  PortExclusive
  StopIsFinal
  OnlyOutdatedStopped
  ReceiptsBeforeDone
PROPERTIES
  ReloadConverges
  CallsReturn
  ImplementsLedger
CHECK_DEADLOCK FALSE
