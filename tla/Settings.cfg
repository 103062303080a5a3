\* Requests, a restart, a logger, the rotation and a stream, as MCCasts brings them together.
SPECIFICATION SettingsSpec
CONSTANTS
  Clients = {c1}
  Sizes = {1, 2}
  ChanCap = 1
  MaxEntries = 3
  Loggers = {l1}
  Options <- MCOptions
  MaxInits = 4
  Casts <- MCCasts
  Requests = {r1, r2}
  Names = {n1, n2}
  Tokens = {t1}
  MaxRestarts = 1
SYMMETRY Symmetric
INVARIANTS
  NoGap
  OldWritersClosed
  SettingsTakeEffect
CHECK_DEADLOCK FALSE
