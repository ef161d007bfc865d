SPECIFICATION Spec
CONSTANTS
  ConsecutiveThreshold = 2
  TotalThreshold = 3
  RateNum = 1
  RateDen = 2
  MinimumCalls = 3
  Cooldown = 2
  HalfOpenMax = 2
  WindowSize = 4
  None = None
  Proc = {p1}
  MaxLive = 1
  MaxAttempts = 2
  LegacyFiles <- OneLegacyFile
  NoFile = NoFile
  Damaged = Damaged
  Budget <- ThreeCrashes
  TroubleUntil = 8
  MaxNow = 8
INVARIANTS
  NoAttemptUnderOpen
PROPERTIES
  CoolingIsQuiet
  FileFollowsTheCircuit
