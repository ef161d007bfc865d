SPECIFICATION FairSpec
CONSTANTS
  ConsecutiveThreshold = 2
  TotalThreshold = 2
  RateNum = 1
  RateDen = 1
  MinimumCalls = 2
  Cooldown = 1
  HalfOpenMax = 1
  WindowSize = 2
  None = None
  Proc = {p1, p2}
  MaxLive = 2
  MaxAttempts = 2
  LegacyFiles <- NoLegacyFile
  NoFile = NoFile
  Damaged = Damaged
  Budget <- KillReadOrDisk
  TroubleUntil = 1
  MaxNow = 3
PROPERTIES
  Recovers
