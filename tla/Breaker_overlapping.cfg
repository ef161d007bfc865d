SPECIFICATION Spec
CONSTANTS
  ConsecutiveThreshold = 2
  TotalThreshold = 2
  RateNum = 1
  RateDen = 1
  MinimumCalls = 2
  Cooldown = 2
  HalfOpenMax = 1
  WindowSize = 3
  None = None
  Proc = {p1, p2}
  MaxLive = 2
  MaxAttempts = 1
  LegacyFiles <- OneLegacyFile
  NoFile = NoFile
  Damaged = Damaged
  Budget <- AllTroubles
  TroubleUntil = 2
  MaxNow = 4
INVARIANTS
  TypeOK
  NeverWedged
  ClosedUnderThresholds
  CountersTellOneStory
  TrialRate
SYMMETRY Symmetry
VIEW WithoutOldTrials
