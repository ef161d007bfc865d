SPECIFICATION FairSpec
CONSTANTS
  ConsecutiveThreshold = 2
  TotalThreshold = 3
  RateNum = 1
  RateDen = 2
  MinimumCalls = 3
  Cooldown = 2
  HalfOpenMax = 1
  WindowSize = 3
  None = None
  Down = Down
  Damaged = Damaged
  MaxAttempts = 2
  Ttl = 1
  MaxStale = 2
  Html = {"good", "odd", "changed"}
  Verdict <- ThreeVerdicts
  Extractable = {"good", "changed"}
  LogsIn = {TRUE, FALSE}
  Budgets <- TwoChanges
  TroubleUntil = 2
  MaxNow = 4
INVARIANTS
  TypeOK
  OnlyVettedPages
  ExitZeroIsACsv
  RefusedFetchesNothing
PROPERTIES
  StaleIsLoud
  DataNeverGoesBack
  Delivers
