SPECIFICATION FairSpec
CONSTANTS
  Name = {a, b}
  Policies <- TwoPolicies
  MaxAge = 1
  MaxRun = 1
  Troubles = 1
  None = None
  NoEntry = NoEntry
  Damaged = Damaged
INVARIANTS
  TypeOK
PROPERTIES
  SaveKeepsTheOthers
  KeepsBeingTried
