SPECIFICATION Spec
CONSTANTS
  Run = {r1, r2, r3, r4}
  MaxOpen = 1
  MaxEvents = 6
  MaxKills = 2
INVARIANTS
  TypeOK
  NumbersIncrease
  OneLinePerKill
CHECK_DEADLOCK FALSE
