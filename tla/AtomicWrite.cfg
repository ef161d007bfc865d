SPECIFICATION Spec
CONSTANTS
  Writer = {w1, w2}
  Size = 2
  Absent = Absent
  MaxWrites = 3
  MaxHarm = 2
INVARIANTS
  TypeOK
  ReaderSeesWhole
  ReturnedSurvives
  NoLitterButFromKills
PROPERTIES
  ModeIsKept
CHECK_DEADLOCK FALSE
