SPECIFICATION DocSpec
CONSTANTS
  Tag <- SomeTags
  Attrs <- SomeAttrs
  Data <- SomeData
  Pages <- SomePages
  Nothing = Nothing
  Generated = {"r:7:"}
  NoValue = NoValue
  Undeclared = Undeclared
  Selector <- SomeSelectors
  Shape = {"decimal", "text"}
  None = None
  Container <- Items
  Required <- SomeRequired
  Fields <- SomeFields
  DeclaredSeparators <- NoSeparator
INVARIANTS
  OneReading
CHECK_DEADLOCK FALSE
