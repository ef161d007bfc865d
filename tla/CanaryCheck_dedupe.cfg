SPECIFICATION Spec
CONSTANTS
  Selector = {"row", "price"}
  Shape = {"decimal"}
  None = None
  Pages <- SomePages
  FailOn = {"CRITICAL", "MAJOR", "WARNING"}
  Contracts <- SomeContracts
  ContractFiles = {"good"}
INVARIANT OkMeetsEveryRule
