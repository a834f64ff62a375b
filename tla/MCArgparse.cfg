SPECIFICATION Spec
CONSTANTS
  Options <- AnyOptions
  Digits = {"5"}
  Symbols <- Texts
  Inputs <- Lists
  NULL = NULL
  MaxArgs = 3
INVARIANTS TypeOK RestsUsedUp OperandsKept ValuesRight
