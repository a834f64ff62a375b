SPECIFICATION RtcSpec
CONSTANTS
  NStages = 1
  Threads = {a, b}
  Capacity = 2
  BatchSize = 1
  MaxItems = 2
  NULL = NULL
  Duration = 2
  Unit = 2
  Modulus = 64
  RunTime = 2
INVARIANTS TimesAddUp
SYMMETRY Symmetry
