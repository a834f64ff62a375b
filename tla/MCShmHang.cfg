SPECIFICATION ShmFairSpec
CONSTANTS
  NStages = 3
  Threads = {a}
  Capacity = 4
  BatchSize = 1
  MaxItems = 1
  NULL = NULL
PROPERTIES Termination
