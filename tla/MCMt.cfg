SPECIFICATION MtFairSpec
CONSTANTS
  NStages = 3
  Threads = {a}
  Capacity = 4
  BatchSize = 1
  MaxItems = 3
  NULL = NULL
INVARIANTS InOrder
PROPERTIES ImplementsDelivery Termination
