SPECIFICATION ShmSpec
CONSTANTS
  NStages = 3
  Threads = {a}
  Capacity = 2
  BatchSize = 1
  MaxItems = 2
  NULL = NULL
INVARIANTS DroppedItemsAreGone
