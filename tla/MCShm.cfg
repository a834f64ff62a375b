SPECIFICATION ShmSpec
CONSTANTS
  NStages = 3
  Threads = {a}
  Capacity = 2
  BatchSize = 2
  MaxItems = 2
  NULL = NULL
INVARIANTS TypeOK LastStageOwns LiveUntilDrop StagesInOrder MarksCome LastStageCounts
