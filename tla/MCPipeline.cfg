SPECIFICATION Spec
CONSTANTS
  NStages = 2
  Threads = {a, b}
  Capacity = 2
  BatchSize = 1
  MaxItems = 2
  NULL = NULL
INVARIANTS TypeOK OneHolder StampsComplete QueuesBalance CountsAddUp QueuesOutliveUsers StagesRunToTheEnd
SYMMETRY Symmetry
