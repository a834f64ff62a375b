SPECIFICATION Spec
CONSTANTS
  Capacity = 4
  Threads = {t1, t2}
  Items = {x1, x2}
  NULL = NULL
  Uninit = {NULL, garbage}
  MaxBatch = 0
  BatchArgs <- Batches
INVARIANTS DequeueGivesItemOrNull
CHECK_DEADLOCK FALSE
