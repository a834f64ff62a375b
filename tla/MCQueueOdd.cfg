SPECIFICATION Spec
CONSTANTS
  Capacity = 3
  Threads = {t1, t2}
  Items = {x1, x2}
  NULL = NULL
  Uninit = {NULL}
  MaxBatch = 1
  BatchArgs <- Batches
PROPERTIES NothingOverwritten
CHECK_DEADLOCK FALSE
