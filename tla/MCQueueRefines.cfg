SPECIFICATION FairSpec
CONSTANTS
  Capacity = 4
  Threads = {t1, t2}
  Items = {x1, x2, x3}
  NULL = NULL
  Uninit = {garbage}
  MaxBatch = 2
  BatchArgs <- BatchesOrNull
PROPERTIES ImplementsBoundedQueue NothingOverwritten SectionsEnd
CHECK_DEADLOCK FALSE
