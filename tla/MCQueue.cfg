SPECIFICATION Spec
CONSTANTS
  Capacity = 4
  Threads = {t1, t2, t3}
  Items = {x1, x2, x3, x4}
  NULL = NULL
  Uninit = {NULL}
  MaxBatch = 2
  BatchArgs <- BatchesOrNull
INVARIANTS TypeOK MutualExclusion ChecksStayTrue SlotsNotShared WindowFilled OneOwner NothingLost
SYMMETRY Symmetry
CHECK_DEADLOCK FALSE
