CONSTANTS
  Replicas = {r1, r2, r3}
  NULL = null
  DeleteWhenLastReplicaDies = TRUE
  MaxFrames = 3
  MaxCalls = 3
SPECIFICATION Spec
INVARIANTS TypeOK OnePlace BooksAgree MasterWaitsForOthers
PROPERTY EveryFrameOnce
CHECK_DEADLOCK FALSE
SYMMETRY Symmetry
