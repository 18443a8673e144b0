CONSTANTS
  _max_nalu_queue = 2
  MaxNalus = 4
  MaxSources = 2
  NULL = NULL
CHECK_DEADLOCK FALSE
SPECIFICATION FairSpec
INVARIANTS TypeOK UsedWhileAlive NoneLostOnTheWay
PROPERTIES ReaderIsServed ThreadsGoOn
