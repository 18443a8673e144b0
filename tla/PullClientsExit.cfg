CONSTANTS
  workerNums = 2
  MaxTracks = 2
CHECK_DEADLOCK FALSE
SPECIFICATION Spec
INVARIANT ExitsWithTheFinal
