CONSTANTS
  workerNums = 3
  MaxTracks = 2
CHECK_DEADLOCK FALSE
SPECIFICATION Spec
INVARIANTS TypeOK RunsUntilAllEnded NothingLeftBehind
