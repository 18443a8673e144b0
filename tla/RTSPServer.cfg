CONSTANTS
  Programs = {"rawFile", "timedFile", "live"}
  Connections = {c1, c2}
  Sockets = {k1, k2}
  SessionIds = {s1, s2}
  NULL = null
  NumTracks = 2
  MaxMedia = 2
  MaxStreams = 2
  MaxNesting = 2
SPECIFICATION Spec
INVARIANTS TypeOK ReferencesAgree LiveStreamIsFed
PROPERTY OthersUndisturbed
CHECK_DEADLOCK FALSE
SYMMETRY Symmetry
