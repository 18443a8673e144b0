CONSTANTS
  Programs = {"timedFile"}
  Connections = {c1, c2}
  Sockets = {k1, k2}
  SessionIds = {s1}
  NULL = null
  NumTracks = 2
  MaxMedia = 2
  MaxStreams = 2
  MaxNesting = 1
SPECIFICATION Spec
INVARIANT SameStreamIsFound
CHECK_DEADLOCK FALSE
SYMMETRY Symmetry
