CONSTANTS
  Replicas = {r1, r2, r3}
  NULL = null
  DeleteWhenLastReplicaDies = TRUE
  MaxFrames = 2
  MaxCalls = 3
SPECIFICATION Spec
INVARIANT DeliveryIsCompleted
SYMMETRY Symmetry
CHECK_DEADLOCK FALSE
