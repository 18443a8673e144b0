CONSTANTS
  MaxRequests = 3
  MaxResends = 2
  MaxNesting = 3
  AnswersInOrder = FALSE
SPECIFICATION Spec
INVARIANTS TypeOK NoneForgotten RightResponse ConnectionAwaited
CHECK_DEADLOCK FALSE
