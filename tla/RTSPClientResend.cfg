CONSTANTS
  MaxRequests = 2
  MaxResends = 1
  MaxNesting = 2
  AnswersInOrder = TRUE
SPECIFICATION Spec
INVARIANTS CalledOnce
CHECK_DEADLOCK FALSE
