CONSTANTS
  MaxRequests = 3
  MaxResends = 1
  MaxNesting = 2
  AnswersInOrder = TRUE
SPECIFICATION Spec
INVARIANTS NeverReceived
CHECK_DEADLOCK FALSE
