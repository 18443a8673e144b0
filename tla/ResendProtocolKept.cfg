CONSTANTS
  NaluSizes <- FewSizes
  QueueSize = 24
  FirstSlot = 19
  WindowSize = 6
  MaxRequests = 0
  Countdown = 1
  Invalid = invalid
  Lossy <- AllOfThem
  MaxLate = 5
  MaxRestarts = 0
SPECIFICATION ProtocolSpec
INVARIANT GivenIsRemoved
CHECK_DEADLOCK FALSE
