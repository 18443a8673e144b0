CONSTANTS
  NaluSizes <- Sizes
  QueueSize = 16
  FirstSlot = 13
  WindowSize = 4
  MaxRequests = 0
  Countdown = 1
  Invalid = invalid
  Lossy <- InBothRounds
  MaxLate = 2
  MaxRestarts = 1
SPECIFICATION ProtocolSpec
INVARIANTS ProtocolTypeOK InOrder SkippedIfGivenUp
PROPERTY NalusAreWhole
CHECK_DEADLOCK FALSE
