CONSTANTS
  Delays <- SomeDelays
  Eternity = 9
  MaxTokens = 3
  MaxTime = 5
  MaxSetBack = 2
  MaxNesting = 2
SPECIFICATION Spec
INVARIANTS TypeOK OneOwner AlarmTimes NeverEarly
PROPERTY ImplementsAlarmService
