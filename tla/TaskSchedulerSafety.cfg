CONSTANTS
  Sockets = {0, 1, 2}
  Conditions = {readable}
  NumTriggers = 2
  Tasks = {task}
  Tick = tick
  Threads = {}
  Interrupts = FALSE
  FD_SETSIZE = 2
  MaxNesting = 2
  MaxChanges = 3
  Endless = {}
SPECIFICATION Spec
INVARIANTS TypeOK EverySocketIsWatched NoTriggerLost
