CONSTANTS
  Sockets = {0}
  Conditions = {readable}
  NumTriggers = 2
  Tasks = {task}
  Tick = tick
  Threads = {}
  Interrupts = TRUE
  FD_SETSIZE = 8
  MaxNesting = 1
  MaxChanges = 3
  Endless = {}
SPECIFICATION Spec
INVARIANT OnlyReadyIsReported
