CONSTANTS
  Sockets = {0}
  Conditions = {readable}
  NumTriggers = 2
  Tasks = {task}
  Tick = tick
  Threads = {thread}
  Interrupts = FALSE
  FD_SETSIZE = 8
  MaxNesting = 1
  MaxChanges = 3
  Endless = {}
SPECIFICATION Spec
INVARIANT NoTriggerLost
