CONSTANTS
  Sockets = {0, 1, 2}
  Conditions = {readable}
  NumTriggers = 1
  Tasks = {}
  Tick = tick
  Threads = {}
  Interrupts = FALSE
  FD_SETSIZE = 8
  MaxNesting = 1
  MaxChanges = 0
  Endless = {{"sockets"}}
SPECIFICATION FairSpec
PROPERTY ForwardProgress
