CONSTANTS
  Sockets = {0}
  Conditions = {readable}
  NumTriggers = 3
  Tasks = {}
  Tick = tick
  Threads = {}
  Interrupts = FALSE
  FD_SETSIZE = 8
  MaxNesting = 1
  MaxChanges = 0
  Endless = {{"sockets", "triggers"}}
SPECIFICATION FairSpec
PROPERTY EachTriggerServed
