CONSTANTS
  Sockets = {0, 1, 2}
  Conditions = {readable}
  NumTriggers = 2
  Tasks = {task}
  Tick = tick
  Threads = {thread}
  Interrupts = TRUE
  FD_SETSIZE = 8
  MaxNesting = 1
  MaxChanges = 2
  Endless = {{"sockets"}}
SPECIFICATION FairSpec
PROPERTIES SocketServed TriggerServed AlarmServed
