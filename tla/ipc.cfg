SPECIFICATION Spec
CONSTANTS
  MaxTid = 4
  BootTasks = 2
  NumEndpoints = 2
  Quantum = 2
  MaxDelay = 1
  QueueCap = 1
  MaxRead = 1
  CanRecv <- ServerPerEndpoint
  CanSend <- EveryoneSends
  Syscalls = {"call", "recv", "reply", "exit", "spawn", "kill", "sleep"}

PROPERTIES ImplementsRendezvous NoStarvation DeadlinesFire
