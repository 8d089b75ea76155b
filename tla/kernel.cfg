SPECIFICATION Spec
CONSTANTS
  MaxTid = 4
  BootTasks = 2
  NumEndpoints = 1
  Quantum = 2
  MaxDelay = 2
  QueueCap = 2
  MaxRead = 2
  CanRecv <- OneServerRecv
  CanSend <- EveryoneSends
  Syscalls = {"yield", "exit", "call", "recv", "reply", "wait", "spawn", "kill", "sleep", "input", "other", "fault", "keyboard"}
INVARIANTS QueueExact ReplyOwed PendingExact NoStrandedCaller ReadersRegistered
PROPERTIES NoReclaimUnderfoot DeadStaysDead ExitReported
