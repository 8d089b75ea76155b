SPECIFICATION Spec
CONSTANTS
  Mortal = {"console", "initfs", "storaged"}
  MaxDeaths = 1
  MaxLines = 2
  Commands = {"echo", "exec", "app", "stop", "restart", "update"}
INVARIANTS
  NoCircularWait
  InputExact
  ExecCompletes
PROPERTIES
  CallsEnd
CHECK_DEADLOCK FALSE
