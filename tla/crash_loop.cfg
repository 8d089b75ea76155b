SPECIFICATION Spec
CONSTANTS
  NumServices = 1
  Autostart = {1}
  Keep = {1}
  BaseBackoff = 2
  MaxBackoff = 3
  Poll = 2
  Ops = {}
PROPERTY CrashLoopDetected
