SPECIFICATION Spec
CONSTANTS
  NumServices = 3
  Autostart = {1, 2}
  Keep = {1, 3}
  BaseBackoff = 2
  MaxBackoff = 3
  Poll = 2
  Ops <- AllOps
INVARIANTS ChildrenTracked NoOversleep
PROPERTIES ExitsNoticed DueIsTried
