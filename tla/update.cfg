SPECIFICATION Spec
CONSTANTS
  Packages <- SomePackages
  Gen <- SomeGens
  Sealed <- AllButForeign
  Factory = "factory"
  Chunks = 2
  CapSlots = 5
  MaxFaults = 2
  TornSuperblock = TRUE
INVARIANTS AlwaysBootable RunningValid
PROPERTIES UpdateAnswered ImplementsAtomicUpdate
