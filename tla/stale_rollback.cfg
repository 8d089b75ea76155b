SPECIFICATION Spec
CONSTANTS
  Packages <- ThreeGenerations
  Gen <- ThreeGens
  Sealed <- ThreeGenerations
  Factory = "factory"
  Chunks = 2
  CapSlots = 9
  MaxFaults = 1
  TornSuperblock = FALSE
INVARIANT StaleNeverRuns
