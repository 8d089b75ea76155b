SPECIFICATION Spec
CONSTANTS
    Packages <- TwoApps
    AppSlots = 4
    MaxLen = 1
    MaxFaults = 0
INVARIANTS OneAppPerPair IndexExact RemovedStaysRemovedOnGoodDisk
