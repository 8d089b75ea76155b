SPECIFICATION Spec
CONSTANTS
    BootTasks = 2
    MaxTask = 4
    TableSize = 2
    BootTable <- ConsoleAndInitfs
    Top = 4
    Sectors = 3
    MaxSectors = 2
    CountMod = 4
    Masks <- SomeMasks
    Counts = {0, 1, 2, 3, 6}
    MaxPairs = 1
INVARIANTS TreeConfined Confined UseAuthorised
CHECK_DEADLOCK FALSE
