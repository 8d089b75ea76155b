SPECIFICATION SpacesSpec
CONSTANTS
    Regions <- TwoRegions
    Counts = {1, 2}
    Fan = 4
    KPages = 2
    MaxSlot = 4
    StackPages = 2
    StackTop = 25
    ElfPages = {1, 2}
    BootFrames = {0, 2, 6, 8, 11}
INVARIANTS OneOwner StacksEverywhere NotUnderfoot EachFrameOnce FixedPoint
CHECK_DEADLOCK FALSE
