SPECIFICATION ConfigSpec
CONSTANTS
    Records = 3
    MaxEvents = 5
    MaxFaults = 2
    Keys = {k1, k2}
    Values = {none, v1}
    Default = none
INVARIANTS ChainIntact SettingsWhole
PROPERTY DurableKept
