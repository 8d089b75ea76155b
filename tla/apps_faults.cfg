SPECIFICATION Spec
CONSTANTS
    Packages <- OneAppAndBad
    AppSlots = 2
    MaxLen = 2
    MaxFaults = 1
INVARIANTS RunsOnlySigned
PROPERTIES NewestKept RunAnswered
