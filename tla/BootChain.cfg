SPECIFICATION Spec
CONSTANTS
    Stacks = {"MSP", "PSP"}
    ClockFails = TRUE
    SMOKE_FAULT = {0, 1}
    MaxPresses = 2
CHECK_DEADLOCK FALSE
INVARIANTS
    FaultRecorded
    PlaceFromLastReset
    NoBootSkipped
PROPERTIES
    ChainEnds
