SPECIFICATION Spec
CONSTANTS
    Stacks = {"MSP"}
    ClockFails = TRUE
    SMOKE_FAULT = {0}
    MaxPresses = 0
CHECK_DEADLOCK FALSE
INVARIANTS
    OnlyCleanBootsLeadOn
