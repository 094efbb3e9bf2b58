SPECIFICATION Spec
CONSTANTS
    Calls <- MCCalls
    MaxCalls = 3
    OverlapTriggers = FALSE
CHECK_DEADLOCK FALSE
PROPERTIES
    ImplementsAtomic
    EnableReturnsRunning
    ModeSwitchedLast
    DeinitRestores
