SPECIFICATION Spec
CONSTANTS
    MaxCalls = 2
    OverlapTriggers = FALSE
CHECK_DEADLOCK FALSE
INVARIANTS
    Accounting
    TriggerNotSwallowed
PROPERTIES
    NoStaleEvent
    NotTakenAfterDisable
    EveryLineServed
