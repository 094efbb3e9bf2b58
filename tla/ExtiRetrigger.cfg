SPECIFICATION Spec
CONSTANTS
    MaxCalls = 2
    OverlapTriggers = TRUE
CHECK_DEADLOCK FALSE
PROPERTIES
    TriggersOneLine
