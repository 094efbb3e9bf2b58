SPECIFICATION Spec
CONSTANTS
    LoadMax = 7
    TickModulus = 16
    Requests <- MCRequests
    Waits = {0, 1, 5}
    RefreshMs = 2
    BlinkMs = 5
    MaxLate = 3
INVARIANTS
    BlinkKeepsRate
PROPERTIES
    PeriodExact
    WaitExact
    WaitEnds
