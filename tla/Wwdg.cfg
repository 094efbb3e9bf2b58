SPECIFICATION Spec
CONSTANTS
    PollBudget = 0
    Middle = 4
    HandsOver = FALSE
INVARIANTS
    WindowRespected
    HandlerHoldsOff
    WindowInPlace
