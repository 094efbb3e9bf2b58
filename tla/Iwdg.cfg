SPECIFICATION Spec
CONSTANTS
    PollBudget = 1
    MaxPr = 1
    MaxRlr = 3
    Divider <- MCDivider
    Restarts = TRUE
    IsrRefreshes = FALSE
INVARIANTS
    StartOkInEffect
    StartedOnceNeverBitesEarly
