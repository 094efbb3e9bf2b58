SPECIFICATION Spec
CONSTANTS
    PollBudget = 1
    PllSettings <- MCPllSettings
    PllReset = "slow"
    PllInvalid = "outOfRange"
    PllInputOf <- MCPllInputOf
    PllWait <- MCPllWait
    OscWait <- MCOscWait
    Latencies <- MCLatencies
    BusSettings <- MCBusSettings
    RetunesRequested = TRUE
INVARIANTS
    FlashWaitStates
