SPECIFICATION FairSpec
CONSTANTS
    PollBudget = 1
    PllSettings <- MCPllSettings
    PllReset = "slow"
    PllInvalid = "outOfRange"
    PllInputOf <- MCPllInputOf
    PllWait <- MCPllWait
    OscWait <- MCOscWait
    Latencies <- MCLatencies
    BusSettings <- MCBusSettings
    RetunesRequested = FALSE
INVARIANTS
    TypeOK
    FlashWaitStates
    SwitchOkTruth
    SwitchFailureKeepsWaits
    OscillatorTruth
    RefusalWritesNothing
PROPERTIES
    CallsReturn
    ImplementsSafeClock
