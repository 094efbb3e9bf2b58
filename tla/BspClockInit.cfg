SPECIFICATION BspSpec
CONSTANTS
    PollBudget = 2
    PllSettings <- MCPllSettings
    PllReset <- MCPllReset
    PllInvalid <- MCPllInvalid
    PllInputOf <- MCPllInputOf
    PllWait <- MCPllWait
    OscWait <- MCOscWait
    Latencies <- MCLatencies
    BusSettings <- MCBusSettings
    RetunesRequested = FALSE
    MaxCalls = 2
CHECK_DEADLOCK FALSE
INVARIANTS
    BringUpTruth
    RegulatorFollows
    BusLimits
    RegulatorHandshake
    ConsoleBaudSettled
