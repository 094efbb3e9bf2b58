SPECIFICATION Spec
CONSTANTS
    PollBudget = 1
    Rates <- MCRates
    MaxTx = 2
    MaxRx = 3
INVARIANTS
    OkMeansIdle
    EnabledMeansConfigured
    ReceivedInOrder
PROPERTIES
    ReconfiguresInSilence
    ImplementsFifo
