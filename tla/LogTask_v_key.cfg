\* Two events of one transaction.
SPECIFICATION Spec
CONSTANTS
    TxHash = {"a", "b"}
    Bodies <- TwoEvents
    ConfirmBlockNum = 2
    InitBatchSize = 3
    START_BLOCK = 0
    InitStore = 0
    LiveMode = TRUE
    InProcessRestart = TRUE
    PoolSurvives = TRUE
    Faults <- NoFaults
    InitHeight = 1
    MaxHeight = 6
    ReorgDepth = 0
    MaxReorgs = 0
INVARIANT EveryLogHandled
