\* The daemon with Redis: everything may fail, reorganisations included.
SPECIFICATION Spec
CONSTANTS
    TxHash = {"a", "b"}
    Bodies <- QuietOrOne
    ConfirmBlockNum = 2
    InitBatchSize = 2
    START_BLOCK = 0
    InitStore = 0
    LiveMode = TRUE
    InProcessRestart = FALSE
    PoolSurvives = TRUE
    Faults <- AllFaults
    InitHeight = 1
    MaxHeight = 4
    ReorgDepth = 2
    MaxReorgs = 1
INVARIANTS TypeOK HandedDeepEnough
PROPERTY CheckpointNeverRegresses
