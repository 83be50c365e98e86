\* Batches of one block and a reorganisation shallower than ConfirmBlockNum.
SPECIFICATION Spec
CONSTANTS
    TxHash = {"a", "b"}
    Bodies <- AorB
    ConfirmBlockNum = 2
    InitBatchSize = 1
    START_BLOCK = 0
    InitStore = 0
    LiveMode = TRUE
    InProcessRestart = TRUE
    PoolSurvives = TRUE
    Faults <- NoFaults
    InitHeight = 1
    MaxHeight = 5
    ReorgDepth = 1
    MaxReorgs = 1
INVARIANT HandedOnChain
