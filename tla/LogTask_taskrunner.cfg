\* One process, TaskRunner restarts the task, in-memory pool, several logs a block.
SPECIFICATION Spec
CONSTANTS
    TxHash = {"a", "b"}
    Bodies <- TwoEvents
    ConfirmBlockNum = 2
    InitBatchSize = 3
    START_BLOCK = 2
    InitStore = 0
    LiveMode = TRUE
    InProcessRestart = TRUE
    PoolSurvives = FALSE
    Faults <- RunnerFaults
    InitHeight = 1
    MaxHeight = 6
    ReorgDepth = 0
    MaxReorgs = 0
INVARIANT NoLogSkipped
