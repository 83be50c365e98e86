\* main restarted by its supervisor, Redis pool, a log in every block, saved checkpoint, transient faults.
SPECIFICATION FairSpec
CONSTANTS
    TxHash = {"a", "b"}
    Bodies <- AlwaysOne
    ConfirmBlockNum = 3
    InitBatchSize = 4
    START_BLOCK = 0
    InitStore = 1
    LiveMode = TRUE
    InProcessRestart = FALSE
    PoolSurvives = TRUE
    Faults <- DaemonFaults
    InitHeight = 1
    MaxHeight = 10
    ReorgDepth = 0
    MaxReorgs = 0
INVARIANTS NoLogSkipped RoundDelivers
PROPERTY EventuallyDelivered
