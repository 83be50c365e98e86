\* A live task behind RealRPC and a one-pass task compete for one global slot.
SPECIFICATION FairSpec
CONSTANTS
    Tasks = {"daemon", "stub"}
    LiveTasks = {"daemon"}
    RealRPCTasks = {"daemon"}
    GlobalSlots = 1
    LocalSlots = 1
    InitBatchSize = 2
    MaxRetries = 1
    RestartBackoff = 1
    MaxBackoff = 3
    MaxRestarts = 2
INVARIANTS TypeOK SlotsAccounted RunsUntilCancelled BackoffSchedule
PROPERTIES ShutdownCompletes SlotGranted
