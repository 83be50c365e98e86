\* README.md:91: automatic batch shrink on range/rate-limit errors.
SPECIFICATION FairSpec
CONSTANTS
    Tasks = {"daemon", "stub"}
    LiveTasks = {"daemon"}
    RealRPCTasks = {"daemon"}
    GlobalSlots = 1
    LocalSlots = 1
    InitBatchSize = 2
    MaxRetries = 1
    RestartBackoff = 1
    MaxBackoff = 3
    MaxRestarts = 2
PROPERTY ShrinksOnRangeError
