\* Two daemons with the same contracts and batches of one or two blocks on one
\* Redis.  Height 2 is never deep enough.
SPECIFICATION FairSpec
CONSTANTS
    Daemons = {"d1", "d2"}
    Heights = {0, 1, 2}
    Logs = {"a", "b", "c"}
    Payloads <- NestedBatches
    ConfirmBlockNum = 1
    MaxHead = 2
INVARIANT NothingLost
PROPERTIES EventuallyHanded ImplementsPool
