SPECIFICATION FairSpec
CONSTANTS
    d1 = d1
    Deliveries = {d1}
    Codes = {"SHIPPED", "DELIVERED"}
    Others = {"DELETED"}
    Seconds = {1, 2}
    ChunkSize = 1
    MaxReceived = 4
INVARIANTS
    LeavesNoMoreThanApplied
PROPERTIES
    ImplementsFeed
    EveryStatusApplied
