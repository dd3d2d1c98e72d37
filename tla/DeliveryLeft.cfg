SPECIFICATION Spec
CONSTANTS
    d1 = d1
    Deliveries = {d1}
    Codes = {"SHIPPED"}
    Others = {}
    Seconds = {1, 2, 3}
    ChunkSize = 1
    MaxReceived = 3
INVARIANTS
    CompletedLeavesNone
