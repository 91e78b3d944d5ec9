SPECIFICATION Spec
CONSTANTS
    Tapes = {"a", "b"}
    Objects = {"x"}
    Parity = {"a"}
    Mountable = {}
    MaxBatch = 1
    Watermark = 3
    MaxEvents = 4
    MaxFaults = 2
INVARIANT RetryReplayed
CHECK_DEADLOCK FALSE
