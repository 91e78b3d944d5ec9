SPECIFICATION Spec
CONSTANTS
    Tapes = {"a"}
    Objects = {"x", "y"}
    Parity = {"a"}
    Mountable = {}
    MaxBatch = 2
    Watermark = 3
    MaxEvents = 5
    MaxFaults = 0
INVARIANT LiveEndingAdmitted
CHECK_DEADLOCK FALSE
