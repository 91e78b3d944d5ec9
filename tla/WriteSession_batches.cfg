SPECIFICATION Spec
CONSTANTS
    Tapes = {"a", "b"}
    Objects = {"x", "y"}
    Parity = {"a"}
    Mountable = {"a"}
    MaxBatch = 2
    Watermark = 2
    MaxEvents = 5
    MaxFaults = 2
INVARIANTS TypeOK CommittedOnce AnswersHold Readmitted
PROPERTY BatchEnds
CHECK_DEADLOCK FALSE
