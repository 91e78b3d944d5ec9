SPECIFICATION FairSpec
CONSTANTS
    APPEND_RING_SLAB_BYTES = 3
    AppendRingBytes = 9
    HighPct = 60
    LowPct = 25
    Sizes = {2, 8, 18}
    Gates = {TRUE, FALSE}
    Block = 2
    MaxChunk = 4
INVARIANTS TypeOK OccupancyExact SlotsConserved FinalSlabWithheld DurableIsAnswered
PROPERTIES PauseEnds AppendEnds
