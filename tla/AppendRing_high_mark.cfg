SPECIFICATION FairSpec
CONSTANTS
    APPEND_RING_SLAB_BYTES = 3
    AppendRingBytes = 9
    HighPct = 100
    LowPct = 25
    Sizes = {18}
    Gates = {TRUE}
    Block = 2
    MaxChunk = 4
PROPERTIES PauseEnds
