\* Two producers over a ring of two cells, and a position past the first lap.
SPECIFICATION FairSpec
CONSTANTS
    Producers = {p1, p2}
    Capacity = 2
    MaxRetries = 1
    MaxCursor = 3
INVARIANTS NoFalseFault CellExclusive NoLostWake
PROPERTIES RefinesFifo EveryEntryConsumed
CHECK_DEADLOCK FALSE
