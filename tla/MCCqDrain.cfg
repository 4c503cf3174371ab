\* Two threads drain a credit and an abort while the daemon pushes and the fence
\* runs.
SPECIFICATION FairSpec
CONSTANTS
    Threads = {t1, t2}
    Credits = {c1}
    OtherKinds = {"abort"}
    Capacity = 2
    MaxBudget = 2
    MaxSlots = 1
    MaxGeneration = 3
    MaxCursor = 3
INVARIANTS CreditConservation AccusedOnlyTorn
PROPERTIES RefinesFifo FencedIsQuiet FenceCompletes
CHECK_DEADLOCK FALSE
