SPECIFICATION Spec
CONSTANTS
    NoLease = "NoLease"
    NoCredit = NoCredit
    ring_count = 1
    cq_capacity = 2
    credit_count = 2
    MAX_ENTER_CQ_BUDGET = 3
    INFINITE = 9
    Calls = {i1, i2}
    Modes <- MCModes
    Nobody = Nobody
    Credits = {c1, c2}
    MaxFaults = 1
SYMMETRY MCSymmetry
INVARIANTS NothingLeftBehind MemoryOutlivesIo
CHECK_DEADLOCK FALSE
