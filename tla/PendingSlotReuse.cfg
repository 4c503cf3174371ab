\* One WAIT is enough: the slot after its completion, seen by the fence.
SPECIFICATION Spec
CONSTANTS
    Enters = {e1, e2}
    Pollers = {e2}
    Workers = {w1}
    NoEnter = NoEnter
INVARIANTS
    FenceNeverPanics
CHECK_DEADLOCK FALSE
