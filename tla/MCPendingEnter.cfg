\* Two ENTERs on one ring, one of them a poll that rings its doorbell, and one
\* frame of the work item.
SPECIFICATION LiveSpec
CONSTANTS
    Enters = {e1, e2}
    Pollers = {e2}
    Workers = {w1}
    NoEnter = NoEnter
INVARIANT CompletesOnlyOwned
PROPERTY ParkedWaitAnswered
CHECK_DEADLOCK FALSE
