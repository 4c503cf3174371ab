\* One application slot and one control lane, each reused, through two generations
\* and two epochs.
SPECIFICATION FairSpec
CONSTANTS
    MaxInflight = 1
    LaneCount = 1
    MaxGeneration = 2
    MaxEpoch = 2
INVARIANTS NoReqIdReuse OwnerConserved CancelHitsOwner
PROPERTY DrainCompletes
