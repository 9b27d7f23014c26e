\* Files within the block numbers, at their end, and past it.
SPECIFICATION FairSpec
CONSTANTS
    Sizes = {1, 3, 4}
    Wrap = 3
    Attempts = 2
    MaxListeners = 2
    MaxFaults = 1
    MaxReceived = 4
INVARIANTS
    TypeOK
    BlocksInOrder
    CompleteWhenDone
PROPERTY
    KeptSessionEnds
\* The client ends.
CHECK_DEADLOCK FALSE
