CONSTANTS
    NBuf = 6
    DefaultSize = 5
    MaxFrames = 8
    StopPolls = 2
SPECIFICATION FairSpec
INVARIANTS
    InOrderAndIntact
    NothingLostAtEnd
    UsedAfterDeleteOnlyAtGrowth
    NoLostWakeup
PROPERTIES
    ImplementsFrameFifo
    GetReturns
    DestructorEnds
