CONSTANTS
    NBuf = 3
    DefaultSize = 2
    MaxFrames = 5
    StopPolls = 2
SPECIFICATION FairSpec
INVARIANTS
    NoBufferTwice
PROPERTIES
    ImplementsFrameFifo
    GetReturns
