CONSTANTS
    Size = 8
    Preload = 3
    Slice = 2
    StopPolls = 1
    MaxInits = 2
    MaxBlocks = 9
SPECIFICATION FairSpec
INVARIANTS
    PlayedInOrder
    OneLoop
PROPERTIES
    StopReturns
    PlaysOn
