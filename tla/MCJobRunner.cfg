CONSTANTS
    NbJobs = 2
    MaxStarts = 2
    MaxLost = 2
    MaxClicks = 2
SPECIFICATION FairSpec
INVARIANTS
    OneSaver
    VerdictsFiled
    NoneLeftRunning
PROPERTY RunEnds
