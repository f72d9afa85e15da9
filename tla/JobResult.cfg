CONSTANTS
    NbJobs = 3
    MaxStarts = 3
    MaxLost = 1
    MaxClicks = 0
SPECIFICATION Spec
INVARIANT OwnResult
