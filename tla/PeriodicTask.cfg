SPECIFICATION FairSpec
CONSTANTS
    MaxRuns = 3
INVARIANTS
    TaskInv
    AtMostOneLateRun
    StartedStaysActive
PROPERTIES
    StopReturns
