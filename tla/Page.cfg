\* Three checks, one kept once ended; one transient failure is tolerated.
SPECIFICATION PageFairSpec
CONSTANTS
    MaxFailures = 1
    Checks = {c1, c2, c3}
    NoCheck = NoCheck
    MaxFinished = 1
    MaxStored = 1
    Budget <- MCBudget
INVARIANTS
    DisplayIsTrue
    CancelIsHeeded
PROPERTIES
    PollingEnds
\* Every check was asked for and the page waits for its buyer.
CHECK_DEADLOCK FALSE
