\* Three checks, one kept once ended: an eviction needs two ended ones.
SPECIFICATION FairSpec
CONSTANTS
    c1 = c1
    Checks = {c1, c2, c3}
    NoCheck = NoCheck
    MaxFinished = 1
    MaxStored = 1
    Budget <- MCBudget
INVARIANTS
    OnlyOneSpends
    NothingLingers
    MemoryBounded
PROPERTIES
    EndsAreKept
    Recovers
    SlotSpec
\* A closed daemon does nothing more.
CHECK_DEADLOCK FALSE
