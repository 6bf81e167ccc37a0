\* Two checks: one to start, one being prepared.
SPECIFICATION Spec
CONSTANTS
    c1 = c1
    Checks = {c1, c2}
    NoCheck = NoCheck
    MaxFinished = 1
    MaxStored = 1
    Budget <- MCBudget
INVARIANTS
    AloneOnTheWire
\* A closed daemon does nothing more.
CHECK_DEADLOCK FALSE
