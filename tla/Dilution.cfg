\* Nine draws of two requests allow one replacement: twenty requests and the
\* tokens of ten draws are enough, one less is not always.
SPECIFICATION FairSpec
CONSTANTS
    N = 9
    PerDraw = 2
    DrawTokens = 3
    Costs <- MCCosts
    Budgets <- MCBudgets
INVARIANTS
    RanIsComplete
    EstimateSuffices
PROPERTIES
    NoDrawAfterAbort
    CountedIsIndependent
    GroupEnds
\* A group that ended does nothing more.
CHECK_DEADLOCK FALSE
