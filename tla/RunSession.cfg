\* Five places of the program may send ten requests: six are soon too few.
SPECIFICATION FairSpec
CONSTANTS
    a = a
    b = b
    k = k
    Requests = {a, b, k}
    Program <- MCProgram
    Shared = {a, b}
    CanStop = {k}
    Cost <- MCCost
    MaxRequests = 6
    MaxTokens = 7
INVARIANTS
    BudgetKept
    EvidenceAccounts
    StopsAreTold
    LossBlamedOnce
PROPERTIES
    AbortIsClean
    RunEnds
\* A run that ended does nothing more.
CHECK_DEADLOCK FALSE
