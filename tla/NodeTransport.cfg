\* A unit that decodes to two, of which three are too many.
SPECIFICATION FairSpec
CONSTANTS
    Ratio = 2
    MaxBytes = 2
    MaxUnits = 3
INVARIANTS
    ResultIsTrue
    WholeBody
    NothingOutlives
PROPERTIES
    Answers
\* A request that was answered does nothing more.
CHECK_DEADLOCK FALSE
