SPECIFICATION FairSpec
INVARIANTS
    ExitIsTrue
    ProbesTheBest
PROPERTIES
    RunsOnlyAgreed
    CommandEnds
\* A command that exited does nothing more.
CHECK_DEADLOCK FALSE
