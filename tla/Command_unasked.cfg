SPECIFICATION Spec
INVARIANTS
    NothingSentUnasked
\* A command that exited does nothing more.
CHECK_DEADLOCK FALSE
