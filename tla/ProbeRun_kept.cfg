\* What the kept gate is documented to rule out.
SPECIFICATION Spec
CONSTANT Endpoints <- Unknown
INVARIANT KeptMeansCounted
CHECK_DEADLOCK FALSE
