\* From plan to headline: a dozen probes, every way each may end.
SPECIFICATION VerdictSpec
CONSTANTS
  PROBE_CATALOGUE <- Catalogue
  PlanOptions <- SomeOptions
  Says <- Sayings
  DrawResults <- Results
  exactUpper <- Upper
  Pairings = {"native", "cross-protocol"}
  MaxSkips = 1
INVARIANTS
  PlanIsTight
  PassIsEarned
  FailIsEarned
  RuledOutIsNotNamed
  GapsOnlyBlur
\* The run ends with its last probe.
CHECK_DEADLOCK FALSE
