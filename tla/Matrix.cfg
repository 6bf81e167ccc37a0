SPECIFICATION Spec
CONSTANTS
  Claims <- Models
  Cells <- Shapes
  Documents <- Table
  CheaperThan <- cheaperThan
  Worded <- WordedShapes
  Probes <- Matrices
INVARIANTS AccusesOnRefusals VendorReadsAsItself
CHECK_DEADLOCK FALSE
