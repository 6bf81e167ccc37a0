\* Groups A to D against every kind of endpoint.
SPECIFICATION Spec
CONSTANT Endpoints <- AllEndpoints
INVARIANTS
  TypeOK
  VendorReadsAsVendor
  StrippingIsNotDeception
  CheaperIsNotRuledOut
  CostIsEnough
\* The run ends with the catalogue.
CHECK_DEADLOCK FALSE
