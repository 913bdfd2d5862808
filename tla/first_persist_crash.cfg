SPECIFICATION Spec
CONSTANTS
  l1 = l1
  l2 = l2
  Scenarios <- FirstPersist
  MaxAreas = 2
INVARIANTS AlwaysReopens
