SPECIFICATION Spec
CONSTANTS
  b1 = b1
  b2 = b2
  r1 = r1
  r2 = r2
  Buyers = {b1, b2}
  Requests = {r1, r2}
  MaxRows = 3
  MaxReleases = 1
  DueRows = {1}
SYMMETRY MCSymmetry
INVARIANTS
  TypeOK
  BothAgreed
PROPERTIES
  NoSelectionDuringOrder
  ContractSpec
CHECK_DEADLOCK FALSE
