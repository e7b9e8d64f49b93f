SPECIFICATION Spec
CONSTANTS
  r1 = r1
  r2 = r2
  Price = 3
  Limit = 2
  Rows = 3
  Requests = {r1, r2}
  Confirmable = {0}
  MaxDisputes = 0
SYMMETRY MCRequestSymmetry
INVARIANTS
  TypeOK
  LiveInstallmentsAddUp
  PayoutOnlyForWholePrice
  RefundedPlanReturnedAll
PROPERTIES
  PlanSpec
CHECK_DEADLOCK FALSE
