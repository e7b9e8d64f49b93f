SPECIFICATION FairSpec
CONSTANTS
  r1 = r1
  r2 = r2
  Price = 3
  Limit = 2
  Rows = 2
  Requests = {r1}
  Confirmable = {0}
  MaxDisputes = 1
PROPERTIES
  PaidPlanSettles
CHECK_DEADLOCK FALSE
