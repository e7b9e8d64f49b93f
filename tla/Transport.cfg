SPECIFICATION Spec
CONSTANTS
  o1 = o1
  o2 = o2
  r1 = r1
  r2 = r2
  Owners = {o1, o2}
  Requests = {r1, r2}
  MaxThreads = 2
  MaxFees = 2
  MaxRounds = 1
  MaxReleases = 1
  MaxJobs = 2
  LateSuccess = FALSE
CONSTRAINT MCBudget
SYMMETRY MCSymmetry
INVARIANTS
  TypeOK
  OneNegotiation
  DriverPaid
PROPERTY
  HireSpec
CHECK_DEADLOCK FALSE
