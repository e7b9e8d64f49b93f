SPECIFICATION Spec
CONSTANTS
  b1 = b1
  b2 = b2
  buyer = buyer
  seller = seller
  r1 = r1
  r2 = r2
  None = None
  Bids = {b1, b2}
  Payers = {buyer, seller}
  Requests = {r1, r2}
  MaxRounds = 1
  MaxReleases = 1
  Stale <- MCUsers
SYMMETRY MCSymmetry
CONSTRAINT MCBudget
INVARIANTS
  TypeOK
  OneAgreement
  WorkFollowsVisit
  
  

  
CHECK_DEADLOCK FALSE
