SPECIFICATION FairSpec
CONSTANTS
  b1 = b1
  b2 = b2
  buyer = buyer
  seller = seller
  r1 = r1
  r2 = r2
  None = None
  Bids = {b1, b2}
  Payers = {buyer}
  Requests = {r1}
  MaxRounds = 1
  MaxReleases = 1
  Stale <- Steps
PROPERTIES
  AgreementEnds
CHECK_DEADLOCK FALSE
