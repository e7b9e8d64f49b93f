SPECIFICATION ServicesSpec
CONSTANTS
  c1 = c1
  c2 = c2
  a = a
  b = b
  m1 = m1
  k1 = k1
  k2 = k2
  s1 = s1
  s2 = s2
  s3 = s3
  f1 = f1
  f2 = f2
  p1 = p1
  p2 = p2
  n1 = n1
  StandingCalls = {c1, c2}
  Threshold = 2
  Tiers = 1
  MaxCancels = 3
  Reviews = {a, b}
  ReviewCalls = {c1, c2}
  Prices = {1, 2}
  Attempts = {s1, s2, s3}
  Cycles = {k1, k2}
  Messages = {m1}
  NoCycle = NoCycle
  MaxStops = 1
  MaxOverlaps = 1
  Rows = {s1, s2, s3}
  Families = {f1, f2}
  Refreshes = {c1, c2}
  BillIds = {p1, p2}
  BillReports = {n1}
  ProductBills = {p1, p2}
  Taps = {c1, c2}
  AdBills = {p1}
  AdCalls = {c1, c2}
  KindsOf <- MCKindsOf
  Amounts = {3}
  Rates = {0, 50}
INVARIANTS
  ServicesTypeOK
  PenaltiesAreEarned
  TextsAreAccountedFor
  DeliveredWasPaid
  BooksBalance
PROPERTIES
  SingleEffectSpec
  DeliverySpec
  ChainSpec
  AgreementSpec
  LedgerSpec
  TextsAreSettled
CHECK_DEADLOCK FALSE
