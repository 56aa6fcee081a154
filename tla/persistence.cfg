CONSTANTS
  c1 = c1
  c2 = c2
  c3 = c3
  h1 = h1
  h2 = h2
  s1 = s1
  None = None
  Calls = {c1, c2, c3}
  Deliveries = {h1, h2}
  Sessions = {s1}
  Cost = 2
  SuiteCredits = 1
  PackCredits = 3
  LastMonth = 1
  MaxFaults = 1
SPECIFICATION FairSpec
INVARIANTS LedgerIsSound PackGrantedOnce SuiteOncePerMonth
PROPERTY PaidIsGranted
CHECK_DEADLOCK FALSE
