CONSTANTS
  s1 = s1
  w1 = w1
  w2 = w2
  NoPlan = NoPlan
  Workers = {w1, w2}
  Sessions = {s1}
  PlanOf <- Growth
  Direct = {s1}
  Mapped = FALSE
  MaxFaults = 2
SPECIFICATION FairSaleSpec
INVARIANT MovesAreWhole
PROPERTY PaymentArrives
CHECK_DEADLOCK FALSE
