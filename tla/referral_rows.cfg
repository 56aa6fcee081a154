CONSTANTS
  p1 = p1
  p2 = p2
  p3 = p3
  f1 = f1
  f2 = f2
  v1 = v1
  v2 = v2
  v3 = v3
  d1 = d1
  d2 = d2
  a = a
  b = b
  Payments = {p1, p2, p3}
  FreeTries = {f1, f2}
  Conversions = {v1, v2, v3}
  Referees = {a, b}
  RefereeOf <- MCRefereeOf
  Readers = {d1, d2}
  PaidForFree = 2
  MaxEarned = 1
  LastMonth = 1
  Deaths = TRUE
SPECIFICATION Spec
INVARIANTS OneFreeCall EarnedIsThisMonths
SYMMETRY Symmetry
CHECK_DEADLOCK FALSE
