CONSTANTS
  c1 = c1
  c2 = c2
  g1 = g1
  small = small
  big = big
  None = None
  Calls = {c1, c2}
  CreditsOf <- MCCredits2
  CashCalls = {c2}
  RestCalls = {c1}
  PriceOf <- MCPrice
  Grants = {g1}
  CentsOf <- MCCents
  Plans = {small, big}
  AllowanceOf <- MCAllowance
  FirstPlan = small
  TrialAtStart = {TRUE, FALSE}
  LastMonth = 1
SPECIFICATION Spec
INVARIANTS CounterIsLedger OverageIsPaid FailedRestIsMadeWhole
PROPERTY WithinAllowance
CHECK_DEADLOCK FALSE
