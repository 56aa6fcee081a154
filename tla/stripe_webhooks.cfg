CONSTANTS
  h1 = h1
  h2 = h2
  None = None
  Workers = {h1, h2}
  Prices = {"growth"}
  Statuses = {"active", "past_due"}
  EnvPrice = "starter"
  Failures = TRUE
  MaxEvents = 2
  MaxFaults = 1
SPECIFICATION FairSpec
INVARIANTS AckedIsStored AccountFollowsRow
PROPERTY RowCatchesUp
CONSTRAINT Within
CHECK_DEADLOCK FALSE
