CONSTANTS
  h1 = h1
  h2 = h2
  a1 = a1
  None = None
  Workers = {h1, h2}
  Accounts = {a1}
  Named = None
  Updates <- UpdateUnderReview
  Outcomes <- WonOrRefunded
  MaxFaults = 1
SPECIFICATION FairSpec
INVARIANTS AuditedState SettledAsDecided
PROPERTIES KeepsLifecycle ClosureArrives
