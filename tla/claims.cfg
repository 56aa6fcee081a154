CONSTANTS
  r1 = r1
  r2 = r2
  r3 = r3
  r4 = r4
  a = a
  b = b
  None = None
  Requests = {r1, r2, r3, r4}
  Args = {a, b}
  ArgsOf <- MCArgsOf
  UnknownArgs = {b}
  StaleAfter = 1
  Ttl = 2
  MaxTime = 3
  MaxCrashes = 1
  PromptCalls = TRUE
  DbFaults = {r3}
  PruneRuns = TRUE
SYMMETRY Symmetry
SPECIFICATION Spec
INVARIANTS OneWorker ChargedOnce EndedLeavesNoClaim
PROPERTIES KeepsPromise StoredResultStands
CHECK_DEADLOCK FALSE
