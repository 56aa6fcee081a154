CONSTANTS
  r1 = r1
  r2 = r2
  r3 = r3
  r4 = r4
  k = k
  j = j
  None = None
  Requests = {r1, r2, r3, r4}
  Keys = {k, j}
  KeyOf <- MCKeyOf
  Wallet = TRUE
  Included = 1
  FreeAfter = 2
  DbFaults = {r3}
  GateFaults = {r4}
SPECIFICATION FairSpec
INVARIANTS DeliveredOrOwed ChargedOncePerKey OneRail
PROPERTY ClaimSettles
CHECK_DEADLOCK FALSE
