CONSTANTS
  e1 = e1
  e2 = e2
  e3 = e3
  w1 = w1
  w2 = w2
  Entries = {e1,e2,e3}
  Sweepers = {w1, w2}
  None = None
  Limit = 2
  MaxFaults = 2
  LostAcks = FALSE
SPECIFICATION FairSpec
PROPERTIES SettledOnce EventuallySettled
