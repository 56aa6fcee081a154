CONSTANTS
  gh = gh
  goog = goog
  t1 = t1
  t2 = t2
  t3 = t3
  e1 = e1
  e2 = e2
  up = up
  p1 = p1
  github = github
  google = google
  Nobody = Nobody
  Tabs = {t1, t2, t3}
  WhoOf <- MCWhoOf
  Identities = {gh, goog}
  Providers = {github, google}
  ProviderOf <- MCProviderOf
  Emails = {e1, e2}
  EmailOf <- MCEmailOf
  SignUps = {up}
  SignUpOf <- MCSignUpOf
  Patches = {p1}
  NewEmailOf <- MCNewEmailOf
  KeyCalls = {}
  Deletions = {d1}
  Ids = {a1, a2, a3}
  MaxFaults = 1
SPECIFICATION FairLoginSpec
INVARIANTS NotSplit DeletionStands
PROPERTY LetIn
CHECK_DEADLOCK FALSE
