CONSTANTS
  r1 = r1
  m1 = m1
  NoCrawl = NoCrawl
  RestCrawls = {r1}
  McpCrawls = {m1}
  LimitOf <- MCLimitOf
  Pool = 2
  PerPageCents = 1
  Allowance = 10
  Keys = {TRUE, FALSE}
  LastPoolMonth = 1
SPECIFICATION FairCrawlSpec
INVARIANTS PoolIsNotOverdrawn FailedPreChargeIsOwed PreChargeCovers CapturedWithinPlan
PROPERTY CrawlEnds
CHECK_DEADLOCK FALSE
