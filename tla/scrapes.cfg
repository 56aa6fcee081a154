CONSTANTS
  r1 = r1
  r2 = r2
  m1 = m1
  page = page
  NoScrape = NoScrape
  RestScrapes = {r1, r2}
  McpScrapes = {m1}
  Urls = {page}
  UrlOf <- MCUrlOf
  TTL = 1
  LastTick = 2
SPECIFICATION ScrapeSpec
INVARIANTS HitIsRecent FailedScrapeIsOwed
SYMMETRY MCPeers
CHECK_DEADLOCK FALSE
