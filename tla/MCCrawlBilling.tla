---------------------------- MODULE MCCrawlBilling ----------------------------
(* The instance of CrawlBilling for TLC: one crawl over REST and one over MCP *)
(* which together exceed a small pool and a plan of ten credits, of which a   *)
(* page takes six.                                                            *)
EXTENDS Crawls, TLC

CONSTANTS r1, m1

MCLimitOf == (r1 :> 3) @@ (m1 :> 2)
=============================================================================
