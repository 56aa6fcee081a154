---------------------------- MODULE MCScrapeCache -----------------------------
(* Instances of ScrapeCache for TLC: scrapes of one page that overlap and     *)
(* follow each other, while rows expire.                                      *)
EXTENDS Scrapes, TLC

CONSTANTS r1, r2, m1, page

MCUrlOf == [c \in RestScrapes \cup McpScrapes |-> page]

MCPeers == Permutations({r1, r2})
=============================================================================
