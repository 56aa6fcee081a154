------------------------------- MODULE Crawls ---------------------------------
(***************************************************************************)
(* The system of CrawlBilling with names of its own: a module may extend   *)
(* it beside the module of another component, and the runs and the         *)
(* theorems about crawls speak of the same properties.                     *)
(***************************************************************************)
CONSTANTS RestCrawls, McpCrawls, LimitOf, Pool, PerPageCents, Allowance, Keys,
          LastPoolMonth, NoCrawl
VARIABLES poolMonth, poolUsed, poolLock, left, crawling, est, drawn, pages, freePages,
          pre, paid, crawlOwed, dropped, waived, over, taken, blind, crossed

Crawl == INSTANCE CrawlBilling
    WITH month <- poolMonth, used <- poolUsed, lock <- poolLock, pc <- crawling,
         free <- freePages, owed <- crawlOwed, disturbed <- crossed,
         LastMonth <- LastPoolMonth, None <- NoCrawl

ASSUME CrawlParameters == Crawl!Parameters

CrawlSpec == Crawl!Spec
FairCrawlSpec == Crawl!FairSpec

\* The types of the crawls, the pool, the plan and the ledger.
CrawlTypeOK == Crawl!TypeOK

\* The counter of the pool is what draws took, and no more than the pool.
PoolIsNotOverdrawn == Crawl!PoolIsNotOverdrawn

\* An undisturbed advance and the pool pay for the pages that are delivered.
PreChargeCovers == Crawl!PreChargeCovers

\* A crawl that paid in advance and failed is owed its estimate, and nobody else.
FailedPreChargeIsOwed == Crawl!FailedPreChargeIsOwed

\* An undisturbed crawl over MCP captures no more than it was authorized for.
CapturedWithinPlan == Crawl!CapturedWithinPlan

\* Every crawl that has begun ends.
CrawlEnds == Crawl!CrawlEnds
=============================================================================
