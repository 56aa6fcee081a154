------------------------------- MODULE Scrapes --------------------------------
(***************************************************************************)
(* The system of ScrapeCache with names of its own: a module may extend it *)
(* beside the module of another component, and the runs and the theorems   *)
(* about scrapes speak of the same properties.                             *)
(***************************************************************************)
CONSTANTS RestScrapes, McpScrapes, Urls, UrlOf, TTL, LastTick, NoScrape
VARIABLES now, cache, scraping, hit, began, settled, paid, waived, owed, dropped

Scrape == INSTANCE ScrapeCache WITH pc <- scraping, None <- NoScrape

ASSUME ScrapeParameters == Scrape!Parameters

ScrapeSpec == Scrape!Spec

\* The types of the scrapes, the cache and the ledger.
ScrapeTypeOK == Scrape!TypeOK

\* What is served from the cache was paid for by whoever stored it, within the
\* lifetime of its row.
HitIsRecent == Scrape!HitIsRecent

\* A scrape that has paid and failed is owed its price once unless its record
\* failed, and nobody else is owed anything.
FailedScrapeIsOwed == Scrape!FailedScrapeIsOwed
=============================================================================
