----------------------------- MODULE ScrapeCache ------------------------------
(***************************************************************************)
(* Scrapes of single pages by any account, over REST (handleFirecrawl-     *)
(* Scrape in apps/api/src/handlers.ts) and MCP (runWebResearch in          *)
(* mcp-tool-impls.ts), and the cache of pages they share for a day         *)
(* (packages/snapshots/src/scrape-cache-store.ts).                         *)
(*                                                                         *)
(* Over REST a scrape looks into the cache, pays in advance if its quota   *)
(* is exceeded, fetches the page, pays for it otherwise, and puts it into  *)
(* the cache.  Over MCP the in-band gate may collect the price before the  *)
(* tool runs; the tool looks into the cache, authorizes, fetches,          *)
(* captures and puts.  The callers have accounts of their own, so that     *)
(* quota and plan are free choices at the place where they are asked.      *)
(***************************************************************************)
EXTENDS Integers, FiniteSets

CONSTANTS
    RestScrapes,
    McpScrapes,
    Urls,         \* normalized URLs
    UrlOf,
    TTL,          \* DEFAULT_TTL_SECONDS, in ticks of the clock
    LastTick,     \* bound on the clock: 0..LastTick
    None

Scrapes == RestScrapes \cup McpScrapes

\* What the constants are, which Scrapes assumes.
Parameters ==
    /\ RestScrapes \cap McpScrapes = {} /\ None \notin Scrapes
    /\ UrlOf \in [Scrapes -> Urls]
    /\ TTL \in Nat \ {0} /\ LastTick \in Nat

VARIABLES
    now,     \* the clock
    cache,   \* scrape_cache: who stored the page of a URL and when, or None
    pc,
    hit,     \* the row that a scrape is answered from, or None
    began,   \* when the scrape looked into the cache
    settled, \* preCharged, over REST; markInbandSettled, over MCP
    paid,    \* prices paid, in cash or credits
    waived,  \* history: scrapes whose price was met by a free call of a referral
    owed,    \* entries of the scrape in compensation_ledger
    dropped  \* history: scrapes of which a record in the ledger failed, or seemed to

vars == <<now, cache, pc, hit, began, settled, paid, waived, owed, dropped>>

Done == {"cached", "answered", "refused", "unavailable", "failed"}
Stages == {"idle", "look", "quota", "key", "authorize", "fetch", "bill", "put",
           "reply", "notok", "owing"} \cup Done
Rows == [by : Scrapes, stored : 0..LastTick]

TypeOK ==
    /\ now \in 0..LastTick
    /\ cache \in [Urls -> Rows \cup {None}]
    /\ pc \in [Scrapes -> Stages]
    /\ hit \in [Scrapes -> Rows \cup {None}]
    /\ began \in [Scrapes -> 0..LastTick]
    /\ settled \subseteq Scrapes /\ waived \subseteq Scrapes /\ dropped \subseteq Scrapes
    /\ paid \in [Scrapes -> Nat] /\ owed \in [Scrapes -> Nat]

Init ==
    /\ now = 0
    /\ cache = [u \in Urls |-> None]
    /\ pc = [c \in Scrapes |-> "idle"]
    /\ hit = [c \in Scrapes |-> None]
    /\ began = [c \in Scrapes |-> 0]
    /\ settled = {} /\ waived = {} /\ dropped = {}
    /\ paid = [c \in Scrapes |-> 0]
    /\ owed = [c \in Scrapes |-> 0]

Goto(c, stage) == pc' = [pc EXCEPT ![c] = stage]

\* settleOverageCash: the price is collected, or a free call stands in for it.
Charged(c) ==
    \/ paid' = [paid EXCEPT ![c] = @ + 1] /\ UNCHANGED waived
    \/ waived' = waived \cup {c} /\ UNCHANGED paid

\* What a throw leads to: the catch of the handler, or that of dispatch.
Throw(c) == Goto(c, "owing")

-----------------------------------------------------------------------------
(* The in-band gate and the cache *)

\* settleMcpCallInband: the plan covers the call, or no rail is configured; the
\* price is collected before the tool is called; or the payment is refused.
Gate(c) ==
    /\ pc[c] = "idle" /\ c \in McpScrapes
    /\ \/ Goto(c, "look") /\ UNCHANGED <<paid, waived, settled>>
       \/ Charged(c) /\ settled' = settled \cup {c} /\ Goto(c, "look")
       \/ Goto(c, "refused") /\ UNCHANGED <<paid, waived, settled>>
    /\ UNCHANGED <<now, cache, hit, began, owed, dropped>>

\* getCachedScrape: the row of a URL, unless it has expired.
LiveRow(u) ==
    IF cache[u] # None /\ cache[u].stored + TTL > now THEN cache[u] ELSE None

\* A hit is answered at once, over MCP by way of dispatch; a statement of the
\* lookup may throw.
Look(c) ==
    /\ pc[c] = (IF c \in RestScrapes THEN "idle" ELSE "look")
    /\ began' = [began EXCEPT ![c] = now]
    /\ \/ /\ LiveRow(UrlOf[c]) # None
          /\ hit' = [hit EXCEPT ![c] = LiveRow(UrlOf[c])]
          /\ Goto(c, IF c \in RestScrapes THEN "cached" ELSE "reply")
       \/ /\ LiveRow(UrlOf[c]) = None
          /\ Goto(c, IF c \in RestScrapes THEN "quota" ELSE "authorize")
          /\ UNCHANGED hit
       \/ Throw(c) /\ UNCHANGED hit
    /\ UNCHANGED <<now, cache, settled, paid, waived, owed, dropped>>

-----------------------------------------------------------------------------
(* Payment and work *)

\* REST: the quota allows the scrape, or its price is charged in advance.
PreCharge(c) ==
    /\ pc[c] = "quota"
    /\ \/ Goto(c, "key") /\ UNCHANGED <<paid, waived, settled>>
       \/ Charged(c) /\ settled' = settled \cup {c} /\ Goto(c, "key")
       \/ Goto(c, "refused") /\ UNCHANGED <<paid, waived, settled>>
    /\ UNCHANGED <<now, cache, hit, began, owed, dropped>>

\* REST: without FIRECRAWL_API_KEY the request ends in a 503.
CheckKey(c) ==
    /\ pc[c] = "key"
    /\ Goto(c, "fetch") \/ Goto(c, "unavailable")
    /\ UNCHANGED <<now, cache, hit, began, settled, paid, waived, owed, dropped>>

\* MCP: authorizeMcpToolCredits; a call that has settled is not refused.
Authorize(c) ==
    /\ pc[c] = "authorize"
    /\ Goto(c, "fetch") \/ (c \notin settled /\ Goto(c, "refused"))
    /\ UNCHANGED <<now, cache, hit, began, settled, paid, waived, owed, dropped>>

\* Firecrawl answers with the page or, over REST, with an error; or the fetch throws.
Fetch(c) ==
    /\ pc[c] = "fetch"
    /\ Goto(c, "bill") \/ Throw(c) \/ (c \in RestScrapes /\ Goto(c, "notok"))
    /\ UNCHANGED <<now, cache, hit, began, settled, paid, waived, owed, dropped>>

\* Faulty variant: a scrape that is refused is put into the cache as well.
BillFallsThrough(c) ==
    /\ pc[c] = "bill"
    /\ \/ c \in settled /\ Goto(c, "put") /\ UNCHANGED <<paid, waived>>
       \/ c \notin settled /\ Charged(c) /\ Goto(c, "put")
       \/ c \notin settled /\ Goto(c, "put") /\ UNCHANGED <<paid, waived>>
    /\ UNCHANGED <<now, cache, hit, began, settled, owed, dropped>>

\* REST: the price is charged now, unless it was in advance, and the page is only
\* kept if it is paid for.  MCP: the price is captured; of a settled call the
\* capture takes what the cash did not pay.  Either may throw.
Bill(c) ==
    /\ pc[c] = "bill"
    /\ \/ c \in settled /\ Goto(c, "put") /\ UNCHANGED <<paid, waived>>
       \/ /\ c \notin settled
          /\ IF c \in RestScrapes
             THEN Charged(c)
             ELSE paid' = [paid EXCEPT ![c] = @ + 1] /\ UNCHANGED waived
          /\ Goto(c, "put")
       \/ /\ c \in RestScrapes \ settled
          /\ Goto(c, "refused") /\ UNCHANGED <<paid, waived>>
       \/ c \in McpScrapes \cup (RestScrapes \ settled) /\ Throw(c) /\ UNCHANGED <<paid, waived>>
    /\ UNCHANGED <<now, cache, hit, began, settled, owed, dropped>>

\* putCachedScrape; a write that fails is logged and the page answered all the same.
Put(c) ==
    /\ pc[c] = "put"
    /\ \/ cache' = [cache EXCEPT ![UrlOf[c]] = [by |-> c, stored |-> now]]
       \/ UNCHANGED cache
    /\ Goto(c, IF c \in RestScrapes THEN "answered" ELSE "reply")
    /\ UNCHANGED <<now, hit, began, settled, paid, waived, owed, dropped>>

\* MCP: dispatch completes the claim of the call and reads the balances that go
\* with the answer; what throws there leads to its catch as the tool itself does.
Reply(c) ==
    /\ pc[c] = "reply"
    /\ Goto(c, IF hit[c] # None THEN "cached" ELSE "answered") \/ Throw(c)
    /\ UNCHANGED <<now, cache, hit, began, settled, paid, waived, owed, dropped>>

\* Faulty variant: the catch owes nothing.
OweNothing(c) ==
    /\ pc[c] \in {"notok", "owing"}
    /\ Goto(c, "failed")
    /\ UNCHANGED <<now, cache, hit, began, settled, paid, waived, owed, dropped>>

\* A scrape that fails after its price was collected is recorded as owed: by the
\* handler over REST, and by dispatch over MCP.
Record(c) ==
    /\ owed' = [owed EXCEPT ![c] = IF c \in settled THEN @ + 1 ELSE @]
    /\ Goto(c, "failed")
    /\ UNCHANGED dropped

\* The INSERT throws, its row written or not, or over MCP the release of the claim
\* before it.  The entry for an answer that is not ok is inserted within the try of
\* the handler, whose catch then inserts another; beyond the catch nothing does.
LoseRecord(c) ==
    /\ c \in settled
    /\ dropped' = dropped \cup {c}
    /\ \/ owed' = [owed EXCEPT ![c] = @ + 1]
       \/ UNCHANGED owed
    /\ Goto(c, IF pc[c] = "notok" THEN "owing" ELSE "failed")

Owe(c) ==
    /\ pc[c] \in {"notok", "owing"}
    /\ Record(c) \/ LoseRecord(c)
    /\ UNCHANGED <<now, cache, hit, began, settled, paid, waived>>

Tick ==
    /\ now < LastTick
    /\ now' = now + 1
    /\ UNCHANGED <<cache, pc, hit, began, settled, paid, waived, owed, dropped>>

-----------------------------------------------------------------------------

Step(c) ==
    \/ Gate(c) \/ Look(c) \/ PreCharge(c) \/ CheckKey(c) \/ Authorize(c)
    \/ Fetch(c) \/ Bill(c) \/ Put(c) \/ Reply(c) \/ Owe(c)

Next == (\E c \in Scrapes : Step(c)) \/ Tick

Spec == Init /\ [][Next]_vars

-----------------------------------------------------------------------------
(* Properties *)

MetPrice(c) == paid[c] = 1 \/ c \in waived

\* A page that is served from the cache was paid for by the scrape that stored
\* it, less than a day before the one that it is served to looked.
HitIsRecent ==
    \A c \in Scrapes : hit[c] # None =>
        MetPrice(hit[c].by) /\ began[c] - hit[c].stored < TTL

\* A scrape that has paid and failed is owed its price once, whichever of its steps
\* threw, unless a record of the debt in the ledger failed or seemed to: then there
\* may be no entry, or over REST two.  Nobody else is owed anything.
FailedScrapeIsOwed ==
    \A c \in Scrapes :
        /\ pc[c] \in Done /\ c \notin dropped
               => owed[c] = IF c \in settled /\ pc[c] = "failed" THEN 1 ELSE 0
        /\ owed[c] > 0 => c \in settled /\ pc[c] \in {"owing", "failed"}
        /\ owed[c] <= IF c \in RestScrapes THEN 2 ELSE 1

=============================================================================
