----------------------------- MODULE CrawlBilling -----------------------------
(***************************************************************************)
(* Crawls of one account, which are priced per page beyond its monthly     *)
(* pool of free pages (packages/snapshots/src/free-scrape-pool-store.ts).  *)
(*                                                                         *)
(* Over REST (handleFirecrawlCrawl in apps/api/src/handlers.ts) a call     *)
(* whose quota is exceeded pays in advance for the pages that the pool,    *)
(* as it stands, would not cover; the others pay, after the crawl and      *)
(* after the pool has been drawn, for what the pool did not cover.  The    *)
(* account is one of the free tier, which pays its price in cash.  Over    *)
(* MCP (runWebResearchCrawl in mcp-tool-impls.ts) the same estimate is     *)
(* authorized against plan credits and the pages that came are captured.   *)
(*                                                                         *)
(* The pool is drawn in a transaction under an advisory lock.  A payment,  *)
(* a preview and a capture are single steps here: PaidCalls and            *)
(* UsageCredits model them statement by statement.                         *)
(***************************************************************************)
EXTENDS CreditMath, FiniteSets

CONSTANTS
    RestCrawls,
    McpCrawls,
    LimitOf,      \* pages each crawl asks for
    Pool,         \* FREE_SCRAPE_POOL_MONTHLY
    PerPageCents, \* price of a page
    Allowance,    \* plan credits of a month
    Keys,         \* whether FIRECRAWL_API_KEY is set where a request may land
    LastMonth,    \* bound on months: 0..LastMonth
    None

Crawls == RestCrawls \cup McpCrawls
Months == 0..LastMonth

\* What the constants are, which Crawls assumes.
Parameters ==
    /\ RestCrawls \cap McpCrawls = {} /\ None \notin Crawls
    /\ LimitOf \in [Crawls -> Nat \ {0}]
    /\ {Pool, PerPageCents, Allowance, LastMonth} \subseteq Nat
    /\ Keys \subseteq BOOLEAN

VARIABLES
    month,     \* getMonthKey()
    used,      \* account_free_scrape_pool.free_scrapes_used, per month
    lock,      \* who holds pg_advisory_xact_lock(3, account), or None
    left,      \* plan credits left this month
    pc,
    est,       \* estimatedUnfunded
    drawn,     \* the month a draw began in and the counter it read
    pages,     \* pagesCrawled
    free,      \* poolDraw.consumed
    pre,       \* preCharged
    paid,      \* pages paid for, in advance or after
    owed,      \* entries of the call in compensation_ledger
    dropped,   \* history: crawls whose INSERT into compensation_ledger threw
    waived,    \* history: crawls whose charge was met by a free call of a referral
    over,      \* history: credits of a capture beyond the plan
    taken,     \* history: pages that committed draws took, per month
    blind,     \* history: crawls over MCP whose draw threw
    disturbed  \* history: crawls during which something else moved pool, plan or month

vars == <<month, used, lock, left, pc, est, drawn, pages, free, pre, paid,
          owed, dropped, waived, over, taken, blind, disturbed>>

Done == {"answered", "refused", "unavailable", "failed"}
Stages == {"idle", "quota", "authorize", "key", "fetch", "draw", "lock", "read",
           "write", "bill", "notok", "catch"} \cup Done

TypeOK ==
    /\ month \in Months
    /\ used \in [Months -> 0..Pool]
    /\ lock \in Crawls \cup {None}
    /\ left \in 0..Allowance
    /\ pc \in [Crawls -> Stages]
    /\ est \in [Crawls -> Nat]
    /\ drawn \in [Crawls -> [month : Months, used : Nat]]
    /\ pages \in [Crawls -> Nat] /\ free \in [Crawls -> Nat]
    /\ \A c \in Crawls : pages[c] <= LimitOf[c] /\ free[c] <= pages[c]
    /\ pre \in [Crawls -> BOOLEAN]
    /\ paid \in [Crawls -> Nat] /\ owed \in [Crawls -> Nat] /\ over \in [Crawls -> Nat]
    /\ taken \in [Months -> Nat]
    /\ dropped \subseteq RestCrawls /\ waived \subseteq RestCrawls /\ blind \subseteq McpCrawls
    /\ disturbed \subseteq Crawls

Init ==
    /\ month = 0
    /\ used = [m \in Months |-> 0]
    /\ lock = None
    /\ left = Allowance
    /\ pc = [c \in Crawls |-> "idle"]
    /\ est = [c \in Crawls |-> 0]
    /\ drawn = [c \in Crawls |-> [month |-> 0, used |-> 0]]
    /\ pages = [c \in Crawls |-> 0]
    /\ free = [c \in Crawls |-> 0]
    /\ pre = [c \in Crawls |-> FALSE]
    /\ paid = [c \in Crawls |-> 0]
    /\ owed = [c \in Crawls |-> 0]
    /\ over = [c \in Crawls |-> 0]
    /\ taken = [m \in Months |-> 0]
    /\ dropped = {} /\ waived = {} /\ blind = {} /\ disturbed = {}

Goto(c, stage) == pc' = [pc EXCEPT ![c] = stage]

pool == <<used, taken>>
ledger == <<owed, dropped>>
money == <<left, pre, paid, waived, over>>

\* Every other crawl that is under way sees the account change.
Disturb(p) ==
    disturbed' = disturbed \cup {c \in Crawls \ {p} : pc[c] \notin {"idle"} \cup Done}

\* Where a throw leaves a crawl: over REST in the handler's catch.
Thrown(c) == IF c \in RestCrawls THEN "catch" ELSE "failed"

\* getFreeScrapePoolStatus(...).remaining
Remaining == AtLeastZero(Pool - used[month])

-----------------------------------------------------------------------------
(* Before the crawl *)

\* Faulty variant: the estimate forgets what the month has used of the pool.
EstimateOnFullPool(c) ==
    /\ pc[c] = "idle"
    /\ est' = [est EXCEPT ![c] = AtLeastZero(LimitOf[c] - Pool)]
    /\ Goto(c, IF c \in RestCrawls THEN "quota" ELSE "authorize")
    /\ UNCHANGED <<month, used, lock, left, drawn, pages, free, pre, paid,
                   ledger, waived, over, taken, blind, disturbed>>

\* The status of the pool is read, without a lock, and the crawl's unfunded
\* pages are estimated from it.
Estimate(c) ==
    /\ pc[c] = "idle"
    /\ est' = [est EXCEPT ![c] = AtLeastZero(LimitOf[c] - Remaining)]
    /\ Goto(c, IF c \in RestCrawls THEN "quota" ELSE "authorize")
    /\ UNCHANGED <<month, used, lock, left, drawn, pages, free, pre, paid,
                   ledger, waived, over, taken, blind, disturbed>>

\* chargeWithDiscounts: the money is collected, or a free call stands in for it.
Charged(c, n) ==
    \/ paid' = [paid EXCEPT ![c] = @ + n] /\ UNCHANGED waived
    \/ waived' = waived \cup {c} /\ UNCHANGED paid

\* ... or the payment is refused, or throws before it is made.
NotCharged(c, stage) ==
    /\ Goto(c, "refused") \/ Goto(c, stage)
    /\ UNCHANGED <<paid, waived>>

\* REST: the quota allows the crawl, or nothing would have to be paid; otherwise
\* the estimate is charged.
PreCharge(c) ==
    /\ pc[c] = "quota"
    /\ \/ Goto(c, "key") /\ UNCHANGED <<pre, paid, waived>>
       \/ /\ est[c] > 0
          /\ Charged(c, est[c])
          /\ pre' = [pre EXCEPT ![c] = TRUE]
          /\ Goto(c, "key")
       \/ est[c] > 0 /\ NotCharged(c, "failed") /\ UNCHANGED pre
    /\ UNCHANGED <<month, used, lock, left, est, drawn, pages, free, ledger, over,
                   taken, blind, disturbed>>

\* REST: without the key of Firecrawl the request ends in a 503.
CheckKey(c) ==
    /\ pc[c] = "key"
    /\ \E set \in Keys : Goto(c, IF set THEN "fetch" ELSE "unavailable")
    /\ UNCHANGED <<month, lock, est, drawn, pages, free, ledger, blind, disturbed>>
    /\ UNCHANGED pool /\ UNCHANGED money

\* previewUsageCredits and consumeUsageCredits: a call takes one credit at least.
CreditsForPages(n) ==
    IF n * PerPageCents = 0 THEN 1 ELSE CreditsFromCents(n * PerPageCents)

\* Faulty variant: any credit that is left will do.
AuthorizeAnyLeft(c) ==
    /\ pc[c] = "authorize"
    /\ Goto(c, IF left = 0 THEN "refused" ELSE "fetch")
    /\ UNCHANGED <<month, lock, est, drawn, pages, free, ledger, blind, disturbed>>
    /\ UNCHANGED pool /\ UNCHANGED money

\* MCP: the estimate is refused if it exceeds the plan; nothing is reserved.
Authorize(c) ==
    /\ pc[c] = "authorize"
    /\ Goto(c, IF CreditsForPages(est[c]) > left THEN "refused" ELSE "fetch")
    /\ UNCHANGED <<month, lock, est, drawn, pages, free, ledger, blind, disturbed>>
    /\ UNCHANGED pool /\ UNCHANGED money

\* The crawl brings up to its limit of pages.  Over REST it may also answer with
\* an error, and be aborted or throw; over MCP each of these throws.
Fetch(c) ==
    /\ pc[c] = "fetch"
    /\ \/ \E n \in 0..LimitOf[c] : pages' = [pages EXCEPT ![c] = n] /\ Goto(c, "draw")
       \/ c \in RestCrawls /\ Goto(c, "notok") /\ UNCHANGED pages
       \/ Goto(c, Thrown(c)) /\ UNCHANGED pages
    /\ UNCHANGED <<month, lock, est, drawn, free, ledger, blind, disturbed>>
    /\ UNCHANGED pool /\ UNCHANGED money

-----------------------------------------------------------------------------
(* consumeFreeScrapes *)

\* Nothing is drawn for no pages; otherwise the month is taken from the clock.
BeginDraw(c) ==
    /\ pc[c] = "draw"
    /\ IF pages[c] = 0
       THEN Goto(c, "bill") /\ UNCHANGED drawn
       ELSE Goto(c, "lock") /\ drawn' = [drawn EXCEPT ![c].month = month]
    /\ UNCHANGED <<month, lock, est, pages, free, ledger, blind, disturbed>>
    /\ UNCHANGED pool /\ UNCHANGED money

\* Faulty variant: draws do not wait for each other.
LockNothing(c) ==
    /\ pc[c] = "lock"
    /\ Goto(c, "read")
    /\ UNCHANGED <<month, lock, est, drawn, pages, free, ledger, blind, disturbed>>
    /\ UNCHANGED pool /\ UNCHANGED money

Lock(c) ==
    /\ pc[c] = "lock"
    /\ lock = None
    /\ lock' = c
    /\ Goto(c, "read")
    /\ UNCHANGED <<month, est, drawn, pages, free, ledger, blind, disturbed>>
    /\ UNCHANGED pool /\ UNCHANGED money

ReadPool(c) ==
    /\ pc[c] = "read"
    /\ drawn' = [drawn EXCEPT ![c].used = used[drawn[c].month]]
    /\ Goto(c, "write")
    /\ UNCHANGED <<month, lock, est, pages, free, ledger, blind, disturbed>>
    /\ UNCHANGED pool /\ UNCHANGED money

Unlock(c) == lock' = IF lock = c THEN None ELSE lock

\* toConsume
Share(c) == Lesser(pages[c], AtLeastZero(Pool - drawn[c].used))

\* The upsert of the counter and its COMMIT.
Draw(c) ==
    /\ used' = [used EXCEPT ![drawn[c].month] = drawn[c].used + Share(c)]
    /\ taken' = [taken EXCEPT ![drawn[c].month] = @ + Share(c)]
    /\ Unlock(c)
    /\ Disturb(c)

WritePool(c) ==
    /\ pc[c] = "write"
    /\ Draw(c)
    /\ free' = [free EXCEPT ![c] = Share(c)]
    /\ Goto(c, "bill")
    /\ UNCHANGED <<month, left, est, drawn, pages, pre, paid, ledger, waived,
                   over, blind>>

\* Faulty variant: a transaction that fails leaves its lock behind.
FailKeepingLock(c) ==
    /\ pc[c] \in {"read", "write"}
    /\ Goto(c, IF c \in McpCrawls THEN "bill" ELSE "catch")
    /\ blind' = blind \cup ({c} \cap McpCrawls)
    /\ UNCHANGED <<month, used, taken, lock, disturbed, left, est, drawn, pages,
                   free, pre, paid, ledger, waived, over>>

\* A statement that does not wait throws and the transaction rolls back, or only
\* the answer of its COMMIT is lost.  Over MCP the crawl goes on with no free pages at all.
DrawFails(c) ==
    /\ pc[c] \in {"read", "write"} \/ (pc[c] = "lock" /\ lock = None)
    /\ \/ Unlock(c) /\ UNCHANGED <<used, taken, disturbed>>
       \/ pc[c] = "write" /\ Draw(c)
    /\ Goto(c, IF c \in McpCrawls THEN "bill" ELSE "catch")
    /\ blind' = blind \cup ({c} \cap McpCrawls)
    /\ UNCHANGED <<month, left, est, drawn, pages, free, pre, paid, ledger,
                   waived, over>>

-----------------------------------------------------------------------------
(* After the crawl *)

\* poolDraw.unfunded
Unfunded(c) == pages[c] - free[c]

\* REST: what is due is collected, refused, or the charge throws.
Bill(c) ==
    LET due == IF pre[c] THEN 0 ELSE Unfunded(c)
    IN  /\ pc[c] = "bill" /\ c \in RestCrawls
        /\ \/ due = 0 /\ Goto(c, "answered") /\ UNCHANGED <<paid, waived>>
           \/ due > 0 /\ Charged(c, due) /\ Goto(c, "answered")
           \/ due > 0 /\ NotCharged(c, "catch")
        /\ UNCHANGED <<month, lock, left, est, drawn, pages, free, pre, ledger, over,
                       blind, disturbed>>
        /\ UNCHANGED pool

\* MCP: the pages that the pool did not pay for are captured; nobody collects
\* what exceeds the plan.  A capture that throws has taken nothing.
Capture(c) ==
    LET need == CreditsForPages(Unfunded(c))
    IN  /\ pc[c] = "bill" /\ c \in McpCrawls
        /\ \/ /\ paid' = [paid EXCEPT ![c] = Unfunded(c)]
              /\ left' = AtLeastZero(left - need)
              /\ over' = [over EXCEPT ![c] = AtLeastZero(need - left)]
              /\ Disturb(c)
              /\ Goto(c, "answered")
           \/ Goto(c, "failed") /\ UNCHANGED <<paid, left, over, disturbed>>
        /\ UNCHANGED <<month, lock, est, drawn, pages, free, pre, ledger, waived, blind>>
        /\ UNCHANGED pool

\* Faulty variant: only the catch records what is owed.
ForgetAtNotOk(c) ==
    /\ pc[c] \in {"notok", "catch"}
    /\ owed' = [owed EXCEPT ![c] = IF pre[c] /\ pc[c] = "catch" THEN @ + 1 ELSE @]
    /\ Goto(c, "failed")
    /\ UNCHANGED <<month, lock, est, drawn, pages, free, blind, dropped, disturbed>>
    /\ UNCHANGED pool /\ UNCHANGED money

\* REST: the estimate of a failed crawl that paid in advance is recorded as owed,
\* after an error of Firecrawl or in the catch.  An INSERT that throws after the
\* error leads into the catch, which records it again; its answer may be lost.
Compensate(c) ==
    /\ pc[c] \in {"notok", "catch"}
    /\ \/ /\ owed' = [owed EXCEPT ![c] = IF pre[c] THEN @ + 1 ELSE @]
          /\ UNCHANGED dropped
          /\ Goto(c, "failed")
       \/ /\ pre[c]
          /\ dropped' = dropped \cup {c}
          /\ \E lost \in {0, 1} : owed' = [owed EXCEPT ![c] = @ + lost]
          /\ Goto(c, IF pc[c] = "notok" THEN "catch" ELSE "failed")
    /\ UNCHANGED <<month, lock, est, drawn, pages, free, blind, disturbed>>
    /\ UNCHANGED pool /\ UNCHANGED money

NextMonth ==
    /\ month < LastMonth
    /\ month' = month + 1
    /\ left' = Allowance
    /\ Disturb(None)
    /\ UNCHANGED <<used, lock, pc, est, drawn, pages, free, pre, paid, ledger, waived,
                   over, taken, blind>>

-----------------------------------------------------------------------------

Step(c) ==
    \/ Estimate(c) \/ PreCharge(c) \/ CheckKey(c) \/ Authorize(c) \/ Fetch(c)
    \/ BeginDraw(c) \/ Lock(c) \/ ReadPool(c) \/ WritePool(c) \/ DrawFails(c)
    \/ Bill(c) \/ Capture(c) \/ Compensate(c)

Next == (\E c \in Crawls : Step(c)) \/ NextMonth

Spec == Init /\ [][Next]_vars

\* Every await of a crawl settles: the fetch is aborted after its timeout.  The
\* wait for a lock that somebody else holds only ends when it is given.
FairSpec == Spec /\ \A c \in Crawls : WF_vars(Step(c))

-----------------------------------------------------------------------------
(* Properties *)

\* "... a TOCTOU race letting concurrent same-account requests each read a stale
\* counter and over-consume the free pool" does not happen: however draws
\* interleave and fail, the counter of a month is the pages that were drawn in
\* it, and they are never more than the pool.
PoolIsNotOverdrawn ==
    \A m \in Months : used[m] = taken[m] /\ taken[m] <= Pool

\* What is paid in advance and what the pool gives cover the pages that are
\* delivered, unless other crawls or a new month came between the estimate and
\* the draw.
PreChargeCovers ==
    \A c \in RestCrawls :
        pc[c] = "answered" /\ pre[c] /\ c \notin disturbed \cup waived =>
            paid[c] + free[c] >= pages[c]

\* A crawl that paid in advance and failed is owed its money, once, as long as
\* the ledger takes the entry, and nobody else is ever owed anything.
FailedPreChargeIsOwed ==
    /\ \A c \in Crawls \ dropped : pc[c] = "failed" => owed[c] = IF pre[c] THEN 1 ELSE 0
    /\ \A c \in Crawls : owed[c] > 0 => pre[c] /\ pc[c] \in {"catch", "failed"}

\* An authorized crawl over MCP does not exceed the plan at its capture, unless
\* something else moved the account since, or its draw threw.
CapturedWithinPlan ==
    \A c \in McpCrawls : c \notin disturbed \cup blind => over[c] = 0

\* Every crawl that has begun ends: in particular no draw waits for ever.
CrawlEnds == \A c \in Crawls : pc[c] # "idle" ~> pc[c] \in Done

=============================================================================
