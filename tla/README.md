# A TLA+ model of the AXIS metered-call platform

AXIS serves some two hundred paid tools over MCP (`POST /mcp`, `tools/call`) and
REST. What makes it more than a set of functions is the money around each call:
an Idempotency-Key is claimed, plan credits are previewed, an overage may be
collected in cash on one of two rails, the tool runs, credits are captured, a
result is stored for replays, and a call that paid and then failed is made whole
from a ledger that later calls sweep. Around the calls, webhooks of two payment
providers decide which plan an account has, which credits it owns, and what
becomes of a disputed charge. All of it is asynchronous TypeScript on one event
loop per process, over PostgreSQL rows that several processes share, with few
transactions. Every `await` is a place where another request runs.

The modules here model that core. They are translated from the code under
`src/`; where the code and its own comments disagree, the model follows the code
and section 4 says how to see the disagreement.

Paths are short: `snapshots/` is `src/packages/snapshots/src/` and `api/` is
`src/apps/api/src/`.

## 1. Inventory

### Modelled

| Component | State | Operations | Interacts with | Hard behaviour | Correct when |
|---|---|---|---|---|---|
| Idempotency claims: `snapshots/idempotency-store.ts`, `gateIdempotency` etc. in `api/mcp-runtime.ts` | rows of `idempotency_keys` (hash, status, response, created_at); a WeakMap of the requests that hold a claim | lookup, claim (upsert that reclaims stale pending rows), complete, release, prune | the gate claims, dispatch resolves or releases | retries at any moment; a clock read before the INSERT that uses it; a claim taken over while its holder works; restarts | one worker at a time; replays match the arguments; one charge per key and TTL; nobody leaves the key stuck |
| Compensation ledger and compensator: `snapshots/compensation-store.ts`, `api/compensator.ts` | rows of `compensation_ledger` | record, list a page, claim, grant, revert, resolve by an operator | recorded by the gate, by dispatch's catch and by the REST handlers; swept by every answered call; grants go to the usage counter | two sweeps over the same page; a grant that throws; a commit that is not acknowledged; a restart between claim and grant | at most one settlement per entry; nothing is lost silently; everything is settled in the end |
| Plan-credit metering: `snapshots/usage-credit-metering.ts` | `usage_credit_monthly`, `usage_credit_ledger` | preview, consume, grant | preview in the gate and in dispatch, consume on success (MCP) or first (REST), grant from the compensator | gather, then wait for an advisory lock, then read and write; plan, month and trial change in between | no lost update; never above the allowance; undisturbed calls pay exactly their overage; failed calls nothing |
| REST cashier: `chargeWithDiscounts`, the program handlers and `compensateIfChargedBeforeFailure` in `api/handlers.ts` (partly) | the price that was charged, on the request | debit, collect the overage, work, owe | consumes plan credits, pays through the cashier, records owed entries | debits before it knows whether the overage is paid | work only when the overage is paid; a failure is owed in full |
| MCP gate and dispatch: `settleMcpCallInband`, `dispatch` in `api/mcp-server.ts`; `authorizeAmount`, `captureMcpToolCredits` in `api/mcp-runtime.ts` (partly) | a WeakMap of requests settled in band | claim, preview, collect, authorize, work, capture, resolve, summarise, catch | all of the above | two half-failures that look alike; code before and after the `try` | who pays is served or owed; a key is charged once; claims end |
| Cash settlement: `api/cashier.ts`, `debitPaidWallet` in `api/paid-client.ts`, `chargeMpp` in `api/mpp.ts` (partly) | none of its own; external wallet and rail | free call, wallet debit, mppx, bookkeeping | called by the gate, records ambiguous debits | refusal, definite rejection and "may have landed" are three different failures | never both rails for one request |
| Referral rewards: `snapshots/referral-store.ts` (partly) | `referral_credits`, `referral_conversions` | count a paid call, grant and consume the free call, convert, reward, reset by calendar month | counted by the cashier's bookkeeping; free call consumed by the cashier | no transaction at all; reset left to the next read | one free call, earned; one reward per referee; no reward of an old month after a reset |
| Persistence credits and packs: `snapshots/persistence-metering.ts`, `snapshots/credit-pack-store.ts`, `api/credit-pack-handlers.ts` | `persistence_credit_ledger`, `credit_pack_purchases` | debit, grant, monthly grant of the suite tier, top-up request, fulfilment of a paid pack | the PAI'D webhook fulfils packs | two locks (row, account); redelivery side by side; a month taken before the wait for the lock | the balance adds up and is never overdrawn; a pack and a month are granted once |
| Stripe webhooks: `api/stripe.ts`, `snapshots/stripe-store.ts` (partly) | `stripe_subscriptions`, then the account | checkout, subscription events, failed invoices | write tier, programs, audit row and plan of the account | no transaction; reordered, replayed and half-done deliveries, told apart by a high-water mark | the row never goes back; the account follows the row |
| PAI'D plan webhooks: `api/paid-handlers.ts`, `snapshots/subscription-purchase-store.ts` (partly) | `subscription_purchases`, `payment_receipts`, then the account | subscribe, checkout, subscription and cancellation events | tier by compare-and-set, then programs, audit row, plan | a payment before sign-up; deliveries side by side; bookkeeping that is best effort | who pays is let in; an unbroken audit trail |
| Disputes: `api/disputes.ts`, `api/dispute-state-machine.ts`, `snapshots/dispute-store.ts` | `disputes`, `dispute_transitions` | created, updated, closed, assemble_representment | Stripe's webhook handler dispatches to it; two accounts may claim | whole records written over whatever the row has become | moves along the graph; ends where Stripe decided; no claim erased; audited |
| Free scrape pool and crawls: `snapshots/free-scrape-pool-store.ts`, `handleFirecrawlCrawl` in `api/handlers.ts`, `runWebResearchCrawl` in `api/mcp-tool-impls.ts`, `authorizeMcpToolCreditsForAmount` | `account_free_scrape_pool` per month | estimate, pay in advance or afterwards, authorize, crawl, draw, capture, owe | consumes plan credits, pays through the cashier, records owed entries | a price from a pool that others draw; a draw that throws; a challenge after the draw | the pool is not overdrawn; a capture stays within the plan; a paid failure is owed |
| Scrapes and their cache: `snapshots/scrape-cache-store.ts`, `handleFirecrawlScrape`, `runWebResearch` (partly) | `scrape_cache`, shared by all accounts | look, pay, fetch, put | as for crawls; the in-band gate pays first | the payment comes after the fetch, the cache after the payment | nothing unpaid is served from the cache, nothing old either |
| Accounts, identities and keys: `snapshots/oauth-store.ts`, `snapshots/billing-store.ts`, `api/oauth.ts`, `api/billing.ts` (partly) | `accounts`, `api_keys`, the one-time codes in memory | sign in, sign up, change the profile, make a key, delete | every other component takes its account from a key | find, then create or link, with unique indexes and no transaction | one person has one account and gets into it; a deletion stands |
| Tiers: `updateAccountTier`, `updateAccountTierIfCurrent`, `grantTierPrograms`, `updateAccountPaidPlanId`, `logTierChange` (partly) | `accounts.tier`, `accounts.paid_plan_id`, `program_entitlements`, `tier_changes` | one statement each | called by both plan webhooks | several statements that belong together | see the webhooks |
| PostgreSQL access: `snapshots/pg.ts` (partly) | advisory locks, row locks | BEGIN, COMMIT, ROLLBACK, unique keys, ON CONFLICT | everything above | a COMMIT whose answer is lost | locks are freed |

### Not modelled

| Component | Why |
|---|---|
| Outbound webhooks, `api/webhooks.ts` | registration and listing are single statements; delivery and retry (`dispatchWebhookEvent`, `processRetryQueue`) have no caller outside of the tests |
| Watch queue and pollers, `snapshots/watch-queue.ts`, `api/watch-dispatcher.ts` | claims, retries and redelivery are done by pg-boss, a library; the code here is a loop over a batch |
| Rate limiter, `api/rate-limiter.ts` | in-memory windows read and written without an `await` in between, so nothing interleaves |
| OAuth server for other clients, `api/oauth-server.ts` | a demonstration: codes are neither stored nor verified, so there is no protocol state |
| Inbound GitHub, Sentry and drift webhooks | enqueue watch jobs, deduplicated by delivery id |
| E-mail, funnel, RevOps | marketing state with single-statement updates |
| Snapshots, versions, projects, memory, search | storage of uploads and results, mostly single inserts |
| Tools, generators, parsers, CLI, web, SDK | pure computation and clients; one step with two outcomes where a model calls them |
| HTTP server and router | its timeout answers 408 and leaves the handler running: the effect (a call of any length) is in IdempotentCalls; draining is covered by restarts at any step |
| The pg pool and the migrations | the pool's limit needs the number of connections of the whole process |

Most of the repository's lines are in the last groups: generators of text, tool
bodies, clients, OpenAPI documents. They keep no state that two requests share.

Of the partly modelled components the missing parts are: the bodies of 402
answers; `initialize`, read-only methods, planned capabilities and anonymous calls, which
move no money; the read and shadow modes of the wallet, which only log; referral
codes, and `applyReferralDiscount`, which has no caller; the cancellation of a
Stripe subscription by its owner and accounts with several subscriptions; the
proxied calls of PAI'D's portal; the OAuth state row, sessions, the revocation of
keys, seats and the account's own change of tier; the statistics of the scrape
cache and `cleanupExpiredScrapes`, which has no caller; of the tools everything but
the two that scrape and crawl.

`PROJECT.json` lists the same components with their sources, and the hazards of
the code at their lines, each with the properties that watch it.

## 2. The modules

```
IdempotentKey     <-- implemented by --  IdempotentCalls
MakeWhole         <-- implemented by --  Compensation
DisputeLifecycle  <-- implemented by --  Disputes        (both over DisputeStates)
CreditMath        <-- extended by    --  UsageCredits    (MCP and REST calls, grants)
PaidCalls                      (gate, rails, dispatch and what is owed)
Referral                       (the row behind PaidCalls' free call)
PersistenceCredits             (debits, grants, packs and their webhook)
StripeWebhooks, PaidWebhooks   (the two ways to a tier)
CreditMath        <-- extended by    --  CrawlBilling    (free pages and priced crawls)
ScrapeCache                    (single pages and the cache that accounts share)
Accounts                       (identities, accounts and keys)
```

`MC<M>` gives module `M` its small instances for TLC, `<M>Proofs` holds its
theorems. Four components are used through a small module that gives their names to
the outside, so that their runs and their theorems speak of the same definitions and a
proof module can extend it beside another component. It instantiates the component,
renames the variables that would clash, assumes its `Parameters` and names its
specification and properties:

| Component | Outer names | Specification | Theorems, in the second half of |
|---|---|---|---|
| ScrapeCache | Scrapes | `ScrapeSpec` | CompensationProofs |
| CrawlBilling | Crawls | `CrawlSpec` | UsageCreditsProofs |
| PaidWebhooks | PlanSales | `SaleSpec` | IdempotentCallsProofs |
| Accounts | SignIns | `LoginSpec` | ReferralProofs |

The two halves of such a proof module share the prover's libraries and, for crawls, the
arithmetic of credits; neither uses the other's state.
Every module except the abstract ones and the two that hold only
operators has one component's state as VARIABLES and one action per statement or
handler step: a step runs from one `await` to the next.

Operators whose comment starts with *Faulty variant* are no part of any
specification. Each is what a plausible mistake would make of the definition that
follows it, and putting it in that definition's place breaks the property named
with it in `PROJECT.json`.

**IdempotentCalls** is one account and one key (rows of different keys never
meet). `Replay`, `Miss`, `ClaimWon` and `ClaimLost` are `gateIdempotency`:
`Miss` ends the lookup and keeps the clock value that the upsert will use, so
that a claim can be older than its INSERT. `Claimable` is the ON CONFLICT clause.
Calls may take any time: what a takeover past STALE_CLAIM_MS takes from a request at
work is remembered by `Displace`.
`Complete` and `Release` are the UPDATE and the DELETE, which look at the status
and not at who wrote the row; `CompleteFails`, `Summarise` and `ReleaseFails`
are the awaits of dispatch's `try` and `catch` that may throw, with or without
their statement's effect. `UnknownTool` is the `default:` branch that returns
from inside the `try`. `Crash` ends every handler and keeps the rows.
**IdempotentKey** is the promise: one worker, one result, and work again only
after the result was forgotten, until `Break`, when a stale claim is taken from a request
at work. The mapping takes the worker to be the live
request whose claim is on the row, and the result to be what a completed row
stores.

**Compensation** has any number of sweeps (`ListOwed`, then per entry
`ClaimWon`/`ClaimMissed`/`ClaimThrows`, `Grant`/`GrantThrows`,
`Revert`/`RevertThrows`), an operator (`Resolve`), the recorder (`Record`) and
restarts. Each claim, grant and revert is its own await. The list is taken once
per sweep and may be stale when the loop reaches an entry. **MakeWhole** says
that each obligation is settled once and stays settled that way; the mapping
counts an entry as granted when its grant took effect, and a claim without a
grant still as owed.

**CreditMath** is `splitFromUsed` and the conversions in exact integers. The code
multiplies by the double 0.18 and rounds up; for all amounts below 200 000
the integers are the same. **UsageCredits** runs calls and grants against one
account whose plan, month and trial change under them. An MCP call previews in
the gate, collects, previews again, works and captures; a REST call captures
first, collects what its ledger row says, works, and on a failure is owed its
price (`Collect`, `PaidWork`, `Compensate`). A preview is two steps, because month and plan
are read in one await and counter and trial in the next; a capture gathers, locks,
reads, and writes with its COMMIT.

**PaidCalls** follows each request from `settleMcpCallInband` to its answer. A call
costs one unit: included while the plan has room, an overage afterwards. The claim, the
capture and the sweep, whose interleavings are the other modules' subject, are one step
each. The wallet service is external (`Debit`: money moves once per debit key).
`MppxRefuses` and `MppxThrows` are the two ways to the null of `chargeMpp`: no money has
moved, or it has and the throw came after. `LateFault` is a throw inside dispatch's
`try` after the capture began; `Escape` is a throw that no `try` of dispatch encloses.
`BookPaidCall` is the best-effort bookkeeping, as a whole or not at all.

**Referral** has one step per SELECT, INSERT and UPDATE of the referral row, and
requests may overlap and die between any two.

**DisputeStates** holds the graph of `dispute-state-machine.ts` (`Transitions`), what is
reachable in it (`Later`) and the next hop of a shortest path. **Disputes** has one step
per statement of a handler: the read at its head (five cases), `Insert`, `Refresh` and
`Reread` of an update, `Claim` of the tool, and the walk of `advanceDisputeState`, where
`LogHop` writes one transition and `Arrive` the record. Every write is `upsertDispute`
of a whole record made from what was read, and nothing checks that the row is still the
one that was read. **DisputeLifecycle** moves a state along the graph, any number of
edges at a time.

**StripeWebhooks** is one subscription and its account. An event's `id` is the order in
which Stripe made it and `created` its second, which several may share; deliveries come
in any order and again. `ReadStale`/`ReadFresh` are the guard on
`last_event_created_at`, which knows the second only, `ReadUnknown` is the answer to an
event that finds no row and names no account (`named` says whether the subscription's
metadata do), `Upsert` the row, and `SyncRead`, `Move`, `GrantPrograms`, `LogTierChange`
and `SetPlan` are `syncTierFromStripeSubscription`. A checkout is not numbered, and
makes the row active whatever it was: it reads the row, asks Stripe for the price
(`FetchPrice`, with the fallbacks after three attempts) and keeps the number it has
read.

**PaidWebhooks** is one account that may sign up after it has paid. `MoveTier` and
`MoveLost` are the compare-and-set, `Mark` the transaction that settles a pending
purchase, `Receipt` the booking of revenue; the last two are best effort
(`BookkeepingFails`).

**PersistenceCredits** gives every writer of the ledger the same transaction:
`Lock`, then `Read` of the SUM or `Refuse`, then `Write` with its COMMIT;
`WriteUnacked` is the COMMIT whose answer is lost. A webhook takes the
purchase's row lock first (`Row`).

**CrawlBilling** is one account whose crawls come through both doors. Over REST
a crawl estimates (`Estimate`), pays in advance when its quota is exceeded
(`PreCharge`), crawls, draws from the pool (`BeginDraw` to `WritePool`, one
statement each, under advisory lock 3), and otherwise pays for the rest (`Bill`). Over
MCP it estimates and authorizes (`Authorize`), crawls, draws and captures; a draw
that throws there is answered with the whole crawl as unfunded (`DrawFails`). The
account is one of the free tier over REST, which pays in cash: `Charged` says what a
charge may do (money, a free call, or a refusal). `Keys` says whether the server
that gets the call has its Firecrawl key, as two servers may differ.

**ScrapeCache** has scrapes by callers with accounts of their own, which meet only in
the cache. `Gate` is the in-band gate of MCP, `Look` the lookup with its clock
(`LiveRow`), `Bill` the payment after the fetch, `Put` the upsert, and `Reply` the awaits
of dispatch behind the tool, which may still throw. `Owe` is what a failed scrape that
has paid is owed: its INSERT is recorded (`Record`), or throws with or without its row
(`LoseRecord`), and then over REST, for an answer of Firecrawl that is not ok, the catch
inserts another. A row that is stored late may overwrite a newer one,
since `Put` stamps the time of the store.

**Accounts** has browsers that sign in (`Callback`, `FindById`, `FindByEmail`,
`Create`, `Link`, `MintKey`, `Redeem`), sign-ups that share those steps, and calls with
a key: `ReadProfile`, `FindOwner` and `WriteProfile` of a change, `MintKey`,
and `Delete`, which is one transaction. GitHub and Google are the same code twice
and differ by `Providers`. The unique indexes are the guards of `Create`, `Link` and
`WriteProfile` whose failure throws. `Fault` is a throw, a code that expires, or a
process that dies.

What the models abstract: hashes, responses, tool names and entry ids are model
values; amounts in PaidCalls are one unit; the referral modifier and the discount
are part of the credits a call needs; of a dispute's record the state, the account
and whether a representment is stored are kept; of a subscription the status, the
price and the second of its event. The wording of answers and logs is left out.

## 3. What the runs show

Runs have `CHECK_DEADLOCK FALSE` where every request ends and so the system
really stops. `compensation` and `disputes` keep the deadlock check: an account
goes on calling.

| Run | Instance | Shows |
|---|---|---|
| claims | 3 attempts of one call and a request that reuses the key for an unknown tool; the statements of one attempt may fail; stale after 1 tick, TTL 2, clock to 3; calls of any length; one restart; pruning | `OneWorker`, `ChargedOnce` and `KeepsPromise` (implements IdempotentKey) until a stale claim is taken from a request at work, `EndedLeavesNoClaim` for those whose statements do not fail, `StoredResultStands` |
| compensation | 3 entries, 2 sweeps, a page of 2, at most 2 faults or restarts, an operator | `SettledOnce` (implements MakeWhole), and `EventuallySettled` although the page is shorter than the list |
| credits_two | a REST call of 45 credits (8 cents), an MCP call of 30 with a payment credential, a grant of 2 cents, plans of 35 and 90 credits, 2 months, with or without trial | `CounterIsLedger`, `WithinAllowance`, `OverageIsPaid`, `FailedRestIsMadeWhole` |
| paid | 3 requests under one key, of which one may throw after the money has moved, and one under a key of its own that may throw outside of dispatch's `try`; wallet enforced with mppx behind it, which may throw before or after its charge, 1 included call, free call after 2 paid ones | `DeliveredOrOwed`, `ChargedOncePerKey`, `OneRail`; `ClaimSettles`: a claimed key is completed or becomes free |
| referral_rows | 3 payments, 2 tries of the free call, 3 conversions of 2 referees, 2 readers, cap 1, 2 months, deaths, all of which may overlap | `OneFreeCall`, `EarnedIsThisMonths` |
| disputes | 2 requests at a time, 1 account, an update to under_review, outcomes won and charge_refunded, 1 failure | `AuditedState`, `SettledAsDecided`, `KeepsLifecycle` (implements DisputeLifecycle); `ClosureArrives` |
| stripe_webhooks | 2 deliveries at a time, a checkout and 2 subscription events (active, past_due, deleted) of one second or two, with or without the account in their metadata, failed invoices, 1 failure or replay; the plan's price is "growth" and the environment's "starter" | `AckedIsStored`, `AccountFollowsRow`; `RowCatchesUp` |
| persistence | 3 requests (cost 2, monthly grant 1), 2 deliveries of one pack of 3, 2 months, 1 failure, lost answer or replay | `LedgerIsSound`, `PackGrantedOnce`, `SuiteOncePerMonth`; `PaidIsGranted` |
| paid_webhooks | 1 session of the growth plan, opened here or directly, 2 deliveries at a time, prices not mapped, 2 failures or replays | `MovesAreWhole`; `PaymentArrives` |
| crawls | a crawl of 3 pages over REST and one of 2 over MCP, a pool of 2, 10 credits (a page takes 6), 2 months, servers with and without a key, statements that throw | `PoolIsNotOverdrawn`, `FailedPreChargeIsOwed`, `PreChargeCovers`, `CapturedWithinPlan`; `CrawlEnds` |
| scrapes | 2 scrapes over REST, 1 over MCP, 1 page, lifetime 1, clock to 2 | `HitIsRecent`, `FailedScrapeIsOwed` |
| accounts | 3 browsers (2 of a GitHub identity, 1 of the Google identity with its e-mail), a sign-up, a change of e-mail, a deletion, 3 ids, 1 fault | `NotSplit`, `DeletionStands`; `LetIn`: who keeps trying gets in |

Each run checks the properties that need its interleavings. Some that the modules
state beside them follow for every instance from a theorem (section 5) and are not
run again: `ReplayMatchesArgs`, `GrantedAtMostOnce`, `FailedCallNotDebited`,
`ReplayIsDelivered`, `RefereeCountsOnce`, `ClaimsStand` and the type invariants.

### Why the bounds are enough

Three attempts are one more than a race needs: one works, one takes over, one sees the
result; the fourth request, of an unknown tool, is the one that leaves its claim behind.
A fault of one attempt meets the others before, during and after it. With stale 1 and
TTL 2, a clock of 3 passes through fresh, stale, valid and expired. Two sweeps and three
entries with a page of two give both the stale list and the entry behind the page.
Credits of 45 and 30 against 35 and 90 make each call fit, overflow and straddle, before
and after the other, and the grant takes the counter below zero. Two paid calls before
the free call leave room for a failure before, at and after it. Two deliveries at a time
are what a lost update needs, and an event can come again behind each of them; two
numbered events are a newer and an older one, or two of one second, with a checkout that
has no number beside them. A pack of 3 and a cost of 2 leave a balance that covers one
debit and not two. An update to under_review gives the dispute a path of several hops,
and the two outcomes are the one that is reachable from everywhere and the one that is
not. Two crawls of five pages against a pool of two make each draw full, partial and
empty, and ten credits hold one page and not two. A lifetime of one tick and a clock of
two let a row expire while a scrape that has seen it is still under way. The browsers of
one identity and of one e-mail race each other and the sign-up. Three ids are what two
identities and a sign-up with one e-mail could be split over. The constants that stand
for numbers of the code (4 paid calls, cap 20, 60 s, 24 h) are smaller in the runs, and
the proofs hold for all of them. Symmetry is used in claims, over the two attempts whose
statements do not fail, in the referral run, over payments, tries and readers, and in
scrapes, over the two callers of REST, which ask for the same; the specifications do not
tell them apart, and these runs check no liveness. The run of the Stripe webhooks has a
constraint, which stops at states where a delivery has written behind the back of
another (`Within`): the three properties promise nothing from there on, and no step
leads back. Calls that make a key and changes of the name alone, which Accounts models,
are not in the run: the first is the end of a sign-in, the second a change of e-mail
without its second read.

### Fairness

Only the modules with a liveness property state fairness. `FairSpec` gives weak
fairness to each request, sweep, delivery or transaction as
a whole. This is what the event loop gives: an `await` settles, by an answer or by
a throw, and then the handler runs on. A request that never arrives, a clock that
stands still, an operator who does nothing, and a plan that never changes are all
allowed. Compensation also assumes that the account goes on calling, since only
calls sweep. Nobody is assumed to get an advisory lock while others queue for
it for ever: a draw in CrawlBilling and a commit of PersistenceCredits are reached
because each of their requests is made once.

In CrawlBilling the fetch, the draw and the charge of a crawl that has begun end
in an answer or a throw. In Accounts a browser also begins again: `LetIn` is
about people who keep trying, and the number of faults is bounded.

For the webhooks, Stripe and PAI'D deliver an event again until it is answered
2xx: strong fairness of the delivery of an unanswered event, since a free worker
is there again and again and not always. The number of failures is bounded, as
a provider gives up on a server that fails for ever. PaidWebhooks also assumes that
somebody who has paid signs up in the end; before that every delivery is answered
503.

### History variables

Some guarantees hold unless a particular thing has happened, and a history variable
says so in the exact place, instead of a constant that keeps it from happening.

- `displaced` (IdempotentCalls): requests at work whose claim was past STALE_CLAIM_MS when
  another took it over or it was pruned; `broken` is its image in IdempotentKey.
- `swallowed` (PaidCalls): requests whose charge landed before mppx threw.
- `raced` (Referral): payments that found no grant while one was on its way.
- `disturbed` (UsageCredits): calls during which another call, a grant, a plan
  change, a new month or the trial's end came between. `late`: calls in which
  something other than their work threw after the capture.
- `overlapped` (Disputes, StripeWebhooks): a request has written over a row that
  had changed since it read it. `dirty` marks the deliveries of StripeWebhooks to
  which this can happen.
- `torn` (StripeWebhooks, PaidWebhooks): a delivery died between the subscription
  and the account, or between the tier and its audit row.
- `restated`, `dropped` (StripeWebhooks): a checkout or a failed invoice has written over
  an event in the row; events that were answered without an account.
- `straddled` (PersistenceCredits): a month began during a monthly grant.
- `disturbed`, `blind`, `dropped` (CrawlBilling): crawls during which something else
  moved pool, plan or month, crawls whose draw threw, and crawls whose entry in the
  compensation ledger threw (the last also in ScrapeCache). `waived` (also in
  ScrapeCache): a charge was met by a free call.
- `caught`, `unlinked`, `moved` (Accounts): accounts deleted while a request worked
  on them, identities whose link was given to another, addresses that were given up.

## 4. Where the code and its words disagree

These came up while the properties were stated. Where an entry names a constant, a
history variable or an exception, the property is false without it, and TLC shows
the steps; the others are in the order of the actions. They are decisions that an
owner may want to take, the first ones above all.

- **A slow call loses its claim** (`displaced` in IdempotentCalls).
  `idempotency-store.ts:68` hands a pending row to the next caller after 60 s, whether or
  not its holder works; a code execution may take 600 s (`code-sandbox.ts:72`). Without
  `Undisturbed`, `OneWorker` fails, against "At most one concurrent caller per
  (account, key)" (`mcp-runtime.ts:425`), both calls are charged, and `ReplayMatchesArgs`
  fails too: the displaced worker completes the row of the one that took over, and its
  result is replayed for other arguments.
- **A charge that nobody knows of** (`swallowed` in PaidCalls). The catch of `chargeMpp`
  (`mpp.ts:229`) answers null for any throw of mppx, "treat MPP failure as 'not
  configured'", also for one after the charge has landed. The request is not marked as
  settled and goes on as one that has not paid: without room in the plan it is refused,
  nothing is owed, its claim is let go, and the retry under the same key is charged
  again. Without the exception `DeliveredOrOwed` and `ChargedOncePerKey` fail. The
  wallet's timeouts, by contrast, are recorded as owed. Scrapes, crawls and REST calls
  charge through the same function; their models take its null for a refusal.
- **A late checkout revives a canceled row** (`restated` in StripeWebhooks).
  `checkout.session.completed` writes "active" whatever the row says (`stripe.ts:341`),
  keeps its event number and syncs the tier, so that one that is redelivered after the
  cancellation takes the row and the account back; a failed invoice turns canceled into
  past_due (`stripe.ts:458`). `AckedIsStored` speaks of status and price only where
  neither has written over them.
- **Two events of one second**: `<=` against `last_event_created_at`, which is in seconds,
  acknowledges and drops a different event of the same second (`stripe.ts:393`), against
  "an exact replay of an already-applied event is also correctly a no-op"; which of the
  two is stored is a matter of delivery (`Alone` in `AckedIsStored`).
- **An event before the checkout** that names no account (`dropped`) is answered 200 and
  stored nowhere (`stripe.ts:386`), so that Stripe does not send it again.
- **A scrape's debt recorded twice or never** (`dropped` in ScrapeCache). The INSERT for an
  answer that is not ok stands in the `try` (`handlers.ts:4898`), and if its own answer is
  lost the `catch` inserts a second entry (`handlers.ts:4985`); an INSERT that throws in the
  `catch`, or over MCP there or in the release before it (`mcp-server.ts:593`), leaves none.
- **Credits of a failed answer**: over MCP a read for `_usage` that throws after the capture
  (`mcp-server.ts:570`) fails the call, whose captured credits stay captured; an entry is
  only made for cash settled in band.
- **A crawl whose draw throws** (without `blind` in `CapturedWithinPlan`) is captured in
  full (`mcp-tool-impls.ts:1505`), beyond the estimate it was authorized for, against
  "matching the pre-crawl estimate".
- **A challenged crawl loses its free pages.** The pool is drawn before the charge
  (`handlers.ts:5164`), and a first call without a credential is challenged there; its
  retry draws again. `PoolIsNotOverdrawn` counts pages drawn, which are not always
  pages delivered.
- **A keyless server keeps the money**: the check of the key (`handlers.ts:5094`) comes
  after the payment in advance and records nothing as owed. `FailedPreChargeIsOwed`
  speaks of crawls that failed and not of those that ended "unavailable". The scrape has
  the same order.
- **A waived price is owed** (`waived`): `preCharged` does not tell money from a free call
  or the trial (`handlers.ts:5089`), so that `FailedPreChargeIsOwed` asks for `pre` and
  not for money.
- **A cache hit that is paid for**: the in-band gate collects before
  `mcp-tool-impls.ts:1398` looks into the cache, against "for $0"
  (`scrape-cache-store.ts:5`); the `Gate` of ScrapeCache comes before its `Look`.
- **An account without its link** (an identity whose `EmailOf` is None). A first
  sign-in without an e-mail that dies before `linkGitHubId` (`oauth-store.ts:183`) leaves
  an account with an address made from the identity. It is never looked up by that
  address, so every later sign-in collides with it and `LetIn` fails.
- **A deleted account that lets in**: the tombstone keeps its identities, and
  `upsertAccountByGitHub` matches by them first, against "can no longer authenticate"
  (`billing-store.ts:137`). `DeletionStands` excepts accounts that have a link.
- **A change of the name that changes the e-mail** (`NewEmailOf` None): the e-mail that was
  read is written back (`billing-store.ts:103`), over a change that came in between and
  over the scrub of a deletion; the second is among what `caught` excepts.
- **A key for a deleted account.** A request that has found the account before the
  deletion makes its key after it (without `caught` in `DeletionStands`).
- **A draw whose ledger entry fails** (`dropped`). The INSERT of the compensation in the
  branch of a failed crawl may throw into the `catch`, which records it again; after an
  INSERT whose answer was lost the call is owed twice.
- **The pool is for crawls only**: the header of `free-scrape-pool-store.ts` speaks of
  scrapes, which never draw from it.
- **A completion that throws** (`DbFaults` in IdempotentCalls). The
  claim is released after the capture, and the retry runs and is charged again.
- **An unknown tool** (`UnknownArgs`). The early return of
  `mcp-server.ts:562` keeps the key claimed for 60 s.
- **An expired result.** `lookupIdempotency` treats it as absent, but the upsert
  never claims a completed row, so the key answers "already being processed" until
  it is pruned.
- **A COMMIT whose answer is lost** (`LostAcks = TRUE` in Compensation). The grant
  took effect, the claim is reverted, and the next sweep grants again, against
  "never a double grant".
- **Two calls authorized before either captures** (without `disturbed`) may
  overdraw the plan with nobody paying; a grant, a bigger plan or a new month
  between gate and capture makes plan credits pay for what cash has paid.
- **A refused REST call** keeps its debit, and its retry is debited again
  (`handlers.ts:94`); FailedRestIsMadeWhole speaks of failed calls only. Conversely
  a REST call that fails during the free trial is owed its full price though
  nothing was charged.
- **A failed free call** is owed plan credits although no cash was paid for it
  (`mcp-server.ts:596`); `OwedHasCause` names it as one of the causes.
- **A `_usage` read that throws** (`DbFaults` in PaidCalls) makes a
  delivered call an owed one, and the entry's own INSERT may fail: these requests are
  excepted from `DeliveredOrOwed` and `ChargedOncePerKey`. `GateFaults` are the requests in
  which something outside dispatch's `try` throws: their claim stays pending, and
  their cash may have no entry.
- **A retry under a debited key** is settled without new money, and if it fails it
  is owed again.
- **Overlapping payments** (`raced` in Referral) give the free call again for each payment
  that read the row (`referral-store.ts:191`) before the first grant was written,
  against "Granted exactly once per account".
- **A reward without a reset.** `recordReferralConversion` rewards a row of an
  earlier month without resetting it, and the reset at the next read erases
  rewards of the new month; `EarnedIsThisMonths` bounds the row from above only.
- **A stale dispute write** leaves a terminal state (without `overlapped`):
  `handleDisputeUpdated` writes the state it has read (`disputes.ts:209`), against the
  state machine's terminal states.
- **A refund after the evidence is in** has no edge to "accepted", is logged as an
  illegal transition and answered 200: the exception in `SettledAsDecided`.
- **A Stripe delivery that dies between row and account** is stale when it comes
  again, so the tier never follows the row (without `torn`). Two deliveries that
  overlap may take the row back (without `overlapped`).
- **A plan on a free account.** The same-tier branch (`stripe.ts:195`) sets
  `paid_plan_id` on an account that stays free, against "Null for free accounts".
- **A compare-and-set that is lost** in PaidWebhooks is answered 200 and its plan
  id is set nevertheless; the move itself is gone. A delivery that dies between the
  tier and the programs is not repaired by the next, which finds the tier in place
  (without `torn`).
- **A subscription event whose price is not mapped** means tier "paid", and takes
  an account of the suite tier down (`Mapped = FALSE`).
- **A monthly grant across midnight** of the first is given twice (without
  `straddled`): the month looked up and the month of the row are two readings of
  the clock.

## 5. What is proved

TLAPS proves the following for every value of the constants that satisfies the
modules' named assumptions.

| Module | Theorem | Property | Under |
|---|---|---|---|
| IdempotentCallsProofs | TypeCorrect | TypeOK | |
| | AtMostOneWorker | OneWorker | |
| | ReplaysMatch | ReplayMatchesArgs | |
| | ValidResultStands | StoredResultStands | |
| | NobodyLeavesAClaim | EndedLeavesNoClaim | |
| | ImplementsIdempotentKey | KeepsPromise | |
| | NeverChargedTwice | ChargedOnce | |
| IdempotentCallsProofs, on PlanSales | SaleTypeCorrect | SaleTypeOK | |
| | MovesStayWhole | MovesAreWhole | |
| | SessionsBookedOnce | no session has two receipts | |
| CompensationProofs | TypeCorrect | TypeOK | |
| | CreditedEntriesGranted | CreditedIsGranted | |
| | NeverADoubleGrant | GrantedAtMostOnce | `~LostAcks` |
| | ImplementsMakeWhole | SettledOnce | `~LostAcks` |
| CompensationProofs, on Scrapes | ScrapeTypeCorrect | ScrapeTypeOK | |
| | HitsAreRecent | HitIsRecent | |
| | FailedScrapesAreOwed | FailedScrapeIsOwed | |
| UsageCreditsProofs | TypeCorrect | TypeOK | |
| | CounterMatchesLedger | CounterIsLedger | |
| | FailureIsFree | FailedCallNotDebited | |
| | FailedRestIsOwed | FailedRestIsMadeWhole | |
| | NeverAboveAllowance | WithinAllowance | |
| | OverageIsCollected | OverageIsPaid | |
| UsageCreditsProofs, on Crawls | CrawlTypeCorrect | CrawlTypeOK | |
| | PoolStaysWithin | PoolIsNotOverdrawn | |
| | AdvanceCoversPages | PreChargeCovers | |
| | FailedAdvanceIsOwed | FailedPreChargeIsOwed | |
| | CaptureStaysWithinPlan | CapturedWithinPlan | |
| PaidCallsProofs | TypeCorrect | TypeOK | |
| | NeverTwoRails | OneRail | |
| | ReplaysAreDelivered | ReplayIsDelivered | |
| | NothingOwedForNothing | OwedHasCause | |
| | ClaimsHaveOwners | NoOrphanClaim | |
| | NobodyPaysForNothing | DeliveredOrOwed | |
| | KeyIsChargedOnce | ChargedOncePerKey | |
| ReferralProofs | TypeCorrect | TypeOK | |
| | OneFreeCallUnlessRaced | OneFreeCall | |
| | FreeCallsAreEarned | FreeCallIsEarned | |
| | RefereesCountOnce | RefereeCountsOnce | |
| | EarnedIsOfTheMonth | EarnedIsThisMonths | |
| ReferralProofs, on SignIns | LoginTypeCorrect | LoginTypeOK | |
| | NobodyIsSplit | NotSplit | |
| | DeletionsStand | DeletionStands | |
| DisputesProofs | TypeCorrect | TypeOK | |
| | StateIsAudited | AuditedState | |
| | ClaimsAreKept | ClaimsStand | |
| | OwnerIsKept | OwnerStands | |
| | ImplementsLifecycle | KeepsLifecycle | |
| | SettledWhereDecided | SettledAsDecided | |
| StripeWebhooksProofs | TypeCorrect | TypeOK | |
| | AnsweredIsStored | AckedIsStored | |
| | QuietAccountFollows | AccountFollowsRow | |
| PersistenceCreditsProofs | TypeCorrect | TypeOK | |
| | LedgerStaysSound | LedgerIsSound | |
| | PacksAreGrantedOnce | PackGrantedOnce | |
| | MonthIsGrantedOnce | SuiteOncePerMonth | |

The argument of each module:

- *IdempotentCalls.* `OneWorker` is not inductive: nothing in it says that the
  pending row is the holder's. The strengthening says that, until a claim has been taken
  from a request at work, a holder's claim is on the row, as old as the holder's own
  clock reading. Who wins the claim beside a holder, or prunes its row, has found it past
  its window (`NoClaimBesideHolder`, `NoPruneBesideHolder`), and then the holder is in
  `displaced`. The refinement of IdempotentKey goes through action by action from the
  same invariant; a step that displaces somebody is `Break`. `ChargedOnce` needs to follow
  each charged run to its end: it is still completing, it is in the row, or its result
  has expired. `EndedLeavesNoClaim` needs only that a pending row has its claimant
  still at work.
- *Compensation.* The strengthening ties the sweeps to the ledger: no two sweeps
  hold one entry, and an entry that a sweep holds says credited and is not granted
  yet. With acknowledged commits, what is granted then says credited with nobody
  holding it, so no revert can make it owed again. The refinement of MakeWhole
  goes through action by action: `Record` is `Owe`, `Grant` and `Resolve` are
  `Settle`, everything else stutters.
- *UsageCredits.* The counter is read in one step and written in another, so the
  invariant is about the lock: whoever is between them holds it and has read the
  counter that still stands. For `OverageIsPaid` the inputs of an MCP call that nothing
  came between are those it would gather now, so each preview gives the same
  cents and the capture records them; a REST call collects what its own row
  says, which needs only that the row stands. `FailedRestIsMadeWhole` rests on
  `SplitIsExact` (what is included is within the allowance and the credits, and
  included plus overage is what the call needs), a lemma about CreditMath: no call is
  debited more than its price is worth.
- *PaidCalls.* Four invariants, one per concern: claims and their holders; the
  money a request has moved at each stage; what a replay implies; what stands
  behind an owed entry. The stage a request is in bounds what it can have paid,
  and the set of open requests under one key is at most the claim's holder.
- *Referral.* Every grant that is under way is counted beside the free calls left and
  used (`GrantsAreKnown`): the first payment that finds none is the one of the bound,
  each further one finds another in `Granting` and is `raced`, and whoever reads after
  the first write finds the grant. `GivenWhenEarned` says that before it there is no free
  call at all, and that the paid calls come first.
- *Disputes.* Each stage of a request says how the record it holds relates to the
  row: until somebody has written over another, the row is reachable in the graph
  from what is held, and the walk has gone from the held state along logged hops.
  The graph's facts (reachability is transitive, terminal states have no
  successor, `NextHop` is an edge that leads on) are lemmas over the eight states.
- *StripeWebhooks.* A delivery that is not `dirty` still knows the row: a subscription
  event about to be stored is of a later second, a checkout holds the row's own, so that
  it only grows. The row is always of some event of its second and says what that event
  says unless it was restated (`RowHolds`), so that an event which is alone in its
  second is the one in the row. For `AccountFollowsRow`, at most one delivery that is
  not dirty has the account to bring in line (its owner), and whatever is out of line is
  the owner's; a dirty one that has read the account is stuck: it can only die half way
  or write behind another's back, and both are remembered.
- *PersistenceCredits.* Whoever is between the read and the write holds the
  account's lock and has read the SUM that still stands, so the two are one step; the
  row lock does the same for the status of a purchase. For the month, a grant
  that has looked and found none keeps the lock until its row is there, and
  without `straddled` the month of the row is the one it looked up.
- *Scrapes* (`ScrapeInv`). The stage of a scrape says whether it can have met its price:
  never before it is settled or billed, always once its page is put. So a row in the
  cache is by a scrape that has met its price and is past it (`PaidAndPast`), whether
  its answer arrives or not, and who is served from it looked while the row lived. The
  entries of a scrape are exact until a record of it fails, and after that bounded by
  the INSERTs that its stage leaves (`EntriesFit`). `HitIsRecent` alone says nothing of
  the row that a scrape has seen and not yet used.
- *Crawls* (`CrawlInv`). A draw that has read holds the pool's lock and has read what
  still stands, as in PersistenceCredits, so the counter is what the draws took. For the
  prices, two invariants hold of each crawl until it is in the history `crossed`
  (`disturbed` in CrawlBilling): its estimate and what is left of the pool make up its
  limit until it draws, and its estimate and its free pages make up what was crawled
  afterwards; and the plan still has the credits it was authorized for. Credits grow
  with pages (`CrawlCreditsGrow`, from the rounding of CreditMath), so what is captured
  is no more. Every step of one crawl that could break these for another puts the other
  into the history.
- *Plan sales* (`SaleInv`). `MovesAreWhole` speaks of quiet states only. The inductive
  form (`MovesBalance`) counts, for every tier, the moves logged from it and the
  deliveries that have left it and not yet logged so, against those to it: a
  compare-and-set that succeeds adds its delivery to both counts, the INSERT of the
  audit row takes it out of them and into the log, and a delivery that dies between the
  two is `torn`. It needs the deliveries that are on the way to the log to be finitely
  many, which is part of the invariant since it does not follow from any bound on
  `Workers`. That no session is booked twice rests on the row lock: one delivery alone
  finds the purchase pending.
- *Sign-ins* (`LoginInv`). The two unique indexes (`OneOwner`) are invariants of the
  rows; that the tombstone of an account is nobody else's address is the third, since a
  change of the name may write a tombstone back. `NotSplit` then needs to know that an
  identity is linked to the account of its address, and that whoever is about to be
  linked or has got a key is at that account (`SameAccount`), as long as neither the
  address nor the link was given up. For `DeletionStands`, nothing at all works on a
  deleted account that no identity leads to, unless it was already at work when the
  account was deleted (`NobodyReturns`): there is no key to come by, no link, and no
  e-mail that anybody brings.

TLC checked each of these inductive invariants on the instance of the run before it
was proved.

Only model-checked: liveness (`EventuallySettled`, `ClaimSettles`, `ClosureArrives`,
`RowCatchesUp`, `PaidIsGranted`, `PaymentArrives`, `CrawlEnds`, `LetIn`), since the
prover has no fairness or ENABLED. Every other property that a run checks is stated by a
theorem. No module declares a RECURSIVE operator.

## 6. What is left

The two plan webhooks write the same account from modules of their own. Their
composition (an account that buys on both) and the account's own change of tier
would be one more module over `accounts`. Restarts between a rail's settlement and
the answer, which PaidCalls has only as `GateFaults`, need the durable part of mppx, a
library.

Worth proving next, of what the modules already say: how far each guarantee reaches where
a theorem excepts a history (that `torn`, `overlapped` and `crossed` are set by the one
step the text of section 3 names and by no other), and that the two webhooks implement one
abstract account whose tier moves only with an entry in `tier_changes`.
