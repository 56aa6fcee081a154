--------------------------- MODULE StripeWebhooks ---------------------------
(***************************************************************************)
(* One Stripe subscription and its account: the webhooks that store the    *)
(* subscription (checkout.session.completed, customer.subscription.*,      *)
(* invoice.payment_failed) and then bring the account's tier in line.      *)
(*                                                                         *)
(* Each step is one statement.  Stripe delivers an event until it is       *)
(* answered 2xx, in any order, and may deliver it again; deliveries of one *)
(* subscription run side by side.                                          *)
(*                                                                         *)
(* Of a record the status, the price and last_event_created_at are kept    *)
(* (0 for null).  A price is named by the plan it is the price of.  An     *)
(* event's number, id, is the order in which Stripe made it; created is    *)
(* its second, which it may share with others.                             *)
(***************************************************************************)
EXTENDS Naturals, FiniteSets

CONSTANTS
    Workers,    \* deliveries in flight at a time
    Prices,     \* prices that the subscription may have
    Statuses,   \* statuses that Stripe may report while it is not canceled
    EnvPrice,   \* price of the checkout's plan in the environment now
    Failures,   \* invoice.payment_failed may come
    MaxEvents,  \* bound: events of customer.subscription.*
    MaxFaults,  \* bound: deliveries that fail or die between two statements, and
                \* deliveries of an event that is answered or under way
    None

Tiers == {"free", "paid", "suite"}
Plans == {"starter", "pro", "growth"}
AllStatuses == {"active", "trialing", "past_due", "incomplete", "incomplete_expired",
                "unpaid", "paused", "canceled"}
Ended == {"canceled", "unpaid", "incomplete_expired"}
Waiting == {"past_due", "incomplete", "paused"}

ASSUME PricesAssumption ==
    /\ "unknown" \notin Plans /\ None \notin Plans \cup Tiers \cup {"unknown"}
    /\ Prices \subseteq Plans \cup {"unknown"}
    /\ EnvPrice \in Plans
ASSUME StatusesAssumption == Statuses \subseteq AllStatuses \ {"canceled"}
ASSUME BoundsAssumption ==
    /\ MaxEvents \in Nat /\ MaxFaults \in Nat
    /\ Failures \in BOOLEAN

VARIABLES
    pc,        \* where each delivery is
    doing,     \* the event it handles
    held,      \* the row of stripe_subscriptions a checkout has read
    seen,      \* the account's tier it has read
    row,       \* the row of stripe_subscriptions, or NoRow
    tier, plan,\* accounts.tier, accounts.paid_plan_id
    programs,  \* program_entitlements has the account's programs
    named,     \* external: the subscription's metadata has the account
    audit,     \* tier_changes: the tier of the newest move logged
    sent,      \* external: the events Stripe has
    acked,     \* external: those that have been answered 2xx
    faults,    \* deliveries that failed, or came once too often, so far
    dirty,     \* history: deliveries behind whose back another has written
    overlapped,\* history: such a delivery has written
    torn,      \* history: a delivery died between the row and the account
    restated,  \* history: a checkout or a failed invoice wrote over the row's event
    dropped    \* history: events answered without an account and stored nowhere

locals == <<pc, doing, held, seen>>
account == <<tier, plan, programs, audit>>
history == <<dirty, overlapped, torn, restated, dropped>>
vars == <<locals, row, account, named, sent, acked, faults, history>>

AllPrices == Plans \cup {"unknown"}
NoRow == [status |-> "absent", price |-> "unknown", last |-> 0]
Rows == [status : AllStatuses \cup {"absent"}, price : AllPrices, last : 0..MaxEvents]

Events == [type : {"checkout", "subscription"}, status : AllStatuses,
           price : AllPrices, created : 0..MaxEvents, id : 0..MaxEvents]
Checkout(p) ==
    [type |-> "checkout", status |-> "active", price |-> p, created |-> 0, id |-> 0]
Subscription(s, p, t, n) ==
    [type |-> "subscription", status |-> s, price |-> p, created |-> t, id |-> n]
NoEvent == [type |-> "none"]

Stages == {"idle", "read", "fetch", "upsert", "sync", "move", "programs", "audit", "plan"}

TypeOK ==
    /\ pc \in [Workers -> Stages]
    /\ doing \in [Workers -> Events \cup {NoEvent}]
    /\ held \in [Workers -> Rows]
    /\ seen \in [Workers -> Tiers]
    /\ row \in Rows
    /\ tier \in Tiers
    /\ plan \in Plans \cup {None}
    /\ programs \in BOOLEAN
    /\ audit \in Tiers
    /\ named \in BOOLEAN
    /\ sent \subseteq Events
    /\ acked \subseteq sent
    /\ faults \in 0..MaxFaults
    /\ dirty \subseteq Workers
    /\ overlapped \in BOOLEAN
    /\ torn \in BOOLEAN
    /\ restated \in BOOLEAN
    /\ dropped \subseteq sent

Init ==
    /\ pc = [h \in Workers |-> "idle"]
    /\ doing = [h \in Workers |-> NoEvent]
    /\ held = [h \in Workers |-> NoRow]
    /\ seen = [h \in Workers |-> "free"]
    /\ row = NoRow
    /\ tier = "free" /\ plan = None /\ programs = FALSE /\ audit = "free"
    /\ named \in BOOLEAN
    /\ sent = {}
    /\ acked = {}
    /\ faults = 0
    /\ dirty = {} /\ overlapped = FALSE /\ torn = FALSE
    /\ restated = FALSE /\ dropped = {}

-----------------------------------------------------------------------------
(* Stripe *)

Numbered == {e \in sent : e.type = "subscription"}
Latest == Cardinality(Numbered)
Newest == CHOOSE e \in Numbered : e.id = Latest
Second == IF Numbered = {} THEN 0 ELSE Newest.created
Canceled == \E e \in Numbered : e.status = "canceled"

Send(e) ==
    /\ sent' = sent \cup {e}
    /\ UNCHANGED <<locals, row, account, named, acked, faults, history>>

\* The checkout of a subscription that Stripe has begun; its session names the
\* account.
StripeChecksOut == \E p \in Prices : sent = {} /\ Send(Checkout(p))

\* The next event is of the newest one's second or of a later one.
Seconds == {Second, Second + 1} \ {0}

\* customer.subscription.created and .updated.
StripeUpdates ==
    /\ Latest < MaxEvents /\ ~Canceled
    /\ \E s \in Statuses, p \in Prices, t \in Seconds :
            Send(Subscription(s, p, t, Latest + 1))

\* customer.subscription.deleted, with the price it had.
StripeDeletes ==
    /\ Latest < MaxEvents /\ ~Canceled /\ Numbered # {}
    /\ \E t \in Seconds : Send(Subscription("canceled", Newest.price, t, Latest + 1))

PriceToPlanId(p) == IF p \in Plans THEN p ELSE None
PriceToTier(p) ==
    CASE p \in {"starter", "pro"} -> "paid" [] p = "growth" -> "suite" [] OTHER -> None

-----------------------------------------------------------------------------
(* A delivery *)

Goto(h, stage) ==
    /\ pc' = [pc EXCEPT ![h] = stage]
    /\ UNCHANGED <<doing, acked>>

Forget(h) ==
    /\ pc' = [pc EXCEPT ![h] = "idle"]
    /\ doing' = [doing EXCEPT ![h] = NoEvent]
    /\ held' = [held EXCEPT ![h] = NoRow]
    /\ seen' = [seen EXCEPT ![h] = "free"]

\* The event is answered 200.
Done(h) == Forget(h) /\ acked' = acked \cup {doing[h]}

\* A statement that only reads, or an answer.
Reads(h) ==
    /\ UNCHANGED <<row, account, named, sent, faults, overlapped, torn, restated>>
    /\ dirty' = IF pc'[h] = "idle" THEN dirty \ {h} ELSE dirty

\* A statement that writes: who has read before it works with what was.
Writes(h) ==
    LET others == {g \in Workers \ {h} : pc[g] \notin {"idle", "read"}}
    IN /\ dirty' = (dirty \cup others) \ (IF pc'[h] = "idle" THEN {h} ELSE {})
       /\ overlapped' = (overlapped \/ h \in dirty)
       /\ UNCHANGED <<named, sent, faults, torn>>

Replay(e) == e \in acked \/ \E h \in Workers : doing[h] = e

Deliver(h, e) ==
    /\ pc[h] = "idle"
    /\ e \in sent
    /\ faults' = IF Replay(e) THEN faults + 1 ELSE faults
    /\ faults' <= MaxFaults
    /\ pc' = [pc EXCEPT ![h] = "read"]
    /\ doing' = [doing EXCEPT ![h] = e]
    /\ UNCHANGED <<held, seen, row, account, named, sent, acked, history>>

\* Faulty variant: no event is stale.
StaleNever(h) == FALSE

\* The event is not newer than the one that was applied last, or of its second.
Stale(h) == row.last # 0 /\ doing[h].created <= row.last

\* handleSubscriptionEvent reads the row. Without one the account is the
\* metadata's, and without that the event is answered 200 and stored nowhere.
HasAccount == row # NoRow \/ named

ReadUnknown(h) ==
    /\ pc[h] = "read" /\ doing[h].type = "subscription"
    /\ ~HasAccount
    /\ dropped' = dropped \cup {doing[h]}
    /\ Done(h)
    /\ Reads(h)

\* A stale event is answered and changes nothing.
ReadStale(h) ==
    /\ pc[h] = "read" /\ doing[h].type = "subscription"
    /\ HasAccount /\ Stale(h)
    /\ Done(h)
    /\ Reads(h) /\ UNCHANGED dropped

ReadFresh(h) ==
    /\ pc[h] = "read" /\ doing[h].type = "subscription"
    /\ HasAccount /\ ~Stale(h)
    /\ Goto(h, "upsert")
    /\ UNCHANGED <<held, seen, dropped>>
    /\ Reads(h)

\* handleCheckoutCompleted reads the row.
ReadCheckout(h) ==
    /\ pc[h] = "read" /\ doing[h].type = "checkout"
    /\ held' = [held EXCEPT ![h] = row]
    /\ Goto(h, "fetch")
    /\ UNCHANGED <<seen, dropped>>
    /\ Reads(h)

\* The price that the subscription has at Stripe.
PriceAtStripe(e) == IF Numbered = {} THEN e.price ELSE Newest.price

\* fetchSubscriptionPriceId: the price at Stripe, or after three attempts the
\* price of the row, or the environment's.  It is kept in held.
FetchPrice(h) ==
    LET kept == IF held[h] = NoRow THEN EnvPrice ELSE held[h].price
    IN /\ pc[h] = "fetch"
       /\ \E p \in {PriceAtStripe(doing[h]), kept} : held' = [held EXCEPT ![h].price = p]
       /\ Goto(h, "upsert")
       /\ UNCHANGED <<seen, dropped>>
       /\ Reads(h)

IsCheckout(h) == doing[h].type = "checkout"
PriceId(h) == IF IsCheckout(h) THEN held[h].price ELSE doing[h].price

\* upsertSubscription: the event's created; a checkout, which is not ordered,
\* keeps what the row had, and makes it active whatever it was.
Upsert(h) ==
    LET kept == IF held[h].last # 0 THEN held[h].last ELSE row.last
    IN /\ pc[h] = "upsert"
       /\ row' = [status |-> doing[h].status, price |-> PriceId(h),
                  last |-> IF IsCheckout(h) THEN kept ELSE doing[h].created]
       /\ restated' = IsCheckout(h)
       /\ dropped' = dropped \ {doing[h]}
       /\ Goto(h, "sync")
       /\ UNCHANGED <<held, seen, account>>
       /\ Writes(h)

\* invoice.payment_failed, of a subscription that Stripe has: an UPDATE of the
\* status and nothing else, so that it takes one step and may come again.
InvoicePaymentFailed ==
    /\ Failures /\ Numbered # {}
    /\ row # NoRow
    /\ row' = [row EXCEPT !.status = "past_due"]
    /\ restated' = TRUE
    /\ UNCHANGED <<locals, account, named, sent, acked, faults, dirty, overlapped, torn, dropped>>

-----------------------------------------------------------------------------
(* syncTierFromStripeSubscription *)

\* A checkout falls back to the plan's price if no tier has the true one.
TierPrice(h) ==
    IF IsCheckout(h) /\ PriceToTier(PriceId(h)) = None THEN EnvPrice ELSE PriceId(h)

\* Faulty variant: whatever the status, the tier of the price.
NewTierOfPrice(h) == PriceToTier(TierPrice(h))

NewTier(h) == IF doing[h].status \in Ended THEN "free" ELSE PriceToTier(TierPrice(h))

Skips(h) == doing[h].status \in Waiting \/ NewTier(h) = None

SyncSkipped(h) ==
    /\ pc[h] = "sync" /\ Skips(h)
    /\ Done(h)
    /\ Reads(h) /\ UNCHANGED dropped

\* getAccount: the tier is there already, or it is to be moved.
SyncRead(h) ==
    /\ pc[h] = "sync" /\ ~Skips(h)
    /\ seen' = [seen EXCEPT ![h] = tier]
    /\ Goto(h, IF NewTier(h) = tier THEN "plan" ELSE "move")
    /\ UNCHANGED <<held, dropped>>
    /\ Reads(h)

\* grantTierPrograms: free needs none.
HasPrograms(h) == NewTier(h) # "free"

\* updateAccountTier, its UPDATE: whatever the tier is now.
Move(h) ==
    /\ pc[h] = "move"
    /\ tier' = NewTier(h)
    /\ Goto(h, IF HasPrograms(h) THEN "programs" ELSE "audit")
    /\ UNCHANGED <<held, seen, row, plan, programs, audit, restated, dropped>>
    /\ Writes(h)

GrantPrograms(h) ==
    /\ pc[h] = "programs"
    /\ programs' = TRUE
    /\ Goto(h, "audit")
    /\ UNCHANGED <<held, seen, row, tier, plan, audit, restated, dropped>>
    /\ Writes(h)

LogTierChange(h) ==
    /\ pc[h] = "audit"
    /\ audit' = NewTier(h)
    /\ Goto(h, "plan")
    /\ UNCHANGED <<held, seen, row, tier, plan, programs, restated, dropped>>
    /\ Writes(h)

\* updateAccountPaidPlanId: only a move to free clears the plan.
SetPlan(h) ==
    /\ pc[h] = "plan"
    /\ plan' = IF seen[h] # NewTier(h) /\ NewTier(h) = "free" THEN None
               ELSE PriceToPlanId(TierPrice(h))
    /\ Done(h)
    /\ UNCHANGED <<row, tier, programs, audit, restated, dropped>>
    /\ Writes(h)

Dies(h) ==
    /\ pc[h] # "idle"
    /\ faults < MaxFaults
    /\ faults' = faults + 1
    /\ torn' = (torn \/ pc[h] \in {"sync", "move", "programs", "audit", "plan"})
    /\ dirty' = dirty \ {h}
    /\ UNCHANGED <<row, account, named, sent, overlapped, restated, dropped>>

\* Faulty variant: a delivery that failed is answered 200.
FailAnswered(h) == Dies(h) /\ Done(h)

\* A statement throws or the process dies: the event is not answered 2xx.
Fail(h) == Dies(h) /\ Forget(h) /\ UNCHANGED acked

-----------------------------------------------------------------------------

Step(h) ==
    \/ ReadUnknown(h) \/ ReadStale(h) \/ ReadFresh(h) \/ ReadCheckout(h) \/ FetchPrice(h)
    \/ Upsert(h) \/ SyncSkipped(h) \/ SyncRead(h) \/ Move(h) \/ GrantPrograms(h)
    \/ LogTierChange(h) \/ SetPlan(h)

Next ==
    \/ StripeChecksOut \/ StripeUpdates \/ StripeDeletes \/ InvoicePaymentFailed
    \/ \E h \in Workers :
        \/ \E e \in sent : Deliver(h, e)
        \/ Step(h)
        \/ Fail(h)

Spec == Init /\ [][Next]_vars

\* A delivery that has begun goes on, and Stripe delivers an event again and
\* again until it is answered: among the deliveries it has its turn.
Fairness ==
    /\ \A h \in Workers : WF_vars(Step(h))
    /\ \A n \in 1..MaxEvents : SF_vars(\E h \in Workers, e \in Numbered \ acked :
                                       e.id = n /\ Deliver(h, e))

FairSpec == Spec /\ Fairness

-----------------------------------------------------------------------------
(* Properties *)

Quiet == \A h \in Workers : pc[h] = "idle"

Alone(e) == \A d \in Numbered : d.created = e.created => d = e

\* The row is at the event's second, and if no other event is of that second it
\* has the event's status and price, unless something else wrote over them.
Stored(e) ==
    /\ e.created = row.last
    /\ Alone(e) /\ ~restated => row.status = e.status /\ row.price = e.price

\* An event that has been answered for an account is stored or older than what
\* is: reordered and replayed deliveries and failures do not take the row back to
\* an older second or to another event's status and price, until a delivery
\* writes behind another's back.
AckedIsStored ==
    ~overlapped => \A e \in (Numbered \cap acked) \ dropped : e.created < row.last \/ Stored(e)

\* When no delivery is under way the account is in line with the subscription's
\* row: it has the row's tier, the newest move logged is the one to it, and if
\* it pays it has its programs ("paid_accounts_without_entitlements should always
\* be 0").  A delivery that dies in between leaves it half way, because the
\* event that is delivered again is stale; so may one that writes behind
\* another's back.
AccountFollowsRow ==
    Quiet /\ ~torn /\ ~overlapped =>
        /\ row.status \in Ended => tier = "free"
        /\ row.status \in {"active", "trialing"} /\ PriceToTier(row.price) # None
            => tier = PriceToTier(row.price)
        /\ tier # "free" => programs
        /\ audit = tier

\* The newest of Stripe's events is stored in the end and stays so, through
\* failures and disorder, unless it was answered without an account or a delivery
\* writes behind another's back.
RowCatchesUp ==
    <>[](Numbered = {} \/ Stored(Newest) \/ Newest \in dropped \/ overlapped)
=============================================================================
