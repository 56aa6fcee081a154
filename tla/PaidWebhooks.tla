---------------------------- MODULE PaidWebhooks ----------------------------
(***************************************************************************)
(* Plans sold through PAI'D to one account: POST /portal/api/subscribe     *)
(* opens a checkout session and records it as pending; PAI'D's events      *)
(* (checkout.session.completed, subscription.created, .canceled) move the  *)
(* account's tier by compare-and-set, grant its programs, log the move,    *)
(* set its plan and write one receipt for each session.                    *)
(*                                                                         *)
(* Each step is one statement.  PAI'D delivers an event until it is        *)
(* answered 2xx, in any order, side by side, and may deliver it again.     *)
(***************************************************************************)
EXTENDS Naturals

CONSTANTS
    Workers,    \* deliveries in flight at a time
    Sessions,   \* checkout sessions
    PlanOf,     \* the plan a session sells
    Direct,     \* sessions that PAI'D may have opened and not this server
    Mapped,     \* PAID_PLAN_* name the prices that subscription events carry
    MaxFaults,  \* bound: deliveries that fail or die between two statements, and
                \* deliveries of an event that is answered or under way
    None

Tiers == {"free", "paid", "suite"}
Plans == {"starter", "pro", "growth"}

\* What the constants are, which PlanSales assumes.
Parameters ==
    /\ PlanOf \in [Sessions -> Plans] /\ Direct \subseteq Sessions
    /\ Mapped \in BOOLEAN /\ MaxFaults \in Nat /\ None \notin Plans

VARIABLES
    pc,        \* where each delivery is
    doing,     \* the event it handles
    seen,      \* the account's tier it has read
    exists,    \* the account of the buyer's email has signed up
    tier, plan,\* accounts.tier, accounts.paid_plan_id
    programs,  \* program_entitlements has the account's programs
    audit,     \* tier_changes: how often each move was logged
    stage,     \* "open" at PAI'D; else subscription_purchases.status
    url,       \* sessions whose checkout_url the buyer has
    receipts,  \* payment_receipts of each session
    paid, canceled, \* external: sessions paid, and subscriptions that ended
    acked,     \* external: the events answered 2xx
    faults,
    torn       \* history: a delivery failed between the tier and its audit row

locals == <<pc, doing, seen>>
account == <<exists, tier, plan, programs, audit>>
purchases == <<stage, receipts>>
outside == <<url, paid, canceled>>
vars == <<locals, account, purchases, outside, acked, faults, torn>>

Events == [type : {"checkout", "created", "canceled"}, session : Sessions]
NoEvent == [type |-> "none"]
Moves == {m \in Tiers \X Tiers : m[1] # m[2]}

TypeOK ==
    /\ pc \in [Workers -> {"idle", "read", "cas", "programs", "log", "plan",
                        "mark", "receipt"}]
    /\ doing \in [Workers -> Events \cup {NoEvent}]
    /\ seen \in [Workers -> Tiers]
    /\ exists \in BOOLEAN
    /\ tier \in Tiers
    /\ plan \in Plans \cup {None}
    /\ programs \in BOOLEAN
    /\ audit \in [Moves -> Nat]
    /\ stage \in [Sessions -> {"none", "open", "pending", "succeeded"}]
    /\ url \subseteq Sessions
    /\ receipts \in [Sessions -> Nat]
    /\ paid \subseteq Sessions
    /\ canceled \subseteq paid
    /\ acked \subseteq Events
    /\ faults \in 0..MaxFaults
    /\ torn \in BOOLEAN

Init ==
    /\ pc = [w \in Workers |-> "idle"]
    /\ doing = [w \in Workers |-> NoEvent]
    /\ seen = [w \in Workers |-> "free"]
    /\ exists \in BOOLEAN
    /\ tier = "free" /\ plan = None /\ programs = FALSE
    /\ audit = [m \in Moves |-> 0]
    /\ url \in SUBSET Direct
    /\ stage = [s \in Sessions |-> IF s \in url THEN "open" ELSE "none"]
    /\ receipts = [s \in Sessions |-> 0]
    /\ paid = {} /\ canceled = {} /\ acked = {}
    /\ faults = 0
    /\ torn = FALSE

-----------------------------------------------------------------------------
(* The buyer and POST /portal/api/subscribe *)

SignUp ==
    /\ ~exists /\ exists' = TRUE
    /\ UNCHANGED <<locals, tier, plan, programs, audit, purchases, outside, acked, faults, torn>>

\* createCheckoutSession, for an account that is there.
OpenSession(s) ==
    /\ exists /\ stage[s] = "none"
    /\ stage' = [stage EXCEPT ![s] = "open"]
    /\ UNCHANGED <<locals, account, receipts, outside, acked, faults, torn>>

RecordPending(s) ==
    /\ s \notin url /\ stage[s] = "open"
    /\ stage' = [stage EXCEPT ![s] = "pending"]
    /\ UNCHANGED <<locals, account, receipts, outside, acked, faults, torn>>

\* The checkout_url is answered.
Answer(s) ==
    /\ stage[s] = "pending" /\ s \notin url
    /\ url' = url \cup {s}
    /\ UNCHANGED <<locals, account, purchases, paid, canceled, acked, faults, torn>>

BuyerPays(s) ==
    /\ s \in url \ paid
    /\ paid' = paid \cup {s}
    /\ UNCHANGED <<locals, account, purchases, url, canceled, acked, faults, torn>>

BuyerCancels(s) ==
    /\ s \in paid \ canceled
    /\ canceled' = canceled \cup {s}
    /\ UNCHANGED <<locals, account, purchases, url, paid, acked, faults, torn>>

Sent(e) == e.session \in IF e.type = "canceled" THEN canceled ELSE paid

-----------------------------------------------------------------------------
(* What an event says *)

TierOf(p) == IF p = "growth" THEN "suite" ELSE "paid"

\* It names a plan that is known: a checkout in the metadata of its session, a
\* subscription event by a price of the environment.
Names(e) == e.type = "checkout" \/ Mapped

\* tierForPaidEvent: "paid" if no known plan is named.
TargetTier(e) ==
    CASE e.type = "canceled" -> "free"
      [] e.type # "canceled" /\ Names(e) -> TierOf(PlanOf[e.session])
      [] OTHER -> "paid"

\* marketedPlanIdForPaidEvent
MarketedPlan(e) == IF e.type # "canceled" /\ Names(e) THEN PlanOf[e.session] ELSE None

-----------------------------------------------------------------------------
(* handlePaidWebhook *)

Goto(w, to) ==
    /\ pc' = [pc EXCEPT ![w] = to]
    /\ UNCHANGED doing

Forget(w) ==
    /\ pc' = [pc EXCEPT ![w] = "idle"]
    /\ doing' = [doing EXCEPT ![w] = NoEvent]
    /\ seen' = [seen EXCEPT ![w] = "free"]

\* The event is answered 200.
Done(w) == Forget(w) /\ acked' = acked \cup {doing[w]}

Replay(e) == e \in acked \/ \E w \in Workers : doing[w] = e

Deliver(w, e) ==
    /\ pc[w] = "idle" /\ Sent(e)
    /\ faults' = IF Replay(e) THEN faults + 1 ELSE faults
    /\ faults' <= MaxFaults
    /\ pc' = [pc EXCEPT ![w] = "read"]
    /\ doing' = [doing EXCEPT ![w] = e]
    /\ UNCHANGED <<seen, account, purchases, outside, acked, torn>>

\* Faulty variant: a payment of nobody known is answered 200.
UnknownAcked(w) ==
    /\ pc[w] = "read" /\ ~exists
    /\ Done(w)
    /\ UNCHANGED <<account, purchases, outside, faults, torn>>

\* getAccountByEmail finds nobody: 503, so that PAI'D delivers it again.
Unknown(w) ==
    /\ pc[w] = "read" /\ ~exists
    /\ Forget(w)
    /\ UNCHANGED <<account, purchases, outside, acked, faults, torn>>

ReadAccount(w) ==
    /\ pc[w] = "read" /\ exists
    /\ seen' = [seen EXCEPT ![w] = tier]
    /\ Goto(w, IF tier = TargetTier(doing[w]) THEN "plan" ELSE "cas")
    /\ UNCHANGED <<account, purchases, outside, acked, faults, torn>>

\* Faulty variant: the UPDATE does not compare.
TierStandsAnyway(w) == TRUE

\* The WHERE clause of updateAccountTierIfCurrent.
TierStands(w) == tier = seen[w]

MoveTier(w) ==
    /\ pc[w] = "cas" /\ TierStands(w)
    /\ tier' = TargetTier(doing[w])
    /\ Goto(w, IF TargetTier(doing[w]) = "free" THEN "log" ELSE "programs")
    /\ UNCHANGED <<seen, exists, plan, programs, audit, purchases, outside, acked, faults, torn>>

\* Another delivery has moved the tier: this one does not, and goes on.
MoveLost(w) ==
    /\ pc[w] = "cas" /\ ~TierStands(w)
    /\ Goto(w, "plan")
    /\ UNCHANGED <<seen, account, purchases, outside, acked, faults, torn>>

\* grantTierPrograms
GrantPrograms(w) ==
    /\ pc[w] = "programs"
    /\ programs' = TRUE
    /\ Goto(w, "log")
    /\ UNCHANGED <<seen, exists, tier, plan, audit, purchases, outside, acked, faults, torn>>

LogTierChange(w) ==
    /\ pc[w] = "log"
    /\ audit' = [audit EXCEPT ![<<seen[w], TargetTier(doing[w])>>] = @ + 1]
    /\ Goto(w, "plan")
    /\ UNCHANGED <<seen, exists, tier, plan, programs, purchases, outside, acked, faults, torn>>

\* updateAccountPaidPlanId; a cancellation is over then.
SetPlan(w) ==
    LET e == doing[w]
    IN /\ pc[w] = "plan"
       /\ plan' = IF TargetTier(e) = "free" THEN None
                  ELSE IF MarketedPlan(e) # None THEN MarketedPlan(e) ELSE plan
       /\ IF TargetTier(e) = "free" THEN Done(w)
                                    ELSE Goto(w, "mark") /\ UNCHANGED <<seen, acked>>
       /\ UNCHANGED <<exists, tier, programs, audit, purchases, outside, faults, torn>>

\* A pending row of the session that the event names.
Settles(e) == e.type = "checkout" /\ stage[e.session] = "pending"

\* markSubscriptionSucceeded, one transaction under the row's lock.
Mark(w) ==
    /\ pc[w] = "mark" /\ Settles(doing[w])
    /\ stage' = [stage EXCEPT ![doing[w].session] = "succeeded"]
    /\ Goto(w, "receipt")
    /\ UNCHANGED <<seen, account, receipts, outside, acked, faults, torn>>

MarkNothing(w) ==
    /\ pc[w] = "mark" /\ ~Settles(doing[w])
    /\ Done(w)
    /\ UNCHANGED <<account, purchases, outside, faults, torn>>

\* recordSettledPayment
Receipt(w) ==
    /\ pc[w] = "receipt"
    /\ receipts' = [receipts EXCEPT ![doing[w].session] = @ + 1]
    /\ Done(w)
    /\ UNCHANGED <<account, stage, outside, faults, torn>>

Faulted(w) ==
    /\ faults < MaxFaults /\ faults' = faults + 1
    /\ torn' = (torn \/ pc[w] \in {"programs", "log"})
    /\ UNCHANGED <<account, purchases, outside>>

\* The bookkeeping throws: it is caught and the event answered.
BookkeepingFails(w) == pc[w] \in {"mark", "receipt"} /\ Done(w) /\ Faulted(w)

\* A statement before it throws, or the process dies: not answered 2xx.
Fail(w) == pc[w] # "idle" /\ Forget(w) /\ Faulted(w) /\ UNCHANGED acked

-----------------------------------------------------------------------------

Step(w) ==
    \/ Unknown(w) \/ ReadAccount(w) \/ MoveTier(w) \/ MoveLost(w) \/ GrantPrograms(w)
    \/ LogTierChange(w) \/ SetPlan(w) \/ Mark(w) \/ MarkNothing(w) \/ Receipt(w)

Next ==
    \/ SignUp
    \/ \E s \in Sessions :
        OpenSession(s) \/ RecordPending(s) \/ Answer(s) \/ BuyerPays(s) \/ BuyerCancels(s)
    \/ \E w \in Workers :
        \/ \E e \in Events : Deliver(w, e)
        \/ Step(w)
        \/ BookkeepingFails(w) \/ Fail(w)

Spec == Init /\ [][Next]_vars

\* A delivery that has begun goes on, PAI'D delivers an event until it is
\* answered, and who has paid signs up in the end.
Fairness ==
    /\ \A w \in Workers : WF_vars(Step(w))
    /\ \A e \in Events : SF_vars(e \notin acked /\ \E w \in Workers : Deliver(w, e))
    /\ WF_vars(paid # {} /\ SignUp)

FairSpec == Spec /\ Fairness

-----------------------------------------------------------------------------
(* Properties *)

Quiet == \A w \in Workers : pc[w] = "idle"

\* How often a move was logged, the moves from a tier, and those to it.
Logged(m) == IF m \in Moves THEN audit[m] ELSE 0
From(t) == Logged(<<t, "free">>) + Logged(<<t, "paid">>) + Logged(<<t, "suite">>)
To(t) == Logged(<<"free", t>>) + Logged(<<"paid", t>>) + Logged(<<"suite", t>>)
Is(t, u) == IF t = u THEN 1 ELSE 0

\* The moves in tier_changes lead from free to the tier that the account has,
\* each logged by the one delivery that made it, and a paid account has its
\* programs, unless a delivery has failed between the tier and its audit row.
MovesAreWhole ==
    Quiet /\ ~torn =>
        /\ \A t \in Tiers : From(t) + Is(t, tier) = To(t) + Is(t, "free")
        /\ tier # "free" => programs

\* Who has paid is let in, even who signs up later, and a session that this
\* server has opened is booked, unless a delivery fails.
PaymentArrives ==
    \A s \in Sessions :
        /\ s \in paid ~> tier # "free" \/ canceled # {}
        /\ s \in paid /\ stage[s] = "pending" ~> receipts[s] = 1 \/ faults > 0
=============================================================================
