------------------------ MODULE StripeWebhooksProofs -------------------------
(***************************************************************************)
(* One subscription for any number of deliveries, events, prices and       *)
(* failures: an event that was answered is stored or older than what is,   *)
(* and a quiet account follows the row, unless a delivery has written      *)
(* behind another's back or died half way.                                 *)
(***************************************************************************)
EXTENDS StripeWebhooks, FiniteSetTheorems, TLAPS

\* The stages in which the row is written and the account is not in line yet.
Syncing == {"sync", "move", "programs", "audit", "plan"}

\* Those in which the delivery has read the account.
Moving == Syncing \ {"sync"}

\* A delivery at work handles an event of Stripe, only a checkout asks for a
\* price, and only a tier that is known is moved to; nobody is dirty before it
\* has read.
WorkFits ==
    \A h \in Workers :
        /\ pc[h] # "idle" => doing[h] \in sent
        /\ pc[h] = "fetch" => IsCheckout(h)
        /\ pc[h] \in Moving => ~Skips(h)
        /\ pc[h] \in {"idle", "read"} => h \notin dirty

\* The events of the subscription are numbered without a gap at the end, and a
\* second is not ahead of the number.
SentFits ==
    /\ IsFiniteSet(sent)
    /\ \A e \in Numbered : e.id \in 1..Latest /\ e.created \in 1..e.id
    /\ Numbered # {} => \E e \in Numbered : e.id = Latest

\* Until a delivery writes behind another's back, who has written the row finds
\* its event there, and who is about to has not lost sight of it.
RowFits ==
    ~overlapped =>
        \A h \in Workers :
            /\ pc[h] \in Syncing /\ ~IsCheckout(h) => doing[h].created <= row.last
            /\ pc[h] = "upsert" /\ ~IsCheckout(h) /\ h \notin dirty
                => row.last = 0 \/ row.last < doing[h].created
            /\ pc[h] \in {"fetch", "upsert"} /\ IsCheckout(h) /\ h \notin dirty
                => held[h].last = row.last

\* What was answered for an account is not ahead of the row.
AckedCovered ==
    ~overlapped => \A e \in (Numbered \cap acked) \ dropped : e.created <= row.last

\* A row with a second, and a row that was read with one, is of an event of that
\* second, and has what it says unless something else wrote over it.
RowHolds ==
    /\ row.last # 0 => \E e \in Numbered :
        /\ e.created = row.last
        /\ ~restated => row.status = e.status /\ row.price = e.price
    /\ \A h \in Workers : held[h].last # 0 => \E e \in Numbered : e.created = held[h].last

-----------------------------------------------------------------------------
(* Types *)

LEMMA InitHolds == Init => TypeOK /\ WorkFits /\ SentFits /\ RowFits
<1> SUFFICES ASSUME Init PROVE TypeOK /\ WorkFits /\ SentFits /\ RowFits
    OBVIOUS
<1>1. 0 \in 0..MaxEvents /\ 0 \in 0..MaxFaults
      BY BoundsAssumption
<1>2. TypeOK
      BY <1>1 DEF Init, TypeOK, Stages, Tiers, NoRow, Rows, AllPrices
<1>3. WorkFits /\ RowFits
      BY DEF Init, WorkFits, RowFits, Syncing, Moving
<1>4. Numbered = {} /\ IsFiniteSet(sent)
      BY FS_EmptySet DEF Init, Numbered
<1>5. SentFits
      BY <1>4 DEF SentFits
<1> QED
    BY <1>2, <1>3, <1>5

\* Stripe's step: a checkout, or the event that comes next in number.
Announce(e) ==
    /\ e \in Events
    /\ \/ e.type = "checkout"
       \/ e.type = "subscription" /\ e.id = Latest + 1 /\ e.created \in 1..e.id
    /\ Send(e)

LEMMA LatestIsNat ==
    ASSUME SentFits PROVE Latest \in Nat /\ IsFiniteSet(Numbered)
<1>1. IsFiniteSet(Numbered)
      BY FS_Subset DEF SentFits, Numbered
<1> QED
    BY <1>1, FS_CardinalityType DEF Latest

LEMMA NewestIsThere ==
    ASSUME SentFits, Numbered # {} PROVE Newest \in Numbered
BY DEF SentFits, Newest

LEMMA SecondsFit ==
    ASSUME SentFits, NEW t \in Seconds PROVE t \in 1..(Latest + 1)
<1>1. Latest \in Nat
      BY LatestIsNat
<1>2. Second \in 0..Latest
      BY <1>1, NewestIsThere DEF Second, SentFits
<1> QED
    BY <1>1, <1>2 DEF Seconds

LEMMA SubscriptionFits ==
    ASSUME SentFits, Latest < MaxEvents, NEW s \in AllStatuses, NEW p \in AllPrices,
           NEW t \in Seconds, Send(Subscription(s, p, t, Latest + 1))
    PROVE  \E e : Announce(e)
<1> DEFINE e == Subscription(s, p, t, Latest + 1)
<1>1. Latest \in Nat /\ MaxEvents \in Nat /\ t \in 1..(Latest + 1)
      BY LatestIsNat, SecondsFit, BoundsAssumption
<1>2. Latest + 1 \in 0..MaxEvents /\ t \in 0..MaxEvents
      BY <1>1
<1>3. e \in Events
      BY <1>2 DEF Subscription, Events
<1>4. e.type = "subscription" /\ e.id = Latest + 1 /\ e.created = t
      BY DEF Subscription
<1>5. Announce(e)
      BY <1>1, <1>3, <1>4 DEF Announce
<1> QED
    BY <1>5

LEMMA StripeAnnounces ==
    ASSUME TypeOK, SentFits, StripeChecksOut \/ StripeUpdates \/ StripeDeletes
    PROVE  \E e : Announce(e)
<1>1. /\ 0 \in 0..MaxEvents /\ Prices \subseteq AllPrices /\ Statuses \subseteq AllStatuses
      /\ "canceled" \in AllStatuses
      BY BoundsAssumption, PricesAssumption, StatusesAssumption DEF AllPrices, AllStatuses
<1>2. CASE StripeChecksOut
  <2>1. PICK p \in Prices : Send(Checkout(p))
        BY <1>2 DEF StripeChecksOut
  <2>2. Checkout(p) \in Events /\ Checkout(p).type = "checkout"
        BY <1>1 DEF Checkout, Events, AllStatuses
  <2> QED
      BY <2>1, <2>2 DEF Announce
<1>3. CASE StripeUpdates
      BY <1>1, <1>3, SubscriptionFits DEF StripeUpdates
<1>4. CASE StripeDeletes
  <2>1. Newest.price \in AllPrices
        BY <1>4, NewestIsThere DEF StripeDeletes, Numbered, TypeOK, Events
  <2> QED
      BY <1>1, <1>4, <2>1, SubscriptionFits DEF StripeDeletes
<1> QED
    BY <1>2, <1>3, <1>4

LEMMA SentStep ==
    ASSUME TypeOK, SentFits, [Next]_vars PROVE SentFits'
<1>1. CASE StripeChecksOut \/ StripeUpdates \/ StripeDeletes
  <2>1. PICK e : Announce(e)
        BY <1>1, StripeAnnounces
  <2>2. sent' = sent \cup {e} /\ IsFiniteSet(sent')
        BY <2>1, FS_AddElement DEF Announce, Send, SentFits
  <2>3. Latest \in Nat /\ IsFiniteSet(Numbered)
        BY LatestIsNat
  <2>4. CASE e.type = "checkout"
    <3>1. Numbered' = Numbered
          BY <2>2, <2>4 DEF Numbered
    <3> QED
        BY <2>2, <3>1 DEF SentFits, Latest
  <2>5. CASE e.type = "subscription" /\ e.id = Latest + 1 /\ e.created \in 1..e.id
    <3>1. Numbered' = Numbered \cup {e}
          BY <2>2, <2>5 DEF Numbered
    <3>2. e \notin Numbered
          BY <2>3, <2>5 DEF SentFits
    <3>3. Latest' = Latest + 1
          BY <2>3, <3>1, <3>2, FS_AddElement DEF Latest
    <3>4. \A d \in Numbered' : d.id \in 1..Latest' /\ d.created \in 1..d.id
          BY <2>3, <2>5, <3>1, <3>3 DEF SentFits
    <3>5. e \in Numbered' /\ e.id = Latest'
          BY <2>5, <3>1, <3>3
    <3> QED
        BY <2>2, <3>4, <3>5 DEF SentFits
  <2> QED
      BY <2>1, <2>4, <2>5 DEF Announce
<1>2. CASE sent' = sent
      BY <1>2 DEF SentFits, Numbered, Latest
<1>3. ~(StripeChecksOut \/ StripeUpdates \/ StripeDeletes) => sent' = sent
      BY DEF Next, vars, InvoicePaymentFailed, Deliver, Step, Fail, Dies, ReadUnknown, ReadStale,
             ReadFresh, ReadCheckout, FetchPrice, Upsert, SyncSkipped, SyncRead, Move,
             GrantPrograms, LogTierChange, SetPlan, Reads, Writes
<1> QED
    BY <1>1, <1>2, <1>3

LEMMA PricesFit ==
    ASSUME TypeOK, SentFits, WorkFits, NEW h \in Workers, pc[h] # "idle"
    PROVE  /\ doing[h] \in Events
           /\ PriceAtStripe(doing[h]) \in AllPrices
           /\ PriceId(h) \in AllPrices
           /\ TierPrice(h) \in AllPrices
           /\ NewTier(h) \in Tiers \cup {None}
           /\ PriceToPlanId(TierPrice(h)) \in Plans \cup {None}
<1>1. doing[h] \in Events
      BY DEF TypeOK, WorkFits
<1>2. PriceAtStripe(doing[h]) \in AllPrices
  <2>1. CASE Numbered = {}
        BY <1>1, <2>1 DEF PriceAtStripe, Events
  <2>2. CASE Numbered # {}
    <3>1. Newest \in Numbered
          BY <2>2, NewestIsThere
    <3>2. Newest \in Events
          BY <3>1 DEF Numbered, TypeOK
    <3> QED
        BY <2>2, <3>2 DEF PriceAtStripe, Events
  <2> QED
      BY <2>1, <2>2
<1>3. PriceId(h) \in AllPrices
      BY <1>1 DEF PriceId, TypeOK, Rows, Events
<1>4. TierPrice(h) \in AllPrices
      BY <1>3, PricesAssumption DEF TierPrice, AllPrices
<1> QED
    BY <1>1, <1>2, <1>3, <1>4 DEF NewTier, PriceToTier, PriceToPlanId, Tiers

LEMMA TypeStep ==
    ASSUME TypeOK, SentFits, WorkFits, [Next]_vars PROVE TypeOK'
<1> USE DEF TypeOK
<1>1. CASE StripeChecksOut \/ StripeUpdates \/ StripeDeletes
  <2>1. PICK e : Announce(e)
        BY <1>1, StripeAnnounces
  <2> QED
      BY <2>1 DEF Announce, Send, locals, account, history
<1>2. CASE InvoicePaymentFailed
      BY <1>2 DEF InvoicePaymentFailed, locals, account, history, Rows, AllStatuses
<1>3. ASSUME NEW h \in Workers, NEW e \in sent, Deliver(h, e) PROVE TypeOK'
  <2>1. faults' \in 0..MaxFaults
        BY <1>3, BoundsAssumption DEF Deliver
  <2> QED
      BY <1>3, <2>1 DEF Deliver, account, history, Stages
<1>4. ASSUME NEW h \in Workers, Step(h) PROVE TypeOK'
  <2>1. pc[h] # "idle"
        BY <1>4 DEF Step, ReadUnknown, ReadStale, ReadFresh, ReadCheckout, FetchPrice, Upsert,
                    SyncSkipped, SyncRead, Move, GrantPrograms, LogTierChange, SetPlan
  <2>2. /\ doing[h] \in Events /\ doing[h] \in sent
        /\ PriceAtStripe(doing[h]) \in AllPrices
        /\ PriceId(h) \in AllPrices
        /\ NewTier(h) \in Tiers \cup {None}
        /\ PriceToPlanId(TierPrice(h)) \in Plans \cup {None}
        BY <2>1, PricesFit DEF WorkFits
  <2>3. pc[h] \in Moving => NewTier(h) \in Tiers
        BY <2>2 DEF WorkFits, Skips
  <2>4. NoEvent \in {NoEvent} /\ NoRow \in Rows /\ "free" \in Tiers
        BY BoundsAssumption DEF NoRow, Rows, AllPrices, Tiers
  <2> USE DEF Goto, Done, Forget, Reads, Writes, account, history, Stages
  <2>5. CASE ReadStale(h) \/ ReadUnknown(h)
        BY <2>2, <2>4, <2>5 DEF ReadStale, ReadUnknown
  <2>6. CASE ReadFresh(h)
        BY <2>6 DEF ReadFresh
  <2>7. CASE ReadCheckout(h)
        BY <2>7 DEF ReadCheckout
  <2>8. CASE FetchPrice(h)
    <3>1. EnvPrice \in AllPrices /\ held[h] \in Rows
          BY PricesAssumption DEF AllPrices
    <3>2. PICK p \in AllPrices : held' = [held EXCEPT ![h].price = p]
          BY <2>2, <2>8, <3>1 DEF FetchPrice, Rows
    <3>3. held' \in [Workers -> Rows]
          BY <3>1, <3>2 DEF Rows
    <3> QED
        BY <2>8, <3>3 DEF FetchPrice
  <2>9. CASE Upsert(h)
    <3>1. row' \in Rows
          BY <2>2, <2>9 DEF Upsert, Rows, Events
    <3>2. restated' \in BOOLEAN /\ dropped' \subseteq sent
          BY <2>9 DEF Upsert, IsCheckout
    <3> QED
        BY <2>9, <3>1, <3>2 DEF Upsert
  <2>10. CASE SyncSkipped(h)
        BY <2>2, <2>4, <2>10 DEF SyncSkipped
  <2>11. CASE SyncRead(h)
        BY <2>11 DEF SyncRead
  <2>12. CASE Move(h)
        BY <2>3, <2>12 DEF Move, Moving, Syncing
  <2>13. CASE GrantPrograms(h)
        BY <2>13 DEF GrantPrograms
  <2>14. CASE LogTierChange(h)
        BY <2>3, <2>14 DEF LogTierChange, Moving, Syncing
  <2>15. CASE SetPlan(h)
        BY <2>2, <2>4, <2>15 DEF SetPlan
  <2> QED
      BY <1>4, <2>5, <2>6, <2>7, <2>8, <2>9, <2>10, <2>11, <2>12, <2>13, <2>14, <2>15 DEF Step
<1>5. ASSUME NEW h \in Workers, Fail(h) PROVE TypeOK'
  <2>1. faults' \in 0..MaxFaults
        BY <1>5, BoundsAssumption DEF Fail, Dies
  <2>2. NoRow \in Rows /\ "free" \in Tiers
        BY BoundsAssumption DEF NoRow, Rows, AllPrices, Tiers
  <2> QED
      BY <1>5, <2>1, <2>2 DEF Fail, Dies, Forget, account, Stages
<1>6. CASE UNCHANGED vars
      BY <1>6 DEF vars, locals, account, history
<1> QED
    BY <1>1, <1>2, <1>3, <1>4, <1>5, <1>6 DEF Next

-----------------------------------------------------------------------------
(* Deliveries and the row *)

LEMMA WorkStep ==
    ASSUME TypeOK, SentFits, WorkFits, [Next]_vars PROVE WorkFits'
<1> USE DEF WorkFits, IsCheckout, Moving, Syncing
<1>1. /\ pc \in [Workers -> Stages] /\ doing \in [Workers -> Events \cup {NoEvent}]
      /\ held \in [Workers -> Rows]
      BY DEF TypeOK
<1> USE DEF Skips, NewTier, TierPrice, PriceId, PriceToTier
<1>2. CASE StripeChecksOut \/ StripeUpdates \/ StripeDeletes
  <2>1. PICK e : Announce(e)
        BY <1>2, StripeAnnounces
  <2>2. sent \subseteq sent' /\ UNCHANGED <<pc, doing, held, dirty>>
        BY <2>1 DEF Announce, Send, locals, history
  <2> QED
      BY <2>2
<1>3. CASE InvoicePaymentFailed
      BY <1>3 DEF InvoicePaymentFailed, locals, history
<1>4. ASSUME NEW h \in Workers, NEW e \in sent, Deliver(h, e) PROVE WorkFits'
      BY <1>1, <1>4 DEF Deliver, history
<1>5. ASSUME NEW h \in Workers, Step(h) PROVE WorkFits'
  <2> USE <1>1 DEF Goto, Done, Forget, Reads, Writes
  <2>1. CASE ReadStale(h) \/ ReadUnknown(h)
        BY <2>1 DEF ReadStale, ReadUnknown
  <2>2. CASE ReadFresh(h)
        BY <2>2 DEF ReadFresh
  <2>3. CASE ReadCheckout(h)
        BY <2>3 DEF ReadCheckout
  <2>4. CASE FetchPrice(h)
        BY <2>4 DEF FetchPrice
  <2>5. CASE Upsert(h)
        BY <2>5 DEF Upsert
  <2>6. CASE SyncSkipped(h)
        BY <2>6 DEF SyncSkipped
  <2>7. CASE SyncRead(h)
        BY <2>7 DEF SyncRead
  <2>8. CASE Move(h)
        BY <2>8 DEF Move
  <2>9. CASE GrantPrograms(h)
        BY <2>9 DEF GrantPrograms
  <2>10. CASE LogTierChange(h)
        BY <2>10 DEF LogTierChange
  <2>11. CASE SetPlan(h)
        BY <2>11 DEF SetPlan
  <2> QED
      BY <1>5, <2>1, <2>2, <2>3, <2>4, <2>5, <2>6, <2>7, <2>8, <2>9, <2>10, <2>11 DEF Step
<1>6. ASSUME NEW h \in Workers, Fail(h) PROVE WorkFits'
      BY <1>1, <1>6 DEF Fail, Dies, Forget
<1>7. CASE UNCHANGED vars
      BY <1>7 DEF vars, locals, history
<1> QED
    BY <1>2, <1>3, <1>4, <1>5, <1>6, <1>7 DEF Next

\* Until a delivery writes behind another's back, the row's number only grows.
LEMMA RowStep ==
    ASSUME TypeOK, SentFits, WorkFits, RowFits, AckedCovered, [Next]_vars
    PROVE  RowFits' /\ AckedCovered'
<1> SUFFICES ASSUME ~overlapped' PROVE RowFits' /\ AckedCovered'
    BY DEF RowFits, AckedCovered
<1>1. /\ pc \in [Workers -> Stages] /\ doing \in [Workers -> Events \cup {NoEvent}]
      /\ held \in [Workers -> Rows] /\ row \in Rows /\ acked \subseteq sent /\ sent \subseteq Events
      BY DEF TypeOK
<1>2. row.last \in Nat /\ \A h \in Workers : held[h].last \in Nat
      BY <1>1, BoundsAssumption DEF Rows
<1>3. \A e \in Events : e.created \in Nat /\ (e.type = "checkout" \/ e.type = "subscription")
      BY BoundsAssumption DEF Events
<1>4. \A e \in Numbered : e.created \in Nat /\ e.type = "subscription" /\ e \in sent
      BY <1>1, <1>3 DEF Numbered
<1> USE DEF RowFits, AckedCovered, IsCheckout, Syncing
<1>5. CASE StripeChecksOut \/ StripeUpdates \/ StripeDeletes
  <2>1. PICK e : Announce(e)
        BY <1>5, StripeAnnounces
  <2>2. /\ UNCHANGED <<pc, doing, held, row, acked, dirty, overlapped, dropped>>
        /\ sent' = sent \cup {e}
        BY <2>1 DEF Announce, Send, locals, history
  <2>3. Numbered' \cap acked' = Numbered \cap acked
        BY <1>1, <2>2 DEF Numbered
  <2> QED
      BY <2>2, <2>3
<1>6. CASE InvoicePaymentFailed
  <2>1. /\ UNCHANGED <<pc, doing, held, acked, sent, dirty, overlapped, dropped>>
        /\ row'.last = row.last
        BY <1>1, <1>6 DEF InvoicePaymentFailed, locals, history, Rows
  <2> QED
      BY <2>1 DEF Numbered
<1>7. ASSUME NEW h \in Workers, NEW e \in sent, Deliver(h, e)
      PROVE  RowFits' /\ AckedCovered'
      BY <1>1, <1>7 DEF Deliver, history, Numbered
<1>8. ASSUME NEW h \in Workers, Step(h) PROVE RowFits' /\ AckedCovered'
  <2> USE <1>1, <1>2 DEF Goto, Done, Forget, Reads, Writes, Numbered
  <2>1. CASE ReadStale(h)
        BY <1>3, <2>1 DEF ReadStale, Stale
  <2>12. CASE ReadUnknown(h)
        BY <1>3, <2>12 DEF ReadUnknown
  <2>2. CASE ReadFresh(h)
        BY <1>3, <2>2 DEF ReadFresh, Stale, WorkFits
  <2>3. CASE ReadCheckout(h)
        BY <2>3 DEF ReadCheckout
  <2>4. CASE FetchPrice(h)
    <3>1. /\ pc[h] = "fetch" /\ pc'[h] = "upsert" /\ IsCheckout(h) /\ doing' = doing
          /\ held'[h].last = held[h].last
          BY <2>4 DEF FetchPrice, WorkFits, Rows
    <3> QED
        BY <2>4, <3>1 DEF FetchPrice
  <2>5. CASE Upsert(h)
    <3>1. h \notin dirty
          BY <2>5 DEF Upsert
    <3>2. doing[h] \in Events
          BY <2>5 DEF Upsert, WorkFits
    <3>3. row'.last = IF IsCheckout(h) THEN IF held[h].last # 0 THEN held[h].last ELSE row.last
                      ELSE doing[h].created
          BY <2>5 DEF Upsert
    <3>4. row'.last >= row.last /\ row'.last \in Nat
      <4>1. pc[h] = "upsert" /\ ~overlapped
            BY <2>5 DEF Upsert
      <4>2. CASE IsCheckout(h)
        <5>1. held[h].last = row.last
              BY <3>1, <4>1, <4>2
        <5> QED
            BY <3>3, <4>2, <5>1
      <4>3. CASE ~IsCheckout(h)
        <5>1. row.last = 0 \/ row.last < doing[h].created
              BY <3>1, <4>1, <4>3
        <5>2. row'.last = doing[h].created
              BY <3>3, <4>3
        <5> QED
            BY <1>3, <3>2, <5>1, <5>2
      <4> QED
          BY <4>2, <4>3
    <3>5. ~IsCheckout(h) => doing[h].created <= row'.last
          BY <1>3, <3>2, <3>3
    <3>6. \A g \in Workers \ {h} : pc[g] \in Stages \ {"idle", "read"} => g \in dirty'
          BY <2>5 DEF Upsert
    <3>7. \A g \in Workers \ {h} : pc[g] \in Syncing /\ ~IsCheckout(g) =>
            doing[g].created <= row'.last
      <4>1. SUFFICES ASSUME NEW g \in Workers \ {h}, pc[g] \in Syncing, ~IsCheckout(g)
                     PROVE  doing[g].created <= row'.last
            OBVIOUS
      <4>2. doing[g].created <= row.last
            BY <2>5, <4>1 DEF Upsert
      <4>3. doing[g].created \in Nat
            BY <1>3, <4>1 DEF WorkFits
      <4> QED
          BY <3>4, <4>2, <4>3
    <3>8. RowFits'
          BY <2>5, <3>5, <3>6, <3>7 DEF Upsert, Stages
    <3>9. AckedCovered'
      <4>1. /\ Numbered' = Numbered /\ acked' = acked /\ ~overlapped
            /\ dropped' = dropped \ {doing[h]}
            BY <2>5 DEF Upsert
      <4>2. \A e \in (Numbered \cap acked) \ dropped : e.created <= row.last
            BY <4>1
      <4>3. \A e \in Numbered : e = doing[h] => e.created <= row'.last
            BY <1>4, <3>5
      <4> QED
          BY <1>4, <3>4, <4>1, <4>2, <4>3
    <3> QED
        BY <3>8, <3>9
  <2>6. CASE SyncSkipped(h)
        BY <1>3, <2>6 DEF SyncSkipped
  <2>7. CASE SyncRead(h)
        BY <2>7 DEF SyncRead
  <2>8. CASE Move(h)
        BY <2>8 DEF Move
  <2>9. CASE GrantPrograms(h)
        BY <2>9 DEF GrantPrograms
  <2>10. CASE LogTierChange(h)
        BY <2>10 DEF LogTierChange
  <2>11. CASE SetPlan(h)
        BY <1>3, <2>11 DEF SetPlan
  <2> QED
      BY <1>8, <2>1, <2>2, <2>3, <2>4, <2>5, <2>6, <2>7, <2>8, <2>9, <2>10, <2>11, <2>12 DEF Step
<1>9. ASSUME NEW h \in Workers, Fail(h) PROVE RowFits' /\ AckedCovered'
      BY <1>1, <1>9 DEF Fail, Dies, Forget, Numbered
<1>10. CASE UNCHANGED vars
      BY <1>10 DEF vars, locals, history, Numbered
<1> QED
    BY <1>5, <1>6, <1>7, <1>8, <1>9, <1>10 DEF Next

\* An upsert of a subscription's event writes the event; a checkout keeps a second
\* that the row has or had, and it and a failed invoice are remembered.
LEMMA HoldsStep ==
    ASSUME TypeOK, WorkFits, RowHolds, [Next]_vars PROVE RowHolds'
<1> USE DEF RowHolds
<1>1. held \in [Workers -> Rows] /\ row \in Rows /\ sent \subseteq Events
      BY DEF TypeOK
<1>2. \A e \in Events : e.type = "checkout" \/ e.type = "subscription"
      BY DEF Events
<1>3. CASE StripeChecksOut \/ StripeUpdates \/ StripeDeletes
  <2>1. UNCHANGED <<held, row, restated>> /\ sent \subseteq sent'
        BY <1>3 DEF StripeChecksOut, StripeUpdates, StripeDeletes, Send, locals, history
  <2>2. Numbered \subseteq Numbered'
        BY <2>1 DEF Numbered
  <2> QED
      BY <2>1, <2>2
<1>4. CASE InvoicePaymentFailed
  <2>1. UNCHANGED <<held, sent>> /\ restated' /\ row'.last = row.last
        BY <1>1, <1>4 DEF InvoicePaymentFailed, locals, Rows
  <2> QED
      BY <2>1 DEF Numbered
<1>5. ASSUME NEW h \in Workers, Upsert(h) PROVE RowHolds'
  <2>1. UNCHANGED <<held, sent>> /\ restated' = IsCheckout(h)
        BY <1>5 DEF Upsert, Writes
  <2>2. doing[h] \in sent
        BY <1>5 DEF Upsert, WorkFits
  <2>3. CASE IsCheckout(h)
    <3>1. row'.last = IF held[h].last # 0 THEN held[h].last ELSE row.last
          BY <1>5, <2>3 DEF Upsert
    <3> QED
        BY <2>1, <2>3, <3>1 DEF Numbered
  <2>4. CASE ~IsCheckout(h)
    <3>1. doing[h] \in Numbered
          BY <1>1, <1>2, <2>2, <2>4 DEF Numbered, IsCheckout
    <3>2. /\ row'.last = doing[h].created /\ row'.status = doing[h].status
          /\ row'.price = doing[h].price
          BY <1>5, <2>4 DEF Upsert, PriceId
    <3> QED
        BY <2>1, <3>1, <3>2 DEF Numbered
  <2> QED
      BY <2>3, <2>4
<1>6. ASSUME UNCHANGED <<row, restated, sent>>,
             \A h \in Workers : held'[h].last \in {0, row.last, held[h].last}
      PROVE  RowHolds'
      BY <1>6 DEF Numbered
<1>7. ASSUME NEW h \in Workers, Step(h), ~Upsert(h) PROVE RowHolds'
  <2>1. UNCHANGED <<row, restated, sent>>
        BY <1>7 DEF Step, ReadUnknown, ReadStale, ReadFresh, ReadCheckout, FetchPrice,
                    SyncSkipped, SyncRead, Move, GrantPrograms, LogTierChange, SetPlan,
                    Reads, Writes
  <2>2. \A g \in Workers : held'[g].last \in {0, row.last, held[g].last}
    <3>1. CASE ReadCheckout(h)
          BY <1>1, <3>1 DEF ReadCheckout
    <3>2. CASE FetchPrice(h)
      <4>1. PICK p : held' = [held EXCEPT ![h].price = p]
            BY <3>2 DEF FetchPrice
      <4>2. \A g \in Workers : held'[g].last = held[g].last
            BY <1>1, <4>1 DEF Rows
      <4> QED
          BY <4>2
    <3>3. CASE held' = held
          BY <3>3
    <3>4. CASE Forget(h)
          BY <1>1, <3>4 DEF Forget, NoRow
    <3>5. ReadCheckout(h) \/ FetchPrice(h) \/ held' = held \/ Forget(h)
          BY <1>7 DEF Step, ReadUnknown, ReadStale, ReadFresh, SyncSkipped, SyncRead, Move,
                      GrantPrograms, LogTierChange, SetPlan, Done
    <3> QED
        BY <3>1, <3>2, <3>3, <3>4, <3>5
  <2> QED
      BY <1>6, <2>1, <2>2
<1>8. ASSUME NEW h \in Workers, Fail(h) PROVE RowHolds'
  <2>1. UNCHANGED <<row, restated, sent>> /\ held' = [held EXCEPT ![h] = NoRow]
        BY <1>8 DEF Fail, Dies, Forget
  <2>2. \A g \in Workers : held'[g].last \in {0, held[g].last}
        BY <1>1, <2>1 DEF NoRow
  <2> QED
      BY <1>6, <2>1, <2>2
<1>9. ASSUME NEW h \in Workers, NEW e \in sent, Deliver(h, e) PROVE RowHolds'
      BY <1>6, <1>9 DEF Deliver, history
<1>10. CASE UNCHANGED vars
      BY <1>6, <1>10 DEF vars, locals, history
<1> QED
    BY <1>3, <1>4, <1>5, <1>7, <1>8, <1>9, <1>10 DEF Next

\* So an event that was answered is older than the row, or stored in it.
LEMMA CoveredIsStored ==
    ASSUME TypeOK, SentFits, AckedCovered, RowHolds PROVE AckedIsStored
<1> SUFFICES ASSUME ~overlapped, NEW e \in (Numbered \cap acked) \ dropped,
                    ~(e.created < row.last)
             PROVE  Stored(e)
    BY DEF AckedIsStored
<1>1. e.created \in Nat \ {0} /\ row.last \in Nat
  <2>1. Latest \in Nat
        BY LatestIsNat
  <2> QED
      BY <2>1, BoundsAssumption DEF SentFits, TypeOK, Rows
<1>2. e.created = row.last
      BY <1>1 DEF AckedCovered
<1> QED
    BY <1>1, <1>2 DEF RowHolds, Stored, Alone

-----------------------------------------------------------------------------
(* The account *)

\* The delivery that has written the row last and brings the account in line.
Owner(h) == h \in Workers \ dirty /\ pc[h] \in Syncing

\* A delivery that cannot go on without writing behind another's back or dying
\* half way.
Stuck == \E h \in Workers \cap dirty : pc[h] \in Moving

OneOwner == \A g, h \in Workers : Owner(g) /\ Owner(h) => g = h

\* The tier that the row asks for, if it asks for one.
RowMatches ==
    /\ row.status \in Ended => tier = "free"
    /\ row.status \in {"active", "trialing"} /\ PriceToTier(row.price) # None
        => tier = PriceToTier(row.price)

OwnerFits(h) ==
    /\ row.price = PriceId(h)
    /\ row.status \in {doing[h].status, "past_due"}
    /\ pc[h] \in {"programs", "audit", "plan"} => tier = NewTier(h)

\* What is out of line with the row is the owner's to bring in line.
AccountFits ==
    ~torn /\ ~overlapped /\ ~Stuck =>
        /\ \A h \in Workers : Owner(h) => OwnerFits(h)
        /\ RowMatches \/ \E h \in Workers : Owner(h)
        /\ tier # "free" /\ ~programs => \E h \in Workers : Owner(h) /\ pc[h] = "programs"
        /\ audit # tier => \E h \in Workers : Owner(h) /\ pc[h] \in {"programs", "audit"}

\* A delivery that has no tier to move to has a row that asks for none.
LEMMA SkippedMatches ==
    ASSUME TypeOK, NEW h \in Workers, Skips(h),
           row.price = PriceId(h), row.status \in {doing[h].status, "past_due"}
    PROVE  RowMatches
<1> USE PricesAssumption DEF Ended, Waiting
<1>1. CASE doing[h].status \in Waiting
      BY <1>1 DEF RowMatches
<1>2. CASE doing[h].status \notin Waiting
  <2>1. NewTier(h) = None
        BY <1>2 DEF Skips
  <2>2. doing[h].status \notin Ended /\ PriceToTier(TierPrice(h)) = None
        BY <2>1 DEF NewTier, Tiers
  <2>3. PriceToTier(EnvPrice) # None
        BY DEF PriceToTier, Plans, Tiers
  <2>4. TierPrice(h) = row.price
        BY <2>2, <2>3 DEF TierPrice
  <2> QED
      BY <2>2, <2>4 DEF RowMatches
<1> QED
    BY <1>1, <1>2

\* A delivery whose tier the account has has a row that asks for that tier.
LEMMA MovedMatches ==
    ASSUME TypeOK, NEW h \in Workers, ~Skips(h), tier = NewTier(h),
           row.price = PriceId(h), row.status \in {doing[h].status, "past_due"}
    PROVE  RowMatches
<1>1. row.status \in Ended => tier = "free"
      BY DEF NewTier, Ended
<1>2. ASSUME row.status \in {"active", "trialing"}, PriceToTier(row.price) # None
      PROVE  tier = PriceToTier(row.price)
  <2>1. doing[h].status \notin Ended
        BY <1>2 DEF Ended
  <2>2. TierPrice(h) = row.price
        BY <1>2 DEF TierPrice
  <2> QED
      BY <2>1, <2>2 DEF NewTier
<1> QED
    BY <1>1, <1>2 DEF RowMatches

LEMMA AccountInit == Init => OneOwner /\ AccountFits
BY DEF Init, OneOwner, AccountFits, Owner, Syncing, RowMatches, NoRow, Ended

LEMMA OwnerStep ==
    ASSUME TypeOK, WorkFits, OneOwner, [Next]_vars PROVE OneOwner'
<1> USE DEF OneOwner, Owner, Syncing
<1>1. pc \in [Workers -> Stages]
      BY DEF TypeOK
<1>2. CASE UNCHANGED <<pc, dirty>>
      BY <1>2
<1>3. ASSUME NEW h \in Workers, NEW e \in sent, Deliver(h, e) PROVE OneOwner'
      BY <1>1, <1>3 DEF Deliver, history
<1>4. ASSUME NEW h \in Workers, Step(h) PROVE OneOwner'
  <2> USE <1>1 DEF Goto, Done, Forget, Reads, Writes
  <2>1. CASE \/ ReadUnknown(h) \/ ReadStale(h) \/ ReadFresh(h)
             \/ ReadCheckout(h) \/ FetchPrice(h)
        BY <2>1 DEF ReadUnknown, ReadStale, ReadFresh, ReadCheckout, FetchPrice
  <2>2. CASE Upsert(h)
        BY <2>2 DEF Upsert
  <2>3. CASE SyncSkipped(h) \/ SyncRead(h)
        BY <2>3 DEF SyncSkipped, SyncRead
  <2>4. CASE Move(h) \/ GrantPrograms(h) \/ LogTierChange(h) \/ SetPlan(h)
        BY <2>4 DEF Move, GrantPrograms, LogTierChange, SetPlan
  <2> QED
      BY <1>4, <2>1, <2>2, <2>3, <2>4 DEF Step
<1>5. ASSUME NEW h \in Workers, Fail(h) PROVE OneOwner'
      BY <1>1, <1>5 DEF Fail, Dies, Forget
<1> QED
    BY <1>2, <1>3, <1>4, <1>5 DEF Next, StripeChecksOut, StripeUpdates, StripeDeletes, Send,
       InvoicePaymentFailed, vars, locals, history

\* What a delivery has not touched it still says.
LEMMA SameDelivery ==
    ASSUME NEW g, doing'[g] = doing[g], held'[g] = held[g]
    PROVE  /\ PriceId(g)' = PriceId(g) /\ NewTier(g)' = NewTier(g)
           /\ Skips(g)' = Skips(g) /\ IsCheckout(g)' = IsCheckout(g)
BY DEF PriceId, NewTier, TierPrice, Skips, IsCheckout

\* A step that reads takes the account nowhere: the owner, if it is another
\* one, is what it was.
LEMMA ReadKeeps ==
    ASSUME TypeOK, WorkFits, AccountFits, NEW h \in Workers,
           UNCHANGED <<row, account, torn, overlapped>>,
           \A g \in Workers \ {h} : /\ pc'[g] = pc[g] /\ doing'[g] = doing[g]
                                    /\ held'[g] = held[g],
           dirty' \in {dirty, dirty \ {h}},
           pc[h] \notin Syncing, pc'[h] \notin Syncing
    PROVE  AccountFits'
<1>1. Stuck' = Stuck
      BY DEF Stuck, Moving
<1>2. \A g \in Workers : Owner(g)' <=> Owner(g)
      BY DEF Owner
<1>3. \A g \in Workers : Owner(g) => g # h
      BY DEF Owner
<1>4. \A g \in Workers : Owner(g) /\ OwnerFits(g) => OwnerFits(g)'
  <2>1. SUFFICES ASSUME NEW g \in Workers, Owner(g), OwnerFits(g) PROVE OwnerFits(g)'
        OBVIOUS
  <2>2. g # h /\ pc'[g] = pc[g] /\ doing'[g] = doing[g] /\ held'[g] = held[g]
        BY <1>3, <2>1
  <2>3. PriceId(g)' = PriceId(g) /\ NewTier(g)' = NewTier(g)
        BY <2>2, SameDelivery
  <2> QED
      BY <2>1, <2>2, <2>3 DEF OwnerFits, account
<1>5. RowMatches' = RowMatches
      BY DEF RowMatches, account
<1>6. \A g \in Workers : Owner(g) => pc'[g] = pc[g]
      BY <1>3
<1> QED
    BY <1>1, <1>2, <1>4, <1>5, <1>6 DEF AccountFits, account

\* A step that writes finds nobody else half way, or it writes behind another's
\* back.
LEMMA WriteAlone ==
    ASSUME NEW h \in Workers, Writes(h), \A g \in Workers \ {h} : pc'[g] = pc[g],
           ~overlapped', ~Stuck'
    PROVE  /\ h \notin dirty /\ ~overlapped /\ ~Stuck
           /\ \A g \in Workers \ {h} : pc[g] \notin Moving /\ ~Owner(g)'
<1>1. h \notin dirty /\ ~overlapped
      BY DEF Writes
<1>2. \A g \in Workers \ {h} : pc[g] \in Syncing => g \in dirty'
      BY DEF Writes, Syncing
<1>3. \A g \in Workers \ {h} : pc[g] \notin Moving /\ ~Owner(g)'
      BY <1>2 DEF Stuck, Owner, Moving
<1>4. ~Stuck
      BY <1>1, <1>3 DEF Stuck
<1> QED
    BY <1>1, <1>3, <1>4

LEMMA AccountStep ==
    ASSUME TypeOK, SentFits, WorkFits, OneOwner, AccountFits, [Next]_vars
    PROVE  AccountFits'
<1>1. pc \in [Workers -> Stages] /\ doing \in [Workers -> Events \cup {NoEvent}] /\ row \in Rows
      BY DEF TypeOK
<1> USE DEF account
<1>2. CASE StripeChecksOut \/ StripeUpdates \/ StripeDeletes
  <2>1. PICK e : Announce(e)
        BY <1>2, StripeAnnounces
  <2>2. UNCHANGED <<locals, row, account, dirty, overlapped, torn>>
        BY <2>1 DEF Announce, Send, history
  <2> QED
      BY <2>2 DEF AccountFits, Stuck, Owner, OwnerFits, RowMatches, PriceId, NewTier, TierPrice,
                  IsCheckout, locals
<1>3. CASE InvoicePaymentFailed
  <2>1. /\ UNCHANGED <<locals, account, dirty, overlapped, torn>>
        /\ row'.status = "past_due" /\ row'.price = row.price
        BY <1>1, <1>3 DEF InvoicePaymentFailed, history, Rows
  <2>2. RowMatches'
        BY <2>1 DEF RowMatches, Ended
  <2>3. \A h \in Workers : OwnerFits(h) => OwnerFits(h)'
        BY <2>1 DEF OwnerFits, PriceId, NewTier, TierPrice, IsCheckout, locals
  <2> QED
      BY <2>1, <2>2, <2>3 DEF AccountFits, Stuck, Owner, locals
<1>4. ASSUME NEW h \in Workers, NEW e \in sent, Deliver(h, e) PROVE AccountFits'
      BY <1>1, <1>4, ReadKeeps DEF Deliver, history, Syncing
<1>5. ASSUME NEW h \in Workers, Step(h) PROVE AccountFits'
  <2> USE <1>1 DEF Goto
  <2>1. CASE ReadStale(h)
        BY <2>1, ReadKeeps DEF ReadStale, Done, Forget, Reads, Syncing
  <2>10. CASE ReadUnknown(h)
        BY <2>10, ReadKeeps DEF ReadUnknown, Done, Forget, Reads, Syncing
  <2>2. CASE ReadFresh(h)
        BY <2>2, ReadKeeps DEF ReadFresh, Reads, Syncing
  <2>3. CASE ReadCheckout(h)
        BY <2>3, ReadKeeps DEF ReadCheckout, Reads, Syncing
  <2>4. CASE FetchPrice(h)
        BY <2>4, ReadKeeps DEF FetchPrice, Reads, Syncing
  <2> DEFINE Whole == ~torn /\ ~overlapped /\ ~Stuck
  <2>5. CASE Upsert(h)
    <3>1. SUFFICES ASSUME Whole' PROVE AccountFits'
          BY DEF AccountFits
    <3>2. /\ h \notin dirty /\ Whole
          /\ \A g \in Workers \ {h} : pc[g] \notin Moving /\ ~Owner(g)'
          BY <2>5, <3>1, WriteAlone DEF Upsert, Writes
    <3>3. pc'[h] = "sync" /\ Owner(h)'
          BY <2>5, <3>2 DEF Upsert, Writes, Owner, Syncing
    <3>4. OwnerFits(h)'
      <4>1. PriceId(h)' = PriceId(h) /\ row'.price = PriceId(h) /\ row'.status = doing'[h].status
            BY <2>5, SameDelivery DEF Upsert
      <4> QED
          BY <3>3, <4>1 DEF OwnerFits
    <3>5. \A g \in Workers : pc[g] \notin {"programs", "audit"}
          BY <2>5, <3>2 DEF Upsert, Moving, Syncing
    <3>6. (tier # "free" => programs) /\ audit = tier
          BY <3>2, <3>5 DEF AccountFits
    <3> QED
        BY <2>5, <3>2, <3>3, <3>4, <3>6 DEF AccountFits, Upsert
  <2>6. CASE SyncSkipped(h)
    <3>1. SUFFICES ASSUME Whole' PROVE AccountFits'
          BY DEF AccountFits
    <3>2. /\ UNCHANGED <<row, account, torn, overlapped>> /\ dirty' = dirty \ {h} /\ pc'[h] = "idle"
          /\ \A g \in Workers \ {h} : /\ pc'[g] = pc[g] /\ doing'[g] = doing[g]
                                       /\ held'[g] = held[g]
          BY <2>6 DEF SyncSkipped, Done, Forget, Reads
    <3>3. pc[h] = "sync" /\ Skips(h)
          BY <2>6 DEF SyncSkipped
    <3>4. Whole
          BY <3>1, <3>2, <3>3 DEF Stuck, Moving
    <3>5. \A g \in Workers : Owner(g)' <=> g # h /\ Owner(g)
          BY <3>2 DEF Owner, Syncing
    <3>6. \A g \in Workers : Owner(g)' => OwnerFits(g)'
      <4>1. SUFFICES ASSUME NEW g \in Workers \ {h}, Owner(g) PROVE OwnerFits(g)'
            BY <3>5
      <4>2. OwnerFits(g)
            BY <3>4, <4>1 DEF AccountFits
      <4>3. PriceId(g)' = PriceId(g) /\ NewTier(g)' = NewTier(g)
            BY <3>2, SameDelivery
      <4> QED
          BY <3>2, <4>2, <4>3 DEF OwnerFits
    <3>7. RowMatches \/ \E g \in Workers \ {h} : Owner(g)
      <4>1. CASE Owner(h)
        <5>1. row.price = PriceId(h) /\ row.status \in {doing[h].status, "past_due"}
              BY <3>4, <4>1 DEF AccountFits, OwnerFits
        <5> QED
            BY <3>3, <5>1, SkippedMatches
      <4>2. CASE ~Owner(h)
            BY <3>4, <4>2 DEF AccountFits
      <4> QED
          BY <4>1, <4>2
    <3>8. RowMatches' = RowMatches
          BY <3>2 DEF RowMatches
    <3> QED
        BY <3>2, <3>3, <3>4, <3>5, <3>6, <3>7, <3>8 DEF AccountFits
  <2>7. CASE SyncRead(h)
    <3>1. SUFFICES ASSUME Whole' PROVE AccountFits'
          BY DEF AccountFits
    <3>2. /\ UNCHANGED <<row, account, torn, overlapped, doing, held>> /\ dirty' = dirty
          /\ \A g \in Workers \ {h} : pc'[g] = pc[g]
          /\ pc'[h] = (IF NewTier(h) = tier THEN "plan" ELSE "move") /\ pc[h] = "sync"
          BY <2>7 DEF SyncRead, Reads
    <3>3. h \notin dirty /\ Whole
          BY <3>1, <3>2 DEF Stuck, Moving, Syncing
    <3>4. \A g \in Workers : Owner(g)' <=> Owner(g)
          BY <3>2 DEF Owner, Syncing
    <3>5. \A g \in Workers : Owner(g) => OwnerFits(g)'
      <4>1. SUFFICES ASSUME NEW g \in Workers, Owner(g) PROVE OwnerFits(g)'
            OBVIOUS
      <4>2. OwnerFits(g)
            BY <3>3, <4>1 DEF AccountFits
      <4>3. PriceId(g)' = PriceId(g) /\ NewTier(g)' = NewTier(g)
            BY <3>2, SameDelivery
      <4> QED
          BY <3>2, <4>2, <4>3 DEF OwnerFits
    <3>6. RowMatches' = RowMatches
          BY <3>2 DEF RowMatches
    <3>7. \A g \in Workers : pc[g] \in {"programs", "audit"} => pc'[g] = pc[g]
          BY <3>2
    <3> QED
        BY <3>2, <3>3, <3>4, <3>5, <3>6, <3>7 DEF AccountFits
  <2>8. CASE Move(h) \/ GrantPrograms(h) \/ LogTierChange(h)
    <3>1. SUFFICES ASSUME Whole' PROVE AccountFits'
          BY DEF AccountFits
    <3>2. /\ UNCHANGED <<row, doing, held>> /\ Writes(h)
          /\ \A g \in Workers \ {h} : pc'[g] = pc[g]
          BY <2>8 DEF Move, GrantPrograms, LogTierChange
    <3>3. /\ h \notin dirty /\ Whole
          /\ \A g \in Workers \ {h} : pc[g] \notin Moving /\ ~Owner(g)'
          BY <3>1, <3>2, WriteAlone DEF Writes
    <3>4. Owner(h) /\ Owner(h)' /\ h \in Workers
          BY <2>8, <3>2, <3>3 DEF Move, GrantPrograms, LogTierChange, Writes, Owner, Syncing
    <3>5. OwnerFits(h)
          BY <3>3, <3>4 DEF AccountFits
    <3>6. PriceId(h)' = PriceId(h) /\ NewTier(h)' = NewTier(h)
          BY <3>2, SameDelivery
    <3>7. \A g \in Workers : Owner(g) => g = h
          BY <3>4 DEF OneOwner
    <3>8. CASE Move(h)
      <4>1. \A g \in Workers : pc[g] \notin {"programs", "audit"}
            BY <3>3, <3>8 DEF Move, Moving, Syncing
      <4>2. (tier # "free" => programs) /\ audit = tier
            BY <3>3, <4>1 DEF AccountFits
      <4>3. /\ tier' = NewTier(h) /\ UNCHANGED <<programs, audit>>
            /\ pc'[h] = IF HasPrograms(h) THEN "programs" ELSE "audit"
            BY <3>8 DEF Move
      <4>4. OwnerFits(h)'
            BY <3>2, <3>5, <3>6, <4>3 DEF OwnerFits
      <4>5. tier' # "free" => pc'[h] = "programs"
            BY <4>3 DEF HasPrograms
      <4> QED
          BY <3>3, <3>4, <4>3, <4>4, <4>5 DEF AccountFits
    <3>9. CASE GrantPrograms(h)
      <4>1. UNCHANGED <<tier, audit>> /\ programs' = TRUE /\ pc'[h] = "audit" /\ pc[h] = "programs"
            BY <3>9 DEF GrantPrograms
      <4>2. OwnerFits(h)'
            BY <3>2, <3>5, <3>6, <4>1 DEF OwnerFits
      <4> QED
          BY <3>3, <3>4, <4>1, <4>2 DEF AccountFits
    <3>10. CASE LogTierChange(h)
      <4>1. /\ UNCHANGED <<tier, programs>> /\ audit' = NewTier(h)
            /\ pc'[h] = "plan" /\ pc[h] = "audit"
            BY <3>10 DEF LogTierChange
      <4>2. OwnerFits(h)' /\ audit' = tier'
            BY <3>2, <3>5, <3>6, <4>1 DEF OwnerFits
      <4>3. tier # "free" => programs
            BY <3>3, <3>7, <4>1 DEF AccountFits
      <4> QED
          BY <3>3, <3>4, <4>1, <4>2, <4>3 DEF AccountFits
    <3> QED
        BY <2>8, <3>8, <3>9, <3>10
  <2>9. CASE SetPlan(h)
    <3>1. SUFFICES ASSUME Whole' PROVE AccountFits'
          BY DEF AccountFits
    <3>2. /\ UNCHANGED <<row, tier, programs, audit>> /\ Writes(h) /\ pc[h] = "plan"
          /\ pc'[h] = "idle" /\ \A g \in Workers \ {h} : pc'[g] = pc[g]
          BY <2>9 DEF SetPlan, Done, Forget
    <3>3. /\ h \notin dirty /\ Whole
          /\ \A g \in Workers \ {h} : pc[g] \notin Moving /\ ~Owner(g)'
          BY <3>1, <3>2, WriteAlone DEF Writes
    <3>4. Owner(h) /\ ~Owner(h)' /\ ~Skips(h)
          BY <3>2, <3>3 DEF Owner, Syncing, Moving, WorkFits
    <3>5. OwnerFits(h) /\ tier = NewTier(h)
          BY <3>2, <3>3, <3>4 DEF AccountFits, OwnerFits
    <3>6. RowMatches
          BY <3>4, <3>5, MovedMatches DEF OwnerFits
    <3>7. RowMatches'
          BY <3>2, <3>6 DEF RowMatches
    <3>8. \A g \in Workers : Owner(g) => g = h
          BY <3>4 DEF OneOwner
    <3>9. (tier # "free" => programs) /\ audit = tier
          BY <3>2, <3>3, <3>8 DEF AccountFits
    <3> QED
        BY <3>2, <3>3, <3>4, <3>7, <3>9 DEF AccountFits
  <2> QED
      BY <1>5, <2>1, <2>2, <2>3, <2>4, <2>5, <2>6, <2>7, <2>8, <2>9, <2>10 DEF Step
<1>6. ASSUME NEW h \in Workers, Fail(h) PROVE AccountFits'
  <2>1. CASE pc[h] \in Syncing
        BY <1>6, <2>1 DEF Fail, Dies, Syncing, AccountFits
  <2>2. CASE pc[h] \notin Syncing
    <3>1. torn' = torn
          BY <1>6, <2>2 DEF Fail, Dies, Syncing, TypeOK
    <3> QED
        BY <1>1, <1>6, <2>2, <3>1, ReadKeeps DEF Fail, Dies, Forget, Syncing
  <2> QED
      BY <2>1, <2>2
<1>7. CASE UNCHANGED vars
      BY <1>7 DEF vars, locals, history, AccountFits, Stuck, Owner, OwnerFits, RowMatches, PriceId,
                  NewTier, TierPrice, IsCheckout
<1> QED
    BY <1>2, <1>3, <1>4, <1>5, <1>6, <1>7 DEF Next

-----------------------------------------------------------------------------
(* Theorems *)

IInv ==
    /\ TypeOK /\ SentFits /\ WorkFits
    /\ RowFits /\ AckedCovered /\ RowHolds
    /\ OneOwner /\ AccountFits

LEMMA Invariance == Spec => []IInv
<1>1. Init => IInv
  <2>1. Init => AckedCovered /\ RowHolds
        BY DEF Init, AckedCovered, RowHolds, Numbered, NoRow
  <2> QED
      BY <2>1, InitHolds, AccountInit DEF IInv
<1>2. IInv /\ [Next]_vars => IInv'
      BY TypeStep, SentStep, WorkStep, RowStep, HoldsStep, OwnerStep, AccountStep DEF IInv
<1> QED
    BY <1>1, <1>2, PTL DEF Spec

\* The row, the account and the deliveries keep their types: what a delivery
\* moves the account to is a tier, and what it stores a price.
THEOREM TypeCorrect == Spec => []TypeOK
<1>1. IInv => TypeOK
      BY DEF IInv
<1> QED
    BY <1>1, Invariance, PTL

\* For any number of deliveries, replays and failures, an event of a subscription
\* that was answered for an account is stored, status and price, or older than what
\* is (handleSubscriptionEvent): nothing but a checkout, a failed invoice, another
\* event of its second or a delivery behind another's back writes over it.
THEOREM AnsweredIsStored == Spec => []AckedIsStored
<1>1. IInv => AckedIsStored
      BY CoveredIsStored DEF IInv
<1> QED
    BY <1>1, Invariance, PTL

\* When no delivery is under way the account has the tier that the row asks for,
\* its programs and its audit row (syncTierFromStripeSubscription), for any
\* number of deliveries, unless one has died half way or has written behind
\* another's back.
THEOREM QuietAccountFollows == Spec => []AccountFollowsRow
<1>1. IInv => AccountFollowsRow
  <2>1. SUFFICES ASSUME IInv, Quiet, ~torn, ~overlapped
                 PROVE  RowMatches /\ (tier # "free" => programs) /\ audit = tier
        BY DEF AccountFollowsRow, RowMatches
  <2>2. ~Stuck /\ \A h \in Workers : ~Owner(h)
        BY <2>1 DEF Quiet, Stuck, Owner, Moving, Syncing
  <2> QED
      BY <2>1, <2>2 DEF IInv, AccountFits
<1> QED
    BY <1>1, Invariance, PTL
=============================================================================
