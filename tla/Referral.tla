------------------------------ MODULE Referral -------------------------------
(***************************************************************************)
(* The referral row of one account (packages/snapshots/src/                *)
(* referral-store.ts): paid calls counted towards the one free call, free  *)
(* calls consumed, referrals rewarded up to a cap, and the reset of what   *)
(* was earned when the calendar month turns.                               *)
(*                                                                         *)
(* None of these runs in a transaction: every SELECT, INSERT and UPDATE is *)
(* a step, requests interleave between them, and a request may die between *)
(* two of them.                                                            *)
(***************************************************************************)
EXTENDS Integers, FiniteSets

CONSTANTS
    Payments,     \* cash settlements that call recordPaidCall
    FreeTries,    \* overages that try consumeFreeCall
    Conversions,  \* calls that bring a referral_token of this account
    Referees,
    RefereeOf,    \* the account behind each conversion
    Readers,      \* getReferralCredits, before a charge is computed
    PaidForFree,  \* paid calls that earn the free call: 4
    MaxEarned,    \* MAX_EARNED_MILLICENTS: 20
    LastMonth,    \* bound on months: 0..LastMonth
    Deaths        \* TRUE: a request may die between two statements

Procs == Payments \cup FreeTries \cup Conversions \cup Readers
Months == 0..LastMonth

ASSUME ProcsAssumption ==
    /\ Payments \cap (FreeTries \cup Conversions \cup Readers) = {}
    /\ FreeTries \cap (Conversions \cup Readers) = {}
    /\ Conversions \cap Readers = {}
    /\ RefereeOf \in [Conversions -> Referees]
    /\ IsFiniteSet(Conversions) /\ IsFiniteSet(Payments)
ASSUME AmountsAssumption ==
    /\ PaidForFree \in Nat \ {0}
    /\ MaxEarned \in Nat \ {0}
    /\ LastMonth \in Nat
ASSUME FlagsAssumption == Deaths \in BOOLEAN

VARIABLES
    month,
    earned,     \* earned_credits_millicents; a reward is 1
    lifetime,   \* lifetime_referrals
    free,       \* free_calls_remaining
    given,      \* initial_grant_given
    paidCalls,  \* paid_call_count
    resetIn,    \* the month of last_reset_at
    converted,  \* referral_conversions: the referees
    pc,         \* where each request is
    seen,       \* the month of a reader's nowIso
    used,       \* history: free calls consumed
    raced,      \* history: payments that found no grant while one was on its way
    thisMonth   \* history: rewards of the month that is running

vars == <<month, earned, lifetime, free, given, paidCalls, resetIn, converted,
          pc, seen, used, raced, thisMonth>>

Stages == {"idle", "counted", "grant", "checked", "inserted",
           "reading", "stale", "done"}

TypeOK ==
    /\ month \in Months
    /\ earned \in 0..MaxEarned
    /\ lifetime \in Nat
    /\ free \in {0, 1}
    /\ given \in BOOLEAN
    /\ paidCalls \in Nat
    /\ resetIn \in Months
    /\ converted \subseteq Referees
    /\ pc \in [Procs -> Stages]
    /\ seen \in [Readers -> Months]
    /\ used \in Nat
    /\ raced \subseteq Payments
    /\ thisMonth \in Nat

\* The row is as ensureReferralCredits inserts it.
Init ==
    /\ month = 0
    /\ earned = 0
    /\ lifetime = 0
    /\ free = 0
    /\ given = FALSE
    /\ paidCalls = 0
    /\ resetIn = 0
    /\ converted = {}
    /\ pc = [p \in Procs |-> "idle"]
    /\ seen = [p \in Readers |-> 0]
    /\ used = 0
    /\ raced = {}
    /\ thisMonth = 0

Goto(p, stage) == pc' = [pc EXCEPT ![p] = stage]

Rewards == <<earned, lifetime, resetIn, converted, thisMonth>>
FreeCalls == <<free, given, paidCalls, used, raced>>

-----------------------------------------------------------------------------
(* recordPaidCall and consumeFreeCall *)

CountPaidCall(p) ==
    /\ pc[p] = "idle"
    /\ paidCalls' = paidCalls + 1
    /\ Goto(p, "counted")
    /\ UNCHANGED <<month, Rewards, free, given, used, raced, seen>>

\* The SELECT after the UPDATE. Nothing locks the row up to the grant, so payments
\* that read it before the first of them wrote all go on to grant.
ReadBackIf(p, due) ==
    /\ pc[p] = "counted"
    /\ Goto(p, IF due THEN "grant" ELSE "done")
    /\ raced' = IF due /\ \E q \in Payments : pc[q] = "grant" THEN raced \cup {p} ELSE raced
    /\ UNCHANGED <<month, Rewards, free, given, paidCalls, used, seen>>

\* Faulty variant: initial_grant_given is not looked at.
ReadBackCountOnly(p) == ReadBackIf(p, paidCalls >= PaidForFree)

ReadBack(p) == ReadBackIf(p, paidCalls >= PaidForFree /\ ~given)

GrantFreeCall(p) ==
    /\ pc[p] = "grant"
    /\ free' = 1
    /\ given' = TRUE
    /\ Goto(p, "done")
    /\ UNCHANGED <<month, Rewards, paidCalls, used, raced, seen>>

\* One guarded UPDATE.
ConsumeFreeCall(p) ==
    /\ pc[p] = "idle"
    /\ IF free > 0
       THEN free' = free - 1 /\ used' = used + 1
       ELSE UNCHANGED <<free, used>>
    /\ Goto(p, "done")
    /\ UNCHANGED <<month, Rewards, given, paidCalls, raced, seen>>

-----------------------------------------------------------------------------
(* recordReferralConversion *)

CheckConverted(p) ==
    /\ pc[p] = "idle"
    /\ Goto(p, IF RefereeOf[p] \in converted THEN "done" ELSE "checked")
    /\ UNCHANGED <<month, Rewards, FreeCalls, seen>>

\* referee_account_id is UNIQUE: the INSERT of the slower request throws.
InsertConversion(p) ==
    /\ pc[p] = "checked"
    /\ Goto(p, IF RefereeOf[p] \in converted THEN "done" ELSE "inserted")
    /\ converted' = converted \cup {RefereeOf[p]}
    /\ UNCHANGED <<month, earned, lifetime, resetIn, thisMonth, FreeCalls, seen>>

Reward(p) ==
    /\ pc[p] = "inserted"
    /\ earned' = IF earned + 1 < MaxEarned THEN earned + 1 ELSE MaxEarned
    /\ lifetime' = lifetime + 1
    /\ thisMonth' = thisMonth + 1
    /\ Goto(p, "done")
    /\ UNCHANGED <<month, resetIn, converted, FreeCalls, seen>>

-----------------------------------------------------------------------------
(* getReferralCredits: the reset of a row from an earlier month *)

\* nowIso is taken before the SELECT, ...
StartRead(p) ==
    /\ pc[p] = "idle"
    /\ seen' = [seen EXCEPT ![p] = month]
    /\ Goto(p, "reading")
    /\ UNCHANGED <<month, Rewards, FreeCalls>>

ReadResetMonth(p) ==
    /\ pc[p] = "reading"
    /\ Goto(p, IF resetIn = seen[p] THEN "done" ELSE "stale")
    /\ UNCHANGED <<month, Rewards, FreeCalls, seen>>

\* Faulty variant: the reset stamps the row and leaves what was earned.
ResetStampOnly(p) ==
    /\ pc[p] = "stale"
    /\ resetIn' = seen[p]
    /\ Goto(p, "done")
    /\ UNCHANGED <<month, earned, lifetime, converted, thisMonth, FreeCalls, seen>>

\* ... and the UPDATE carries it.
ResetEarned(p) ==
    /\ pc[p] = "stale"
    /\ earned' = 0
    /\ resetIn' = seen[p]
    /\ Goto(p, "done")
    /\ UNCHANGED <<month, lifetime, converted, thisMonth, FreeCalls, seen>>

-----------------------------------------------------------------------------

NextMonth ==
    /\ month < LastMonth
    /\ month' = month + 1
    /\ thisMonth' = 0
    /\ UNCHANGED <<earned, lifetime, resetIn, converted, FreeCalls, pc, seen>>

\* The request's process dies, or a statement throws.
Die(p) ==
    /\ Deaths
    /\ pc[p] \in Stages \ {"idle", "done"}
    /\ Goto(p, "done")
    /\ UNCHANGED <<month, Rewards, FreeCalls, seen>>

Next ==
    \/ \E p \in Payments : CountPaidCall(p) \/ ReadBack(p) \/ GrantFreeCall(p)
    \/ \E p \in FreeTries : ConsumeFreeCall(p)
    \/ \E p \in Conversions : CheckConverted(p) \/ InsertConversion(p) \/ Reward(p)
    \/ \E p \in Readers : StartRead(p) \/ ReadResetMonth(p) \/ ResetEarned(p)
    \/ \E p \in Procs : Die(p)
    \/ NextMonth

Spec == Init /\ [][Next]_vars

-----------------------------------------------------------------------------
(* Properties *)

\* Nobody gets the free call before the paid ones.
FreeCallIsEarned == used + free > 0 => paidCalls >= PaidForFree

\* "Granted exactly once per account when count reaches 4" (buildIncentivesSummary):
\* free calls left and consumed are never more than the one and those of payments
\* that read the row while another grant was on its way, and none before the count.
OneFreeCall == used + free <= 1 + Cardinality(raced) /\ FreeCallIsEarned

\* Each referee counts once, however many requests bring the token at a time.
RefereeCountsOnce ==
    lifetime + Cardinality({p \in Conversions : pc[p] = "inserted"}) <= Cardinality(converted)

\* "Earned credits reset to 0 at the start of each calendar month"
\* (buildIncentivesSummary): a row that says it was reset in the running month
\* carries rewards of that month only.
EarnedIsThisMonths == resetIn = month => earned <= thisMonth
=============================================================================
