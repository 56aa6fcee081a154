---------------------------- MODULE UsageCredits -----------------------------
(***************************************************************************)
(* Plan-credit metering of one account: the monthly counter and the usage  *)
(* ledger (packages/snapshots/src/usage-credit-metering.ts) under calls    *)
(* that authorize, work and capture (apps/api/src/mcp-runtime.ts), grants  *)
(* of the compensator, plan changes, the turn of the month and the end of  *)
(* the free trial, all interleaved.                                        *)
(*                                                                         *)
(* A preview reads the month and the plan in one await, and the counter    *)
(* and the trial flag in the next.  A capture gathers month and plan the   *)
(* same way and then runs a transaction under the account's advisory lock, *)
(* in which it reads counter and flag again.  An MCP call with a payment   *)
(* credential goes through the in-band gate first, which collects the      *)
(* previewed overage as cash.  A REST call of an account with a plan is    *)
(* captured first, pays the overage that was captured, works, and is owed  *)
(* its price if the work fails.                                            *)
(***************************************************************************)
EXTENDS CreditMath, FiniteSets

CONSTANTS
    Calls,        \* metered tools/call requests and REST requests
    CreditsOf,    \* credits each call requires
    CashCalls,    \* MCP calls that carry a payment credential
    RestCalls,    \* calls over REST
    PriceOf,      \* cents that chargeWithDiscounts asks for a REST call
    Grants,       \* grantUsageCredits operations of the compensator
    CentsOf,      \* cents each grant makes good
    Plans,
    AllowanceOf,  \* monthly credits of each plan
    FirstPlan,
    TrialAtStart, \* what isFreeTrialActive() may say at first
    LastMonth,    \* bound on months: 0..LastMonth
    None

Procs == Calls \cup Grants
Months == 0..LastMonth

ASSUME ProcsAssumption == Calls \cap Grants = {} /\ None \notin Procs
ASSUME CallsAssumption ==
    /\ CreditsOf \in [Calls -> Nat \ {0}]   \* credits_required is at least 1
    /\ CashCalls \subseteq Calls \ RestCalls
    /\ RestCalls \subseteq Calls
\* The credits of a price, less what referrals have earned.
ASSUME PricesAssumption ==
    /\ PriceOf \in [RestCalls -> Nat]
    /\ \A c \in RestCalls : CreditsOf[c] <= CreditsFromCents(PriceOf[c])
ASSUME GrantsAssumption == CentsOf \in [Grants -> Nat]
ASSUME PlansAssumption ==
    /\ AllowanceOf \in [Plans -> Nat]
    /\ FirstPlan \in Plans
ASSUME TrialAssumption == TrialAtStart \subseteq BOOLEAN
ASSUME MonthsAssumption == LastMonth \in Nat

VARIABLES
    month,     \* the calendar month of Date.now()
    plan,      \* what resolvePlanForAccount answers
    trial,     \* isFreeTrialActive()
    used,      \* usage_credit_monthly.included_credits_used, per month
    ledger,    \* sums of usage_credit_ledger's columns, per month
    lock,      \* who holds pg_advisory_xact_lock(2, account), or None
    pc,        \* where each call or grant is
    inputs,    \* what it gathered: month_key, allowance
    cur,       \* the counter it read inside its transaction
    cash,      \* cents collected for a call (markInbandSettled, over MCP)
    split,     \* history: the ledger row of a captured call
    granted,   \* history: credits granted, per month
    disturbed, \* history: calls during which something else changed the account
    late,      \* history: calls that failed after their capture, not in their work
    owed       \* REST calls with an entry of their price in compensation_ledger

vars == <<month, plan, trial, used, ledger, lock, pc, inputs, cur, cash,
          split, granted, disturbed, late, owed>>

Stages == {"idle", "gated", "auth", "checked", "work", "capture",
           "begin", "locked", "counted", "captured", "paidwork", "erring",
           "answered", "refused", "failed"}

Open == Stages \ {"idle", "captured", "paidwork", "erring", "answered", "refused", "failed"}

Rows == [credits : Nat, included : Nat, overage : Nat, cents : Nat]

TypeOK ==
    /\ month \in Months
    /\ plan \in Plans
    /\ trial \in BOOLEAN
    /\ used \in [Months -> Int]
    /\ ledger \in [Months -> [included : Nat, overage : Nat]]
    /\ lock \in Procs \cup {None}
    /\ pc \in [Procs -> Stages]
    /\ inputs \in [Procs -> [month : Months, allowance : Nat]]
    /\ cur \in [Procs -> Int]
    /\ cash \in [Calls -> Nat]
    /\ split \in [Calls -> Rows]
    /\ granted \in [Months -> Nat]
    /\ disturbed \subseteq Calls
    /\ late \subseteq Calls
    /\ owed \subseteq RestCalls

Init ==
    /\ month = 0
    /\ plan = FirstPlan
    /\ trial \in TrialAtStart
    /\ used = [m \in Months |-> 0]
    /\ ledger = [m \in Months |-> [included |-> 0, overage |-> 0]]
    /\ lock = None
    /\ pc = [p \in Procs |-> "idle"]
    /\ inputs = [p \in Procs |-> [month |-> 0, allowance |-> 0]]
    /\ cur = [p \in Procs |-> 0]
    /\ cash = [c \in Calls |-> 0]
    /\ split = [c \in Calls |-> [credits |-> 0, included |-> 0, overage |-> 0, cents |-> 0]]
    /\ granted = [m \in Months |-> 0]
    /\ disturbed = {}
    /\ late = {} /\ owed = {}

Goto(p, stage) == pc' = [pc EXCEPT ![p] = stage]

\* Everybody else whose call is open has the account change under it.
Disturb(p) == disturbed' = disturbed \cup {c \in Calls \ {p} : pc[c] \in Open}

\* gatherChargeInputs
Gather(p) ==
    inputs' = [inputs EXCEPT ![p] = [month |-> month, allowance |-> AllowanceOf[plan]]]

\* splitFromUsed, on the inputs the call gathered.
SplitOf(c, counter) == SplitFromUsed(inputs[c].allowance, CreditsOf[c], counter, trial)

\* The rest of a preview: the counter of the gathered month, read without a lock.
PreviewCents(c) == SplitOf(c, used[inputs[c].month]).cents

-----------------------------------------------------------------------------
(* Gate, authorization, work *)

\* The first half of a preview: previewMcpToolOverage's in the gate, if the call
\* carries a credential, and authorizeMcpToolCredits's in dispatch.
StartPreview(c) ==
    /\ \/ /\ pc[c] = "idle" /\ c \notin RestCalls
          /\ Goto(c, IF c \in CashCalls THEN "gated" ELSE "checked")
       \/ pc[c] = "auth" /\ Goto(c, "checked")
    /\ Gather(c)
    /\ UNCHANGED <<month, plan, trial, used, ledger, lock, cur, cash, split,
                   granted, disturbed, late, owed>>

\* settleMcpCallInband: the previewed overage is collected, the payment rail
\* refuses it and the call stops, or no rail is configured and dispatch goes on.
Settle(c) ==
    /\ pc[c] = "gated"
    /\ \/ /\ cash' = [cash EXCEPT ![c] = PreviewCents(c)]
          /\ Goto(c, "auth")
       \/ /\ PreviewCents(c) > 0
          /\ Goto(c, "refused") \/ Goto(c, "auth")
          /\ UNCHANGED cash
    /\ UNCHANGED <<month, plan, trial, used, ledger, lock, inputs, cur, split,
                   granted, disturbed, late, owed>>

\* Faulty variant: an overage nobody collected does not stop the call.
AuthorizeUnpaid(c) ==
    /\ pc[c] = "checked"
    /\ Goto(c, "work")
    /\ UNCHANGED <<month, plan, trial, used, ledger, lock, inputs, cur, cash,
                   split, granted, disturbed, late, owed>>

\* authorizeAmount throws a 402 unless nothing is due or the gate has collected.
Authorize(c) ==
    /\ pc[c] = "checked"
    /\ Goto(c, IF PreviewCents(c) > 0 /\ cash[c] = 0 THEN "refused" ELSE "work")
    /\ UNCHANGED <<month, plan, trial, used, ledger, lock, inputs, cur, cash,
                   split, granted, disturbed, late, owed>>

Work(c) ==
    /\ pc[c] = "work"
    /\ Goto(c, "capture") \/ Goto(c, "failed")
    /\ UNCHANGED <<month, plan, trial, used, ledger, lock, inputs, cur, cash,
                   split, granted, disturbed, late, owed>>

-----------------------------------------------------------------------------
(* captureMcpToolCredits -> consumeUsageCredits, and grantUsageCredits *)

\* The inputs are gathered on the pool, before the transaction.
StartTx(p) ==
    /\ \/ p \in Calls /\ pc[p] = "capture"
       \/ p \in RestCalls /\ pc[p] = "idle"
       \/ p \in Grants /\ pc[p] = "idle" /\ CentsOf[p] > 0
    /\ Gather(p)
    /\ Goto(p, "begin")
    /\ UNCHANGED <<month, plan, trial, used, ledger, lock, cur, cash, split,
                   granted, disturbed, late, owed>>

\* Faulty variant: no advisory lock.
LockUnheld(p) ==
    /\ pc[p] = "begin"
    /\ Goto(p, "locked")
    /\ UNCHANGED <<month, plan, trial, used, ledger, lock, inputs, cur, cash, split,
                   granted, disturbed, late, owed>>

Lock(p) ==
    /\ pc[p] = "begin"
    /\ lock = None
    /\ lock' = p
    /\ Goto(p, "locked")
    /\ UNCHANGED <<month, plan, trial, used, ledger, inputs, cur, cash, split,
                   granted, disturbed, late, owed>>

ReadCounter(p) ==
    /\ pc[p] = "locked"
    /\ cur' = [cur EXCEPT ![p] = used[inputs[p].month]]
    /\ Goto(p, "counted")
    /\ UNCHANGED <<month, plan, trial, used, ledger, lock, inputs, cash, split,
                   granted, disturbed, late, owed>>

\* The upsert, the ledger row and the COMMIT, which also frees the lock.
Write(c) ==
    LET m == inputs[c].month
        s == SplitOf(c, cur[c])
    IN  /\ used' = [used EXCEPT ![m] = cur[c] + s.included]
        /\ ledger' = [ledger EXCEPT ![m] = [included |-> @.included + s.included,
                                            overage  |-> @.overage + s.overage]]
        /\ split' = [split EXCEPT ![c] = s]

Consume(c) ==
    /\ pc[c] = "counted"
    /\ Write(c)
    /\ lock' = None
    /\ Goto(c, "captured")
    /\ Disturb(c)
    /\ UNCHANGED <<month, plan, trial, inputs, cur, cash, granted, late, owed>>

\* A call fails after its capture, and not in its work.
FailLate(c) ==
    /\ Goto(c, "failed")
    /\ late' = late \cup {c}

\* What dispatch still awaits after the capture: the COMMIT's own answer, the
\* completion of the idempotency claim and the balances of the _usage block.
Reply(c) ==
    /\ pc[c] = "captured" /\ c \notin RestCalls
    /\ \/ Goto(c, "answered") /\ UNCHANGED late
       \/ FailLate(c)
    /\ UNCHANGED <<month, plan, trial, used, ledger, lock, inputs, cur, cash,
                   split, granted, disturbed, owed>>

Grant(g) ==
    /\ pc[g] = "counted"
    /\ LET m == inputs[g].month
           credits == CreditsFromCents(CentsOf[g])
       IN  /\ used' = [used EXCEPT ![m] = cur[g] - credits]
           /\ granted' = [granted EXCEPT ![m] = @ + credits]
    /\ lock' = None
    /\ Goto(g, "captured")
    /\ Disturb(g)
    /\ UNCHANGED <<month, plan, trial, ledger, inputs, cur, cash, split, late, owed>>

\* A statement of the transaction throws: ROLLBACK, and the call fails.
Rollback(p) ==
    /\ pc[p] \in {"locked", "counted"}
    /\ lock' = None
    /\ Goto(p, "failed")
    /\ UNCHANGED <<month, plan, trial, used, ledger, inputs, cur, cash, split,
                   granted, disturbed, late, owed>>

-----------------------------------------------------------------------------
(* chargeWithDiscounts and the REST handlers; an account of the free tier pays
   the price in cash and has nothing to do with credits here *)

\* chargeWithDiscounts after its capture: the overage is collected (by the free
\* call, the wallet or mppx), or the call is refused, debited as it is, or the
\* collection throws, before or after the money has moved.
Collect(c) ==
    /\ pc[c] = "captured"
    /\ \/ /\ cash' = [cash EXCEPT ![c] = split[c].cents]
          /\ Goto(c, "paidwork") /\ UNCHANGED late
       \/ /\ split[c].cents > 0
          /\ Goto(c, "refused")
          /\ UNCHANGED <<cash, late>>
       \/ /\ FailLate(c)
          /\ cash' \in {cash, [cash EXCEPT ![c] = split[c].cents]}
    /\ UNCHANGED <<month, plan, trial, used, ledger, lock, inputs, cur, split,
                   granted, disturbed, owed>>

\* What a REST call has paid for is made, or it throws.
PaidWork(c) ==
    /\ pc[c] = "paidwork"
    /\ Goto(c, "answered") \/ Goto(c, "erring")
    /\ UNCHANGED <<month, plan, trial, used, ledger, lock, inputs, cur, cash,
                   split, granted, disturbed, late, owed>>

\* Faulty variant: who has paid no cash is owed nothing.
CompensateCash(c) ==
    /\ pc[c] = "erring"
    /\ owed' = IF cash[c] > 0 THEN owed \cup {c} ELSE owed
    /\ Goto(c, "failed")
    /\ UNCHANGED <<month, plan, trial, used, ledger, lock, inputs, cur, cash,
                   split, granted, disturbed, late>>

\* compensateIfChargedBeforeFailure: the whole price is owed, however it was
\* paid; or the entry cannot be written.
Compensate(c) ==
    /\ pc[c] = "erring"
    /\ \/ owed' = owed \cup {c} /\ Goto(c, "failed") /\ UNCHANGED late
       \/ FailLate(c) /\ UNCHANGED owed
    /\ UNCHANGED <<month, plan, trial, used, ledger, lock, inputs, cur, cash,
                   split, granted, disturbed>>

-----------------------------------------------------------------------------
(* What happens to the account meanwhile *)

NextMonth ==
    /\ month < LastMonth
    /\ month' = month + 1
    /\ Disturb(None)
    /\ UNCHANGED <<plan, trial, used, ledger, lock, pc, inputs, cur, cash, split, granted, late, owed>>

ChangePlan ==
    /\ \E p \in Plans \ {plan} : plan' = p
    /\ Disturb(None)
    /\ UNCHANGED <<month, trial, used, ledger, lock, pc, inputs, cur, cash, split, granted, late, owed>>

EndTrial ==
    /\ trial
    /\ trial' = FALSE
    /\ Disturb(None)
    /\ UNCHANGED <<month, plan, used, ledger, lock, pc, inputs, cur, cash, split, granted, late, owed>>

-----------------------------------------------------------------------------

RestStep(c) == Collect(c) \/ PaidWork(c) \/ Compensate(c)

CallStep(c) ==
    \/ StartPreview(c) \/ Settle(c) \/ Authorize(c) \/ Work(c)
    \/ Consume(c) \/ Reply(c)
    \/ c \in RestCalls /\ RestStep(c)

TxStep(p) == StartTx(p) \/ Lock(p) \/ ReadCounter(p) \/ Rollback(p)

Next ==
    \/ \E c \in Calls : CallStep(c)
    \/ \E g \in Grants : Grant(g)
    \/ \E p \in Procs : TxStep(p)
    \/ NextMonth \/ ChangePlan \/ EndTrial

Spec == Init /\ [][Next]_vars

-----------------------------------------------------------------------------
(* Properties *)

\* No capture or grant is lost or applied twice: in every month the counter is
\* what the ledger says was taken from the plan less what was granted.
CounterIsLedger ==
    \A m \in Months : used[m] = ledger[m].included - granted[m]

\* A capture never takes from the plan what the plan does not have: the counter
\* only rises to at most the allowance that some call gathered for its capture.
WithinAllowance ==
    [][\A m \in Months : used'[m] > used[m] =>
           \E c \in Calls : inputs[c].month = m /\ used'[m] <= inputs[c].allowance]_vars

\* The overage that a capture records is exactly the cash that was collected:
\* over MCP, which authorizes first and captures on success, unless another call,
\* a grant, a plan change, a new month or the end of the trial came between; over
\* REST, which captures first, whatever came between.
OverageIsPaid ==
    /\ \A c \in Calls \ RestCalls :
        pc[c] \in {"captured", "answered"} /\ c \notin disturbed => split[c].cents = cash[c]
    /\ \A c \in RestCalls :
        pc[c] \in {"paidwork", "erring", "answered"} => split[c].cents = cash[c]

Debited(c) == split[c].included + split[c].overage

\* "... so a failed call never debits the caller" (mcp-runtime.ts): an MCP call
\* that fails was not debited, unless something threw after its capture.
FailedCallNotDebited ==
    \A c \in Calls \ RestCalls : pc[c] = "failed" /\ c \notin late => Debited(c) = 0

\* A REST call that fails gets back, in credits, all that it was debited from the
\* plan and paid in cash, unless something else than its work threw.
FailedRestIsMadeWhole ==
    \A c \in RestCalls :
        pc[c] = "failed" /\ c \notin late /\ Debited(c) > 0 =>
            c \in owed /\ CreditsFromCents(PriceOf[c]) >= Debited(c)

=============================================================================
