------------------------- MODULE PersistenceCredits -------------------------
(***************************************************************************)
(* The persistence credits of one account: an append-only ledger whose     *)
(* SUM is the balance, written by debits (meterPersistenceOp), the monthly *)
(* grant of the suite tier (applySuiteMonthlyGrant), grants of the admin   *)
(* (addPersistenceCredits) and paid credit packs (markPurchaseSucceeded,   *)
(* called by the PAI'D webhook).  Each is one transaction that takes the   *)
(* account's advisory lock before it reads the SUM.                        *)
(*                                                                         *)
(* Of the ledger the SUM, the newest row's balance_after and the numbers   *)
(* of monthly grants and of packs are kept.                                *)
(***************************************************************************)
EXTENDS Integers

CONSTANTS
    Calls,        \* requests that debit or grant, each made once
    Deliveries,   \* webhook deliveries in flight at a time
    Sessions,     \* checkout sessions of credit packs
    Cost,         \* PERSISTENCE_CREDIT_COSTS of the operation
    SuiteCredits, \* SUITE_MONTHLY_PERSISTENCE_CREDITS
    PackCredits,  \* credits of the pack
    LastMonth,    \* bound: months that pass
    MaxFaults,    \* bound: transactions that fail, unacknowledged commits and
                  \* deliveries of an event that is answered or under way
    None

ASSUME CreditsAssumption ==
    Cost \in Nat \ {0} /\ SuiteCredits \in Nat \ {0} /\ PackCredits \in Nat \ {0}
ASSUME ProcsAssumption == Calls \cap Deliveries = {} /\ None \notin Calls \cup Deliveries
ASSUME JobsAssumption == Sessions \cap {"none", "meter", "suite", "add"} = {}
ASSUME BoundsAssumption == LastMonth \in Nat /\ MaxFaults \in Nat

Procs == Calls \cup Deliveries
CallJobs == {"meter", "suite", "add"}
Jobs == {"none"} \cup CallJobs \cup Sessions

VARIABLES
    pc,         \* where each transaction is
    job,        \* what it does, or the session of the event it delivers
    at,         \* the month it took from the clock
    read,       \* the SUM it has read
    delta,      \* the credits_delta it writes
    lock,       \* holder of the account's advisory lock, or None
    rowLock,    \* holder of the row of each purchase, or None
    balance,    \* SUM(credits_delta)
    after,      \* balance_after of the newest row
    suites,     \* suite_monthly_grant rows by the month of created_at
    purchases,  \* purchase rows of each session
    stage,      \* external: "open" at PAI'D; else status of the purchase
    url,        \* sessions whose checkout_url the buyer has
    paid,       \* external: sessions that are paid
    acked,      \* external: those whose event has been answered 2xx
    trial,      \* isFreeTrialActive
    month,
    faults,
    straddled   \* history: a month began while a monthly grant was under way

locals == <<pc, job, at, read, delta>>
ledger == <<balance, after, suites, purchases>>
packs == <<stage, url, paid, acked>>
clock == <<trial, month, straddled>>
vars == <<locals, lock, rowLock, ledger, packs, clock, faults>>

Months == 0..LastMonth

TypeOK ==
    /\ pc \in [Procs -> {"idle", "row", "lock", "read", "write", "done"}]
    /\ job \in [Procs -> Jobs]
    /\ at \in [Procs -> Months]
    /\ read \in [Procs -> Int]
    /\ delta \in [Procs -> Int]
    /\ lock \in Procs \cup {None}
    /\ rowLock \in [Sessions -> Procs \cup {None}]
    /\ balance \in Int
    /\ after \in Int
    /\ suites \in [Months -> Nat]
    /\ purchases \in [Sessions -> Nat]
    /\ stage \in [Sessions -> {"none", "open", "pending", "succeeded"}]
    /\ url \subseteq Sessions
    /\ paid \subseteq Sessions
    /\ acked \subseteq paid
    /\ trial \in BOOLEAN
    /\ month \in Months
    /\ faults \in 0..MaxFaults
    /\ straddled \in BOOLEAN

Init ==
    /\ pc = [w \in Procs |-> "idle"]
    /\ job = [w \in Procs |-> "none"]
    /\ at = [w \in Procs |-> 0]
    /\ read = [w \in Procs |-> 0]
    /\ delta = [w \in Procs |-> 0]
    /\ lock = None
    /\ rowLock = [s \in Sessions |-> None]
    /\ balance = 0 /\ after = 0
    /\ suites = [m \in Months |-> 0]
    /\ purchases = [s \in Sessions |-> 0]
    /\ stage = [s \in Sessions |-> "none"]
    /\ url = {} /\ paid = {} /\ acked = {}
    /\ trial \in BOOLEAN
    /\ month = 0 /\ straddled = FALSE
    /\ faults = 0

-----------------------------------------------------------------------------
(* POST /v1/credits/topup and the buyer *)

\* createTopupCheckoutSession: PAI'D has the session.
OpenSession(s) ==
    /\ stage[s] = "none"
    /\ stage' = [stage EXCEPT ![s] = "open"]
    /\ UNCHANGED <<locals, lock, rowLock, ledger, url, paid, acked, clock, faults>>

RecordPending(s) ==
    /\ stage[s] = "open"
    /\ stage' = [stage EXCEPT ![s] = "pending"]
    /\ UNCHANGED <<locals, lock, rowLock, ledger, url, paid, acked, clock, faults>>

\* Faulty variant: the answer does not wait for the row.
AnswerFirst(s) ==
    /\ stage[s] # "none" /\ s \notin url
    /\ url' = url \cup {s}
    /\ UNCHANGED <<locals, lock, rowLock, ledger, stage, paid, acked, clock, faults>>

\* The checkout_url is answered.
Answer(s) ==
    /\ stage[s] = "pending" /\ s \notin url
    /\ url' = url \cup {s}
    /\ UNCHANGED <<locals, lock, rowLock, ledger, stage, paid, acked, clock, faults>>

BuyerPays(s) ==
    /\ s \in url \ paid
    /\ paid' = paid \cup {s}
    /\ UNCHANGED <<locals, lock, rowLock, ledger, stage, url, acked, clock, faults>>

-----------------------------------------------------------------------------
(* The transactions *)

\* A request begins; a free account's debit has been refused before.  The
\* monthly grant takes the month from the clock before it waits for the lock.
Begin(c, j) ==
    /\ pc[c] = "idle"
    /\ pc' = [pc EXCEPT ![c] = "lock"]
    /\ job' = [job EXCEPT ![c] = j]
    /\ at' = [at EXCEPT ![c] = month]
    /\ UNCHANGED <<read, delta, lock, rowLock, ledger, packs, clock, faults>>

Replay(s) == s \in acked \/ \E h \in Deliveries : job[h] = s

\* checkout.session.completed of a top-up.
Deliver(h, s) ==
    /\ pc[h] = "idle" /\ s \in paid
    /\ faults' = IF Replay(s) THEN faults + 1 ELSE faults
    /\ faults' <= MaxFaults
    /\ pc' = [pc EXCEPT ![h] = "row"]
    /\ job' = [job EXCEPT ![h] = s]
    /\ UNCHANGED <<at, read, delta, lock, rowLock, ledger, packs, clock>>

\* Where a transaction is when it is over, and whether its event is answered.
End(w, answered) ==
    /\ pc' = [pc EXCEPT ![w] = IF w \in Calls THEN "done" ELSE "idle"]
    /\ job' = [job EXCEPT ![w] = "none"]
    /\ at' = [at EXCEPT ![w] = 0]
    /\ read' = [read EXCEPT ![w] = 0]
    /\ delta' = [delta EXCEPT ![w] = 0]
    /\ acked' = IF answered /\ w \in Deliveries THEN acked \cup {job[w]} ELSE acked
    /\ lock' = IF lock = w THEN None ELSE lock
    /\ rowLock' = [s \in Sessions |-> IF rowLock[s] = w THEN None ELSE rowLock[s]]
    /\ UNCHANGED <<url, paid, clock>>

\* SELECT ... FOR UPDATE finds no pending purchase: nothing to do, 200.
RowSettled(h) ==
    /\ pc[h] = "row" /\ rowLock[job[h]] = None
    /\ stage[job[h]] # "pending"
    /\ End(h, TRUE)
    /\ UNCHANGED <<ledger, stage, faults>>

\* Faulty variant: neither FOR UPDATE nor the status in the UPDATE.
RowUnlocked(h) ==
    /\ pc[h] = "row"
    /\ stage[job[h]] = "pending"
    /\ pc' = [pc EXCEPT ![h] = "lock"]
    /\ UNCHANGED <<job, at, read, delta, lock, rowLock, ledger, packs, clock, faults>>

\* SELECT ... FOR UPDATE and the UPDATE of the status, which the row's lock
\* keeps from losing and which nobody sees before the commit.
Row(h) ==
    /\ pc[h] = "row" /\ rowLock[job[h]] = None
    /\ stage[job[h]] = "pending"
    /\ rowLock' = [rowLock EXCEPT ![job[h]] = h]
    /\ pc' = [pc EXCEPT ![h] = "lock"]
    /\ UNCHANGED <<job, at, read, delta, lock, ledger, packs, clock, faults>>

TakeLock(w) ==
    /\ lock' = w
    /\ pc' = [pc EXCEPT ![w] = "read"]
    /\ UNCHANGED <<job, at, read, delta, rowLock, ledger, packs, clock, faults>>

\* Faulty variant: the monthly grant locks in a namespace of its own.
LockOfSuite(w) ==
    /\ pc[w] = "lock"
    /\ job[w] # "suite" => lock = None
    /\ TakeLock(w)

\* pg_advisory_xact_lock(1, account): until the transaction ends.
Lock(w) == pc[w] = "lock" /\ lock = None /\ TakeLock(w)

NonNegative(n) == IF n < 0 THEN 0 ELSE n

\* Faulty variant: the month is never looked up.
GrantedNever(w) == FALSE

Granted(w) == suites[at[w]] > 0

Refused(w) ==
    \/ job[w] = "meter" /\ ~trial /\ NonNegative(balance) < Cost
    \/ job[w] = "suite" /\ Granted(w)

Delta(w) ==
    CASE job[w] = "meter" -> IF trial THEN 0 ELSE -Cost
      [] job[w] = "suite" -> SuiteCredits
      [] OTHER -> PackCredits

\* The SUM, or the month's grant, says no.
Refuse(w) ==
    /\ pc[w] = "read" /\ Refused(w)
    /\ End(w, TRUE)
    /\ UNCHANGED <<ledger, stage, faults>>

Read(w) ==
    /\ pc[w] = "read" /\ ~Refused(w)
    /\ read' = [read EXCEPT ![w] = balance]
    /\ delta' = [delta EXCEPT ![w] = Delta(w)]
    /\ pc' = [pc EXCEPT ![w] = "write"]
    /\ UNCHANGED <<job, at, lock, rowLock, ledger, packs, clock, faults>>

\* The row as the clock stamps it, and the status of the pack, committed.
Commit(w) ==
    /\ pc[w] = "write"
    /\ balance' = balance + delta[w]
    /\ after' = NonNegative(read[w]) + delta[w]
    /\ suites' = IF job[w] = "suite" THEN [suites EXCEPT ![month] = @ + 1] ELSE suites
    /\ purchases' = IF w \in Deliveries THEN [purchases EXCEPT ![job[w]] = @ + 1]
                    ELSE purchases
    /\ stage' = IF w \in Deliveries THEN [stage EXCEPT ![job[w]] = "succeeded"] ELSE stage

Write(w) == Commit(w) /\ End(w, TRUE) /\ UNCHANGED faults

Faulted == faults < MaxFaults /\ faults' = faults + 1

\* The commit took effect but its answer was lost: the caller gets an error.
WriteUnacked(w) == Commit(w) /\ End(w, FALSE) /\ Faulted

\* A statement throws or the process dies: the transaction is rolled back.
Fail(w) ==
    /\ pc[w] \in {"row", "lock", "read", "write"}
    /\ End(w, FALSE)
    /\ Faulted
    /\ UNCHANGED <<ledger, stage>>

-----------------------------------------------------------------------------

TrialEnds ==
    /\ trial /\ trial' = FALSE
    /\ UNCHANGED <<locals, lock, rowLock, ledger, packs, month, straddled, faults>>

NextMonth ==
    /\ month < LastMonth
    /\ month' = month + 1
    /\ straddled' = (straddled \/ \E w \in Procs : job[w] = "suite")
    /\ UNCHANGED <<locals, lock, rowLock, ledger, packs, trial, faults>>

Step(w) == Lock(w) \/ Refuse(w) \/ Read(w) \/ Write(w)
RowStep(h) == RowSettled(h) \/ Row(h)

Next ==
    \/ \E s \in Sessions : OpenSession(s) \/ RecordPending(s) \/ Answer(s) \/ BuyerPays(s)
    \/ \E c \in Calls, j \in CallJobs : Begin(c, j)
    \/ \E h \in Deliveries : RowStep(h) \/ \E s \in Sessions : Deliver(h, s)
    \/ \E w \in Procs : Step(w) \/ WriteUnacked(w) \/ Fail(w)
    \/ TrialEnds \/ NextMonth

Spec == Init /\ [][Next]_vars

\* A transaction that has begun goes on, and PAI'D delivers an event until it
\* is answered.
Fairness ==
    /\ \A w \in Procs : WF_vars(Step(w))
    /\ \A h \in Deliveries : WF_vars(RowStep(h))
    /\ \A s \in Sessions : SF_vars(s \notin acked /\ \E h \in Deliveries : Deliver(h, s))

FairSpec == Spec /\ Fairness

-----------------------------------------------------------------------------
(* Properties *)

\* Debits that run side by side never spend the same credits: the SUM does not
\* become negative.
NeverOverdrawn == balance >= 0

\* balance_after is a running balance: what a row says is the SUM up to it,
\* whatever writes were under way with it.
BalanceAddsUp == after = balance

\* The lock makes the read of the SUM and the insert one step for all writers of
\* the account, debits, packs and monthly grants alike.
LedgerIsSound == NeverOverdrawn /\ BalanceAddsUp

\* A pack is granted exactly when its purchase has succeeded, and once, however
\* often and however concurrently its event is delivered, and whatever fails.
PackGrantedOnce ==
    \A s \in Sessions : purchases[s] = IF stage[s] = "succeeded" THEN 1 ELSE 0

\* The monthly grant is given once in a calendar month, as long as no month
\* begins between a grant's look at the clock and its row.
SuiteOncePerMonth == ~straddled => \A m \in Months : suites[m] <= 1

\* A pack that has been paid is granted in the end.
PaidIsGranted == \A s \in Sessions : s \in paid ~> stage[s] = "succeeded"
=============================================================================
