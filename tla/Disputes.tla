------------------------------ MODULE Disputes ------------------------------
(***************************************************************************)
(* One dispute: its row in the disputes table and the requests that read   *)
(* and write it, the webhooks of Stripe (charge.dispute.created, .updated, *)
(* .closed) and the assemble_representment tool.                           *)
(*                                                                         *)
(* Every request reads the row and later writes a whole record made from   *)
(* what it has read, with nothing that ties the two together; each step    *)
(* below is one statement.  Stripe delivers an event until it is answered  *)
(* 2xx, in any order, and may deliver it again.                            *)
(*                                                                         *)
(* Of a record the state, the account and whether a representment id is    *)
(* stored are kept.  The ledger is kept as the set of hops logged in it.   *)
(***************************************************************************)
EXTENDS DisputeStates, Naturals, FiniteSets

CONSTANTS
    Workers,   \* requests in flight at a time
    Accounts,
    Named,     \* the account that the events name in their metadata, or None
    Updates,   \* statuses that Stripe may report in an update
    Outcomes,  \* statuses that Stripe may close the dispute with
    MaxFaults, \* bound: requests that fail or die between two statements
    None

StripeStatuses == {"needs_response", "under_review", "won", "lost", "charge_refunded",
    "warning_needs_response", "warning_under_review", "warning_closed"}

ASSUME AccountsAssumption == None \notin Accounts /\ Named \in Accounts \cup {None}
ASSUME StatusesAssumption ==
    /\ Updates \subseteq
         {"needs_response", "under_review", "warning_needs_response", "warning_under_review"}
    /\ Outcomes \subseteq {"won", "lost", "charge_refunded", "warning_closed"}
ASSUME BoundsAssumption == MaxFaults \in Nat

VARIABLES
    pc,        \* where each request is
    doing,     \* the event or call it handles
    held,      \* the record it has read, or last wrote
    current,   \* how far advanceDisputeState has walked
    row,       \* the row of disputes; its state is "absent" before there is one
    ledger,    \* the hops in dispute_transitions
    status,    \* external: the dispute's status at Stripe
    sent,      \* external: the events Stripe has
    acked,     \* external: those that have been answered 2xx
    faults,    \* requests that failed so far
    opened,    \* history: the states in which the row has been inserted
    overlapped \* history: a request has written over another's write

locals == <<pc, doing, held, current>>
stripe == <<status, sent>>
vars == <<locals, row, ledger, stripe, acked, faults, opened, overlapped>>

Records == [state : States \cup {"absent"}, account : Accounts \cup {None}, rep : BOOLEAN]
NoRow == [state |-> "absent", account |-> None, rep |-> FALSE]

Events == [type : {"created", "updated", "closed"}, status : StripeStatuses]
Calls == [type : {"assemble"}, by : Accounts]
NoWork == [type |-> "none"]

Stages == {"idle", "read", "insert", "refresh", "reread", "claim", "walk", "submit", "report"}

TypeOK ==
    /\ pc \in [Workers -> Stages]
    /\ doing \in [Workers -> Events \cup Calls \cup {NoWork}]
    /\ held \in [Workers -> Records]
    /\ current \in [Workers -> States \cup {"absent"}]
    /\ row \in Records
    /\ ledger \subseteq States \X States
    /\ status \in StripeStatuses \cup {"none"}
    /\ sent \subseteq Events
    /\ acked \subseteq sent
    /\ faults \in 0..MaxFaults
    /\ opened \subseteq States
    /\ overlapped \in BOOLEAN

Init ==
    /\ pc = [h \in Workers |-> "idle"]
    /\ doing = [h \in Workers |-> NoWork]
    /\ held = [h \in Workers |-> NoRow]
    /\ current = [h \in Workers |-> "absent"]
    /\ row = NoRow
    /\ ledger = {}
    /\ status = "none"
    /\ sent = {}
    /\ acked = {}
    /\ faults = 0
    /\ opened = {}
    /\ overlapped = FALSE

-----------------------------------------------------------------------------
(* Stripe *)

IsOpen == status \in {"needs_response", "under_review", "warning_needs_response",
                      "warning_under_review"}

Send(type, s) ==
    /\ status' = s
    /\ sent' = sent \cup {[type |-> type, status |-> s]}
    /\ UNCHANGED <<locals, row, ledger, acked, faults, opened, overlapped>>

StripeOpens == status = "none" /\ Send("created", "needs_response")
StripeUpdates == IsOpen /\ \E s \in Updates : Send("updated", s)
StripeCloses == IsOpen /\ \E s \in Outcomes : Send("closed", s)

\* mapStripeDisputeStatus
MapStripeDisputeStatus(s) ==
    CASE s \in {"under_review", "won", "lost", "warning_closed"} -> s
      [] s = "charge_refunded" -> "accepted"
      [] OTHER -> "needs_response"

-----------------------------------------------------------------------------
(* Requests *)

Kind(h) == doing[h].type

\* The request goes on to its next statement, with the record it holds and the
\* state its walk has reached.
Goto(h, stage, rec, at) ==
    /\ pc' = [pc EXCEPT ![h] = stage]
    /\ held' = [held EXCEPT ![h] = rec]
    /\ current' = [current EXCEPT ![h] = at]
    /\ UNCHANGED <<doing, acked>>

Forget(h) ==
    /\ pc' = [pc EXCEPT ![h] = "idle"]
    /\ doing' = [doing EXCEPT ![h] = NoWork]
    /\ held' = [held EXCEPT ![h] = NoRow]
    /\ current' = [current EXCEPT ![h] = "absent"]

\* The request ends; a webhook is answered 200.
Done(h) ==
    /\ Forget(h)
    /\ acked' = IF Kind(h) = "assemble" THEN acked ELSE acked \cup {doing[h]}

Coalesce(a, b) == IF a # None THEN a ELSE b

\* ON CONFLICT(id) DO UPDATE: the record replaces the row, and its nulls do not.
Merged(rec) ==
    [rec EXCEPT !.account = Coalesce(rec.account, row.account),
                !.rep = rec.rep \/ row.rep]

\* upsertDispute: nothing in it looks at what the row has become since the read.
Upsert(h, rec) ==
    /\ row' = Merged(rec)
    /\ overlapped' = (overlapped \/ row # held[h])

Deliver(h, e) ==
    /\ pc[h] = "idle"
    /\ e \in sent
    /\ pc' = [pc EXCEPT ![h] = "read"]
    /\ doing' = [doing EXCEPT ![h] = e]
    /\ UNCHANGED <<held, current, row, ledger, stripe, acked, faults, opened, overlapped>>

Call(h, a) ==
    /\ pc[h] = "idle"
    /\ pc' = [pc EXCEPT ![h] = "read"]
    /\ doing' = [doing EXCEPT ![h] = [type |-> "assemble", by |-> a]]
    /\ UNCHANGED <<held, current, row, ledger, stripe, acked, faults, opened, overlapped>>

(* getDispute at the head of each handler, and what the handler does with it *)

ReadStep(h) == pc[h] = "read" /\ UNCHANGED <<row, ledger, stripe, faults, opened, overlapped>>
Found == row.state # "absent"

\* Faulty variant: an event for a dispute that was never stored is dropped.
ReadMissingDropped(h) ==
    /\ ReadStep(h)
    /\ Kind(h) # "assemble" /\ ~Found
    /\ Done(h)

\* Out-of-order delivery: whichever event comes first stores the dispute.
ReadMissing(h) ==
    /\ ReadStep(h)
    /\ Kind(h) # "assemble" /\ ~Found
    /\ Goto(h, "insert", row, row.state)

\* Faulty variant: a second delivery of the created event stores it again.
ReadDuplicateStores(h) ==
    /\ ReadStep(h)
    /\ Kind(h) = "created" /\ Found
    /\ Goto(h, "insert", row, row.state)

\* handleDisputeCreated: a duplicate is a no-op.
ReadDuplicate(h) ==
    /\ ReadStep(h)
    /\ Kind(h) = "created" /\ Found
    /\ Done(h)

ReadForUpdate(h) ==
    /\ ReadStep(h)
    /\ Kind(h) = "updated" /\ Found
    /\ Goto(h, "refresh", row, row.state)

ReadForClosure(h) ==
    /\ ReadStep(h)
    /\ Kind(h) = "closed" /\ Found
    /\ Goto(h, "walk", row, row.state)

\* The caller reaches a dispute that is its own or nobody's.
ReadForCall(h) ==
    /\ ReadStep(h)
    /\ Kind(h) = "assemble"
    /\ IF Found /\ row.account \in {None, doing[h].by}
       THEN Goto(h, "claim", row, row.state)
       ELSE Done(h)

\* No row was found: store what the event says.
Insert(h) ==
    LET state == IF Kind(h) = "created" THEN "needs_response"
                 ELSE MapStripeDisputeStatus(doing[h].status)
    IN /\ pc[h] = "insert"
       /\ Upsert(h, [state |-> state, account |-> Named, rep |-> FALSE])
       /\ opened' = opened \cup {state}
       /\ Done(h)
       /\ UNCHANGED <<ledger, stripe, faults>>

\* handleDisputeUpdated: the deadline and the amount, in a record that has the
\* state that was read.
Refresh(h) ==
    /\ pc[h] = "refresh"
    /\ Upsert(h, held[h])
    /\ Goto(h, "reread", held[h], current[h])
    /\ UNCHANGED <<ledger, stripe, faults, opened>>

Reread(h) ==
    /\ pc[h] = "reread"
    /\ Goto(h, "walk", row, row.state)
    /\ UNCHANGED <<row, ledger, stripe, faults, opened, overlapped>>

\* handleAssembleRepresentment: the evidence is built, the dispute is the caller's.
Claim(h) ==
    LET working == [held[h] EXCEPT !.account = Coalesce(held[h].account, doing[h].by),
                                   !.rep = TRUE]
    IN /\ pc[h] = "claim"
       /\ Upsert(h, working)
       /\ Goto(h, "walk", working, current[h])
       /\ UNCHANGED <<ledger, stripe, faults, opened>>

-----------------------------------------------------------------------------
(* advanceDisputeState *)

Target(h) ==
    CASE pc[h] = "report" -> "evidence_submitted"
      [] Kind(h) = "assemble" /\ pc[h] # "report" -> "evidence_assembling"
      [] OTHER -> MapStripeDisputeStatus(doing[h].status)

Walking(h) == pc[h] \in {"walk", "report"}

\* Faulty variant: the hop is not logged.
LogHopSilently(h) ==
    /\ Walking(h)
    /\ Target(h) \in Later[current[h]]
    /\ current' = [current EXCEPT ![h] = NextHop(current[h], Target(h))]
    /\ UNCHANGED <<pc, doing, held, row, ledger, stripe, acked, faults, opened, overlapped>>

\* logDisputeTransition, one hop of the path at a time.
LogHop(h) ==
    LET next == NextHop(current[h], Target(h))
    IN /\ Walking(h)
       /\ Target(h) \in Later[current[h]]
       /\ ledger' = ledger \cup {<<current[h], next>>}
       /\ current' = [current EXCEPT ![h] = next]
       /\ UNCHANGED <<pc, doing, held, row, stripe, acked, faults, opened, overlapped>>

\* What follows a walk: the submission of the evidence, or the answer.
AfterWalk(h, rec) ==
    IF pc[h] = "walk" /\ Kind(h) = "assemble" THEN Goto(h, "submit", rec, current[h])
    ELSE Done(h)

\* The walk has reached its target and the row follows.
Arrive(h) ==
    LET moved == [held[h] EXCEPT !.state = current[h]]
    IN /\ Walking(h)
       /\ current[h] = Target(h)
       /\ current[h] # held[h].state
       /\ Upsert(h, moved)
       /\ AfterWalk(h, moved)
       /\ UNCHANGED <<ledger, stripe, faults, opened>>

\* The dispute is there already, or no legal path leads there: dispute_illegal_transition.
Stay(h) ==
    /\ Walking(h)
    /\ current[h] = held[h].state
    /\ Target(h) \notin Later[current[h]]
    /\ AfterWalk(h, held[h])
    /\ UNCHANGED <<row, ledger, stripe, faults, opened, overlapped>>

\* submitEvidence: not asked for, refused or skipped, or the evidence is in.
Submit(h) ==
    /\ pc[h] = "submit"
    /\ Done(h) \/ Goto(h, "report", held[h], current[h])
    /\ UNCHANGED <<row, ledger, stripe, faults, opened, overlapped>>

\* Faulty variant: a webhook that failed is answered 200.
FailAnswered(h) ==
    /\ pc[h] # "idle"
    /\ faults < MaxFaults
    /\ faults' = faults + 1
    /\ Done(h)
    /\ UNCHANGED <<row, ledger, stripe, opened, overlapped>>

\* A statement throws or the process dies: the webhook is not answered 2xx.
Fail(h) ==
    /\ pc[h] # "idle"
    /\ faults < MaxFaults
    /\ faults' = faults + 1
    /\ Forget(h)
    /\ UNCHANGED <<row, ledger, stripe, acked, opened, overlapped>>

-----------------------------------------------------------------------------

Step(h) ==
    \/ ReadMissing(h) \/ ReadDuplicate(h) \/ ReadForUpdate(h) \/ ReadForClosure(h)
    \/ ReadForCall(h) \/ Insert(h) \/ Refresh(h) \/ Reread(h) \/ Claim(h) \/ LogHop(h)
    \/ Arrive(h) \/ Stay(h) \/ Submit(h)

Next ==
    \/ StripeOpens \/ StripeUpdates \/ StripeCloses
    \/ \E h \in Workers :
        \/ \E e \in sent : Deliver(h, e)
        \/ \E a \in Accounts : Call(h, a)
        \/ Step(h)
        \/ Fail(h)

Spec == Init /\ [][Next]_vars

Closure(s) == [type |-> "closed", status |-> s]

\* A request that has begun goes on, and Stripe delivers the closing event again
\* and again until it is answered: among the requests served, it has its turn.
Fairness ==
    /\ \A h \in Workers : WF_vars(Step(h))
    /\ \A s \in Outcomes :
         SF_vars(Closure(s) \notin acked /\ \E h \in Workers : Deliver(h, Closure(s)))

FairSpec == Spec /\ Fairness

-----------------------------------------------------------------------------
(* Properties *)

\* The row moves along the edges of the lifecycle, however deliveries are
\* duplicated, reordered and retried, until a request writes over another.
Lifecycle == INSTANCE DisputeLifecycle WITH state <- row.state
KeepsLifecycle == Lifecycle!Spec

\* Every state that a dispute shows is one it was stored in or one that the
\* ledger has a transition to: the audit trail explains the row even when
\* requests die between the log and the row, or write over each other.
AuditedState ==
    row.state # "absent" => row.state \in opened \cup {hop[2] : hop \in ledger}

Closing == {e \in sent : e.type = "closed"}

\* Once Stripe's closing event has been answered, the dispute is where Stripe
\* has decided, whatever arrived before or after it.  The one outcome that is
\* lost is a refund after the evidence is in: no edge leads to "accepted" there.
SettledAsDecided ==
    ~overlapped => \A e \in Closing \cap acked :
        \/ row.state = MapStripeDisputeStatus(e.status)
        \/ /\ e.status = "charge_refunded"
           /\ row.state \in {"evidence_submitted", "under_review"}

\* The account that claimed the dispute, and the representment id stored with
\* it, are not erased by a webhook that read the row before they were there.
ClaimsStand ==
    [][ /\ row.rep => row'.rep
        /\ row.account # None => row'.account # None ]_vars

\* Of two accounts that may claim a dispute, the first keeps it until a request
\* writes over another.
OwnerStands ==
    [][row.account # None /\ ~overlapped' => row'.account = row.account]_vars

\* A dispute that Stripe closes is closed here in the end, across failed and
\* reordered deliveries, unless a request has written over another.
ClosureArrives ==
    \A s \in Outcomes \ {"charge_refunded"} :
        status = s ~> (overlapped \/ row.state = MapStripeDisputeStatus(s))
=============================================================================
