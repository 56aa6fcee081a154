---------------------------- MODULE Compensation -----------------------------
(***************************************************************************)
(* The compensation ledger of one account                                  *)
(* (packages/snapshots/src/compensation-store.ts) and the lazy compensator *)
(* that every answered tools/call runs (apps/api/src/compensator.ts).      *)
(*                                                                         *)
(* Sweepers are the requests that build a _usage envelope at the same      *)
(* time.  A sweep lists the oldest owed entries once and then takes them   *)
(* one by one: claim (one conditional UPDATE), grant (grantUsageCredits, a *)
(* transaction of its own) and, if the grant throws, revert.  Each is an   *)
(* await.  What a grant does to the usage counter is in UsageCredits; here *)
(* a history variable counts the grants that took effect.                  *)
(***************************************************************************)
EXTENDS Integers, FiniteSets

CONSTANTS
    Entries,     \* obligations
    Sweepers,    \* concurrent sweeps
    None,
    Limit,       \* page size of a sweep
    MaxFaults,   \* bound on database faults and restarts
    LostAcks     \* TRUE: a grant may commit and its sweeper see an error

ASSUME EntriesAssumption == None \notin Entries /\ IsFiniteSet(Entries)
ASSUME LimitAssumption == Limit \in Nat \ {0}
ASSUME FaultsAssumption == MaxFaults \in Nat /\ LostAcks \in BOOLEAN

VARIABLES
    status,   \* the status column, "none" before the entry is written
    born,     \* the order of created_at
    pc,       \* where each sweep is
    todo,     \* what is left of the page a sweep listed
    claimed,  \* the entry a sweep has claimed, or None
    grants,   \* history: how often an entry's grant took effect
    lost,     \* history: entries whose claim no sweep will act on any more
    faults

vars == <<status, born, pc, todo, claimed, grants, lost, faults>>

Statuses == {"none", "owed", "credited", "cash_refunded", "waived"}

TypeOK ==
    /\ status \in [Entries -> Statuses]
    /\ born \in [Entries -> Nat]
    /\ pc \in [Sweepers -> {"idle", "next", "granting", "reverting"}]
    /\ todo \in [Sweepers -> SUBSET Entries]
    /\ claimed \in [Sweepers -> Entries \cup {None}]
    /\ grants \in [Entries -> Nat]
    /\ lost \subseteq Entries
    /\ faults \in 0..MaxFaults

Init ==
    /\ status = [e \in Entries |-> "none"]
    /\ born = [e \in Entries |-> 0]
    /\ pc = [w \in Sweepers |-> "idle"]
    /\ todo = [w \in Sweepers |-> {}]
    /\ claimed = [w \in Sweepers |-> None]
    /\ grants = [e \in Entries |-> 0]
    /\ lost = {}
    /\ faults = 0

Goto(w, step) == pc' = [pc EXCEPT ![w] = step]
Fault == faults < MaxFaults /\ faults' = faults + 1

\* The entry is claimed by a sweep that will grant or revert it.
InHand(e) == \E w \in Sweepers : claimed[w] = e

-----------------------------------------------------------------------------
(* The ledger *)

\* recordCompensationOwed
Record(e) ==
    /\ status[e] = "none"
    /\ status' = [status EXCEPT ![e] = "owed"]
    /\ born' = [born EXCEPT ![e] = 1 + Cardinality({f \in Entries : status[f] # "none"})]
    /\ UNCHANGED <<pc, todo, claimed, grants, lost, faults>>

\* Faulty variant: a resolution that does not look at the status.
ResolveAnyStatus(e) ==
    /\ status[e] # "none"
    /\ \E way \in {"cash_refunded", "waived"} : status' = [status EXCEPT ![e] = way]
    /\ UNCHANGED <<born, pc, todo, claimed, grants, lost, faults>>

\* resolveCompensation: an operator refunds in cash or waives.
Resolve(e) ==
    /\ status[e] = "owed"
    /\ \E way \in {"cash_refunded", "waived"} : status' = [status EXCEPT ![e] = way]
    /\ UNCHANGED <<born, pc, todo, claimed, grants, lost, faults>>

\* The UPDATE of claimCompensationForCredit ...
Claimed(e) == IF status[e] = "owed" THEN [status EXCEPT ![e] = "credited"] ELSE status

\* ... and that of revertCompensationClaim.
Reverted(e) == IF status[e] = "credited" THEN [status EXCEPT ![e] = "owed"] ELSE status

Owed == {e \in Entries : status[e] = "owed"}
Before(e, S) == Cardinality({f \in S : born[f] < born[e]})

\* Faulty variant: the page is cut before the status is looked at.
OwedInFirstPage == {e \in Owed : Before(e, {f \in Entries : status[f] # "none"}) < Limit}

\* listOwedCompensationForAccount: the oldest, at most Limit of them.
OwedPage == {e \in Owed : Before(e, Owed) < Limit}

-----------------------------------------------------------------------------
(* One sweep: compensateAccountOwed and, per entry, compensateEntry *)

ListOwed(w) ==
    /\ pc[w] = "idle"
    /\ todo' = [todo EXCEPT ![w] = OwedPage]
    /\ Goto(w, "next")
    /\ UNCHANGED <<status, born, claimed, grants, lost, faults>>

SweepDone(w) ==
    /\ pc[w] = "next"
    /\ todo[w] = {}
    /\ Goto(w, "idle")
    /\ UNCHANGED <<status, born, todo, claimed, grants, lost, faults>>

\* The loop reaches entry e, the oldest that is left.
Reach(w, e) ==
    /\ pc[w] = "next"
    /\ e \in todo[w]
    /\ \A f \in todo[w] : born[e] <= born[f]
    /\ todo' = [todo EXCEPT ![w] = @ \ {e}]

ClaimWon(w, e) ==
    /\ Reach(w, e)
    /\ status[e] = "owed"
    /\ status' = Claimed(e)
    /\ claimed' = [claimed EXCEPT ![w] = e]
    /\ Goto(w, "granting")
    /\ UNCHANGED <<born, grants, lost, faults>>

ClaimMissed(w, e) ==
    /\ Reach(w, e)
    /\ status[e] # "owed"
    /\ UNCHANGED <<status, born, pc, claimed, grants, lost, faults>>

\* The claim throws, outside compensateEntry's try: nothing reverts it.
ClaimThrows(w, e) ==
    /\ Reach(w, e)
    /\ Fault
    /\ \/ UNCHANGED <<status, lost>>
       \/ /\ status[e] = "owed"
          /\ status' = Claimed(e)
          /\ lost' = lost \cup {e}
    /\ UNCHANGED <<born, pc, claimed, grants>>

Granted(e) == [grants EXCEPT ![e] = @ + 1]

\* The sweep is through with the entry it had claimed.
LetGo(w) == claimed' = [claimed EXCEPT ![w] = None] /\ Goto(w, "next")

Grant(w) ==
    /\ pc[w] = "granting"
    /\ grants' = Granted(claimed[w])
    /\ LetGo(w)
    /\ UNCHANGED <<status, born, todo, lost, faults>>

GrantThrows(w) ==
    /\ pc[w] = "granting"
    /\ Fault
    /\ \/ UNCHANGED grants
       \/ LostAcks /\ grants' = Granted(claimed[w])
    /\ Goto(w, "reverting")
    /\ UNCHANGED <<status, born, todo, claimed, lost>>

Revert(w) ==
    /\ pc[w] = "reverting"
    /\ status' = Reverted(claimed[w])
    /\ LetGo(w)
    /\ UNCHANGED <<born, todo, grants, lost, faults>>

\* The revert throws too: its error is logged, with or without an effect.
RevertThrows(w) ==
    /\ pc[w] = "reverting"
    /\ Fault
    /\ \/ status' = status /\ lost' = lost \cup {claimed[w]}
       \/ status' = Reverted(claimed[w]) /\ UNCHANGED lost
    /\ LetGo(w)
    /\ UNCHANGED <<born, todo, grants>>

\* The process dies: every sweep ends where it is.
Crash ==
    /\ Fault
    /\ lost' = lost \cup {e \in Entries : InHand(e)}
    /\ pc' = [w \in Sweepers |-> "idle"]
    /\ todo' = [w \in Sweepers |-> {}]
    /\ claimed' = [w \in Sweepers |-> None]
    /\ UNCHANGED <<status, born, grants>>

-----------------------------------------------------------------------------

Sweep(w) ==
    \/ ListOwed(w) \/ SweepDone(w)
    \/ \E e \in Entries : ClaimWon(w, e) \/ ClaimMissed(w, e) \/ ClaimThrows(w, e)
    \/ Grant(w) \/ GrantThrows(w) \/ Revert(w) \/ RevertThrows(w)

Next ==
    \/ \E e \in Entries : Record(e) \/ Resolve(e)
    \/ \E w \in Sweepers : Sweep(w)
    \/ Crash

Spec == Init /\ [][Next]_vars

\* The account goes on calling, so that sweeps go on; each await settles.
FairSpec == Spec /\ \A w \in Sweepers : WF_vars(Sweep(w))

-----------------------------------------------------------------------------
(* Properties *)

\* "At-most-once per entry ... never a double grant": an entry is granted at
\* most once, and not at all once it was refunded or waived.
GrantedAtMostOnce ==
    \A e \in Entries :
        /\ grants[e] <= 1
        /\ status[e] \in {"cash_refunded", "waived"} => grants[e] = 0

\* An entry says credited only if its credits were granted, a sweep is about to
\* grant or revert it, or a fault hit the sweep that had claimed it.
CreditedIsGranted ==
    \A e \in Entries :
        status[e] = "credited" => grants[e] > 0 \/ InHand(e) \/ e \in lost

\* The ledger keeps the promise of MakeWhole: an entry counts as granted when
\* its one grant took effect, and as owed while it is only claimed.
Settlement(e) ==
    IF grants[e] = 0 THEN (IF status[e] = "credited" THEN "owed" ELSE status[e])
    ELSE IF grants[e] = 1 /\ status[e] = "credited" THEN "granted" ELSE "twice"

Promise == INSTANCE MakeWhole WITH settlement <- [e \in Entries |-> Settlement(e)]

SettledOnce == Promise!Spec

\* While the account goes on calling, every obligation is settled in the end,
\* unless a fault hit the sweep that had claimed it.
EventuallySettled ==
    \A e \in Entries :
        status[e] = "owed" ~>
            \/ grants[e] > 0
            \/ status[e] \in {"cash_refunded", "waived"}
            \/ e \in lost
=============================================================================
