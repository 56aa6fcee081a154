--------------------------- MODULE IdempotentCalls ---------------------------
(***************************************************************************)
(* The claim protocol behind the Idempotency-Key header of a paid          *)
(* tools/call: the idempotency_keys table                                  *)
(* (packages/snapshots/src/idempotency-store.ts), the per-request gate     *)
(* (apps/api/src/mcp-runtime.ts) and the places of dispatch that resolve   *)
(* or release the claim (apps/api/src/mcp-server.ts).  One account and one *)
(* key: rows of different keys do not interact.  Requests are the HTTP     *)
(* requests (first calls and retries alike) that carry the key.            *)
(*                                                                         *)
(* Every await is a step boundary.  The time a request reads (Date.now())  *)
(* before its INSERT is kept in stamp, because the INSERT uses the value   *)
(* read earlier.  What the request does between claim and resolve          *)
(* (settlement, tool) is one outcome here and is detailed in PaidCalls.    *)
(***************************************************************************)
EXTENDS Integers, FiniteSets

CONSTANTS
    Requests,     \* requests that carry the key
    Args,         \* hashToolRequest values
    ArgsOf,       \* the tool and arguments each request sends
    UnknownArgs,  \* the Args that name a tool dispatch does not know
    None,
    StaleAfter,   \* STALE_CLAIM_MS, in ticks
    Ttl,          \* TTL_MS, in ticks
    MaxTime,      \* bound on the clock
    MaxCrashes,   \* bound on process restarts
    DbFaults,     \* requests whose completing or releasing may fail, or lose its ack
    PruneRuns     \* TRUE: something calls pruneIdempotencyKeys

ASSUME RequestsAssumption == None \notin Requests
ASSUME ArgsAssumption == ArgsOf \in [Requests -> Args] /\ UnknownArgs \subseteq Args
ASSUME TimeAssumption ==
    /\ StaleAfter \in Nat
    /\ Ttl \in Nat
    /\ MaxTime \in Nat
    /\ StaleAfter < Ttl
ASSUME BoundAssumption == MaxCrashes \in Nat
ASSUME FlagAssumption ==
    /\ DbFaults \subseteq Requests
    /\ PruneRuns \in BOOLEAN

VARIABLES
    row,        \* the key's row of idempotency_keys, or None
    clock,      \* Date.now()
    pc,         \* where each request's handler is
    stamp,      \* the Date.now() a request read after its lookup
    held,       \* idempotencyClaims.has(req)
    replayed,   \* whose stored response a request was answered with
    claimant,   \* history: the request whose INSERT wrote the current row
    worked,     \* history: the requests whose tool run succeeded
    displaced,  \* history: requests at work whose claim, past STALE_CLAIM_MS, was
                \* taken over or pruned
    crashes

vars == <<row, clock, pc, stamp, held, replayed, claimant, worked, displaced,
          crashes>>

Rows == [hash : Args, status : {"pending", "completed"},
         response : Requests \cup {None}, created_at : 0..MaxTime]

ASSUME RowsAssumption == None \notin Rows

Ended == {"replayed", "mismatch", "in_progress", "rejected",
          "succeeded", "failed", "dead"}

Steps == {"idle", "claiming", "working", "completing", "releasing", "summary"}

\* Requests between winning the claim and letting go of it.
Holders == {r \in Requests : held[r] /\ pc[r] \in {"working", "completing", "releasing"}}

Pending == row # None /\ row.status = "pending"
Completed == row # None /\ row.status = "completed"

TypeOK ==
    /\ row \in Rows \cup {None}
    /\ clock \in 0..MaxTime
    /\ pc \in [Requests -> Steps \cup Ended]
    /\ stamp \in [Requests -> 0..MaxTime]
    /\ held \in [Requests -> BOOLEAN]
    /\ replayed \in [Requests -> Requests \cup {None}]
    /\ claimant \in Requests \cup {None}
    /\ worked \subseteq Requests
    /\ displaced \subseteq Requests
    /\ crashes \in 0..MaxCrashes

Init ==
    /\ row = None
    /\ clock = 0
    /\ pc = [r \in Requests |-> "idle"]
    /\ stamp = [r \in Requests |-> 0]
    /\ held = [r \in Requests |-> FALSE]
    /\ replayed = [r \in Requests |-> None]
    /\ claimant = None
    /\ worked = {}
    /\ displaced = {}
    /\ crashes = 0

\* The row is taken from the requests whose claim is past its window at this time.
Displace(time) ==
    displaced' = displaced \cup {h \in Holders : time - stamp[h] > StaleAfter}

Goto(r, step) == pc' = [pc EXCEPT ![r] = step]

-----------------------------------------------------------------------------
(* gateIdempotency *)

\* getIdempotentResult: a completed row that has not expired.
Cached == Completed /\ clock - row.created_at <= Ttl

Replay(r) ==
    /\ pc[r] = "idle"
    /\ Cached
    /\ IF row.hash = ArgsOf[r]
       THEN /\ replayed' = [replayed EXCEPT ![r] = row.response]
            /\ Goto(r, "replayed")
       ELSE /\ Goto(r, "mismatch")
            /\ UNCHANGED replayed
    /\ UNCHANGED <<row, clock, stamp, held, claimant, worked, displaced, crashes>>

Miss(r) ==
    /\ pc[r] = "idle"
    /\ ~Cached
    /\ stamp' = [stamp EXCEPT ![r] = clock]
    /\ Goto(r, "claiming")
    /\ UNCHANGED <<row, clock, held, replayed, claimant, worked, displaced, crashes>>

\* Faulty variant: an upsert that overwrites any pending row.
ClaimableAnyPending(r) == row = None \/ Pending

\* The INSERT meets no row, or the ON CONFLICT clause overwrites an abandoned one.
Claimable(r) ==
    \/ row = None
    \/ Pending /\ row.created_at < stamp[r] - StaleAfter

\* Faulty variant: a reclaim that leaves created_at as it was.
ClaimKeepsAge(r) ==
    /\ pc[r] = "claiming"
    /\ Claimable(r)
    /\ row' = [hash |-> ArgsOf[r], status |-> "pending", response |-> None,
               created_at |-> IF Pending THEN row.created_at ELSE stamp[r]]
    /\ held' = [held EXCEPT ![r] = TRUE]
    /\ claimant' = r
    /\ Goto(r, "working")
    /\ Displace(stamp[r])
    /\ UNCHANGED <<clock, stamp, replayed, worked, crashes>>

ClaimWon(r) ==
    /\ pc[r] = "claiming"
    /\ Claimable(r)
    /\ row' = [hash |-> ArgsOf[r], status |-> "pending",
               response |-> None, created_at |-> stamp[r]]
    /\ held' = [held EXCEPT ![r] = TRUE]
    /\ claimant' = r
    /\ Goto(r, "working")
    /\ Displace(stamp[r])
    /\ UNCHANGED <<clock, stamp, replayed, worked, crashes>>

ClaimLost(r) ==
    /\ pc[r] = "claiming"
    /\ ~Claimable(r)
    /\ Goto(r, "in_progress")
    /\ UNCHANGED <<row, clock, stamp, held, replayed, claimant, worked,
                  displaced, crashes>>

-----------------------------------------------------------------------------
(* The rest of the tools/call *)

ToolSucceeds(r) ==
    /\ pc[r] = "working"
    /\ ArgsOf[r] \notin UnknownArgs
    /\ worked' = worked \cup {r}
    /\ Goto(r, "completing")
    /\ UNCHANGED <<row, clock, stamp, held, replayed, claimant, displaced, crashes>>

\* The tool throws, or the settlement gate has written a 402.
ToolFails(r) ==
    /\ pc[r] = "working"
    /\ ArgsOf[r] \notin UnknownArgs
    /\ Goto(r, "releasing")
    /\ UNCHANGED <<row, clock, stamp, held, replayed, claimant, worked,
                  displaced, crashes>>

\* The default branch of dispatch's switch returns from inside the try block.
UnknownTool(r) ==
    /\ pc[r] = "working"
    /\ ArgsOf[r] \in UnknownArgs
    /\ Goto(r, "rejected")
    /\ UNCHANGED <<row, clock, stamp, held, replayed, claimant, worked,
                  displaced, crashes>>

\* Faulty variants: the row is deleted instead of completed; the DELETE has no
\* status condition.
StoredNothing(r) == IF Pending THEN None ELSE row
ReleasedAnyStatus == None

\* completeIdempotencyKey: no condition on who wrote the pending row.
Stored(r) == IF Pending THEN [row EXCEPT !.status = "completed", !.response = r] ELSE row

\* releaseIdempotencyKey: no condition on who wrote the pending row.
Released == IF Pending THEN None ELSE row

Complete(r) ==
    /\ pc[r] = "completing"
    /\ row' = Stored(r)
    /\ held' = [held EXCEPT ![r] = FALSE]
    /\ Goto(r, "summary")
    /\ UNCHANGED <<clock, stamp, replayed, claimant, worked, displaced, crashes>>

\* The UPDATE throws, with or without having taken effect: dispatch's catch runs.
CompleteFails(r) ==
    /\ r \in DbFaults
    /\ pc[r] = "completing"
    /\ row' \in {row, Stored(r)}
    /\ Goto(r, "releasing")
    /\ UNCHANGED <<clock, stamp, held, replayed, claimant, worked, displaced, crashes>>

\* Building _usage reads the database and runs the compensator.
Summarise(r) ==
    /\ pc[r] = "summary"
    /\ \/ Goto(r, "succeeded")
       \/ r \in DbFaults /\ Goto(r, "releasing")
    /\ UNCHANGED <<row, clock, stamp, held, replayed, claimant, worked,
                  displaced, crashes>>

\* Faulty variant: the catch forgets the claim.
ReleaseForgotten(r) ==
    /\ pc[r] = "releasing"
    /\ held' = [held EXCEPT ![r] = FALSE]
    /\ Goto(r, "failed")
    /\ UNCHANGED <<row, clock, stamp, replayed, claimant, worked, displaced, crashes>>

Release(r) ==
    /\ pc[r] = "releasing"
    /\ row' = IF held[r] THEN Released ELSE row
    /\ held' = [held EXCEPT ![r] = FALSE]
    /\ Goto(r, "failed")
    /\ UNCHANGED <<clock, stamp, replayed, claimant, worked, displaced, crashes>>

\* The DELETE throws out of dispatch: the client gets "Internal error".
ReleaseFails(r) ==
    /\ r \in DbFaults
    /\ pc[r] = "releasing"
    /\ held[r]
    /\ row' \in {row, Released}
    /\ Goto(r, "failed")
    /\ UNCHANGED <<clock, stamp, held, replayed, claimant, worked, displaced, crashes>>

-----------------------------------------------------------------------------
(* The environment *)

Tick ==
    /\ clock < MaxTime
    /\ clock' = clock + 1
    /\ UNCHANGED <<row, pc, stamp, held, replayed, claimant, worked,
                  displaced, crashes>>

\* The API process dies: handlers and the WeakMap are gone, rows stay.
Crash ==
    /\ crashes < MaxCrashes
    /\ crashes' = crashes + 1
    /\ pc' = [r \in Requests |-> IF pc[r] \in Steps \ {"idle"} THEN "dead" ELSE pc[r]]
    /\ held' = [r \in Requests |-> FALSE]
    /\ UNCHANGED <<row, clock, stamp, replayed, claimant, worked, displaced>>

\* pruneIdempotencyKeys deletes by age alone.
Prune ==
    /\ PruneRuns
    /\ row # None
    /\ row.created_at < clock - Ttl
    /\ row' = None
    /\ Displace(clock)
    /\ UNCHANGED <<clock, pc, stamp, held, replayed, claimant, worked, crashes>>

Handle(r) ==
    \/ Replay(r) \/ Miss(r) \/ ClaimWon(r) \/ ClaimLost(r)
    \/ ToolSucceeds(r) \/ ToolFails(r) \/ UnknownTool(r)
    \/ Complete(r) \/ CompleteFails(r) \/ Summarise(r)
    \/ Release(r) \/ ReleaseFails(r)

Next == (\E r \in Requests : Handle(r)) \/ Tick \/ Crash \/ Prune

Spec == Init /\ [][Next]_vars

-----------------------------------------------------------------------------
(* Properties *)

\* STALE_CLAIM_MS is 60 s, "generous even for the slowest metered tool call".  What
\* the claim promises it promises until it is taken from a call that is slower.
Undisturbed == displaced = {}

\* "At most one concurrent caller per (account, key) gets 'claimed'"
\* (gateIdempotency): no two requests are between winning the claim and letting go
\* of it, however slow they are, until a stale claim is taken from one at work.
OneWorker == Undisturbed => \A r, s \in Holders : r = s

\* Until then a request is only ever answered with the stored response of a request
\* that sent the same tool and arguments.
ReplayMatchesArgs ==
    Undisturbed =>
        \A r \in Requests : replayed[r] # None => ArgsOf[replayed[r]] = ArgsOf[r]

\* A retry never re-runs and re-charges: of two runs that succeeded, either a
\* statement of one failed, or the process died before the first was stored, or a
\* stale claim was taken over, or by now one of the two results has expired.
ChargedOnce ==
    Undisturbed =>
        \A r, s \in {q \in worked \ DbFaults : pc[q] # "dead"} :
            r = s \/ clock - stamp[r] > Ttl \/ clock - stamp[s] > Ttl

\* A request that has ended, whichever way, does not leave the key claimed: the
\* same logical retry can claim it at once (releaseIdempotencyKey), unless one of
\* its statements failed or it named a tool that dispatch does not know.
EndedLeavesNoClaim ==
    \A r \in {q \in Requests \ DbFaults : ArgsOf[q] \notin UnknownArgs} :
        pc[r] \in Ended \ {"dead"} => ~(Pending /\ claimant = r)

\* A stored result is never overwritten or deleted while it is still valid.
StoredResultStands == [][Cached => row' = row]_vars

\* The claim protocol keeps the promise of IdempotentKey: the worker is the
\* live request whose claim is on the row, the result is what the row stores.
Promise == INSTANCE IdempotentKey WITH
    worker <- IF Pending /\ claimant \in Holders THEN claimant ELSE None,
    result <- IF Completed THEN row.response ELSE None,
    broken <- ~Undisturbed

KeepsPromise == Promise!Spec
=============================================================================
