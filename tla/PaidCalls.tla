------------------------------ MODULE PaidCalls ------------------------------
(***************************************************************************)
(* Metered tools/call requests of one account, from the in-band settlement *)
(* gate (settleMcpCallInband, settleOverageCash) through dispatch to the   *)
(* answer, with the money they move: the referral free call, the PAI'D     *)
(* wallet, mppx, plan credits, and the make-whole entries of calls that    *)
(* paid and then failed.                                                   *)
(*                                                                         *)
(* Every call costs one unit, which the plan includes while it has room    *)
(* and which is an overage afterwards.  The claim of an Idempotency-Key,   *)
(* the capture and the compensator's sweep are one step each here; their   *)
(* own steps, faults and races are those of IdempotentCalls, UsageCredits  *)
(* and Compensation.                                                       *)
(***************************************************************************)
EXTENDS Integers, FiniteSets

CONSTANTS
    Requests,
    Keys,
    KeyOf,      \* the Idempotency-Key of each request, or None
    Wallet,     \* TRUE: PAID_WALLET_MODE=enforce, for an owner account
    Included,   \* calls the plan still includes
    FreeAfter,  \* paid calls that earn the one free call (4 in the code)
    DbFaults,   \* requests in which a write or read after the money has moved may throw
    GateFaults, \* requests in which one that no try of dispatch encloses may throw
    None

ASSUME RequestsAssumption ==
    /\ IsFiniteSet(Requests)
    /\ KeyOf \in [Requests -> Keys \cup {None}]
    /\ None \notin Keys
    /\ Keys \cap Requests = {}
ASSUME AmountsAssumption == Included \in Nat /\ FreeAfter \in Nat
ASSUME FlagsAssumption ==
    /\ Wallet \in BOOLEAN
    /\ DbFaults \subseteq Requests
    /\ GateFaults \subseteq Requests

VARIABLES
    pc,         \* where each request is
    answer,     \* how it was answered
    claims,     \* idempotency_keys.status of each key, or "none"
    holds,      \* requests in the idempotencyClaims WeakMap
    settled,    \* requests in the inbandSettledRequests WeakMap
    room,       \* calls the plan still includes
    freeCalls,  \* referral_credits.free_calls_remaining
    paidCalls,  \* referral_credits.paid_call_count
    debited,    \* external: idempotency keys PAI'D has debited the wallet under
    paid,       \* history: requests that moved cash, and on which rail
    swallowed,  \* history: requests whose charge landed before mppx threw
    delivered,  \* history: requests whose work was done and captured
    owed        \* compensation_ledger: the entries not yet credited
                \* and those that are, by request and reason

vars == <<pc, answer, claims, holds, settled, room, freeCalls, paidCalls,
          debited, paid, swallowed, delivered, owed>>

Stages == {"idle", "preview", "free", "wallet", "mppx", "unpaid", "authorize",
           "work", "capture", "resolve", "usage", "caught", "owe", "ended"}
Answers == {"none", "ok", "replay", "in_progress", "payment_required", "error"}
Rails == {"wallet", "mppx"}
Reasons == {"settled_then_error", "wallet_rail_ambiguous"}
Entries == [req : Requests, reason : Reasons, status : {"owed", "credited"}]

TypeOK ==
    /\ pc \in [Requests -> Stages]
    /\ answer \in [Requests -> Answers]
    /\ claims \in [Keys -> {"none", "pending", "completed"}]
    /\ holds \subseteq Requests
    /\ settled \subseteq Requests
    /\ room \in Nat
    /\ freeCalls \in {0, 1}
    /\ paidCalls \in Nat
    /\ debited \subseteq Keys \cup Requests
    /\ paid \subseteq Requests \X Rails
    /\ swallowed \subseteq Requests
    /\ delivered \subseteq Requests
    /\ owed \subseteq Entries

Init ==
    /\ pc = [r \in Requests |-> "idle"]
    /\ answer = [r \in Requests |-> "none"]
    /\ claims = [k \in Keys |-> "none"]
    /\ holds = {}
    /\ settled = {}
    /\ room = Included
    /\ freeCalls = 0
    /\ paidCalls = 0
    /\ debited = {}
    /\ paid = {}
    /\ swallowed = {}
    /\ delivered = {}
    /\ owed = {}

Goto(r, stage) == pc' = [pc EXCEPT ![r] = stage]
End(r, how) == Goto(r, "ended") /\ answer' = [answer EXCEPT ![r] = how]
Owe(r, reason) == owed' = owed \cup {[req |-> r, reason |-> reason, status |-> "owed"]}

Keyed(r) == KeyOf[r] # None
Claim(r) == KeyOf[r]

\* The wallet's debit key: stable for a caller's key, else fresh per invocation.
DebitKey(r) == IF Keyed(r) THEN KeyOf[r] ELSE r

Cash == <<debited, paid, swallowed, freeCalls, paidCalls>>
Ledgers == <<room, delivered, owed>>

\* compensateAndSummarize: what the account is owed becomes plan credits.
Sweep ==
    /\ room' = room + Cardinality({e \in owed : e.status = "owed"})
    /\ owed' = {[e EXCEPT !.status = "credited"] : e \in owed}

-----------------------------------------------------------------------------
(* The gate: claim, preview, collect *)

\* Faulty variant: the key is looked up and not claimed.
ArriveUnclaimed(r) ==
    /\ pc[r] = "idle"
    /\ Keyed(r) => claims[Claim(r)] # "completed"
    /\ Goto(r, "preview")
    /\ holds' = IF Keyed(r) THEN holds \cup {r} ELSE holds
    /\ UNCHANGED <<answer, claims, settled, Cash, Ledgers>>

\* gateIdempotency: the claim, or no key at all.
Arrive(r) ==
    /\ pc[r] = "idle"
    /\ Goto(r, "preview")
    /\ IF Keyed(r)
       THEN /\ claims[Claim(r)] = "none"
            /\ claims' = [claims EXCEPT ![Claim(r)] = "pending"]
            /\ holds' = holds \cup {r}
       ELSE UNCHANGED <<claims, holds>>
    /\ UNCHANGED <<answer, settled, Cash, Ledgers>>

\* A stored result is replayed; its _usage block sweeps the ledger too.
Replay(r) ==
    /\ pc[r] = "idle"
    /\ Keyed(r)
    /\ claims[Claim(r)] = "completed"
    /\ End(r, "replay")
    /\ Sweep
    /\ UNCHANGED <<claims, holds, settled, delivered, Cash>>

InProgress(r) ==
    /\ pc[r] = "idle"
    /\ Keyed(r)
    /\ claims[Claim(r)] = "pending"
    /\ End(r, "in_progress")
    /\ UNCHANGED <<claims, holds, settled, Cash, Ledgers>>

\* previewMcpToolOverage
Preview(r) ==
    /\ pc[r] = "preview"
    /\ Goto(r, IF room > 0 THEN "authorize" ELSE "free")
    /\ UNCHANGED <<answer, claims, holds, settled, Cash, Ledgers>>

\* consumeFreeCall: the gate marks the request settled whatever paid for it.
ConsumeFreeCall(r) ==
    /\ pc[r] = "free"
    /\ IF freeCalls > 0
       THEN /\ freeCalls' = freeCalls - 1
            /\ settled' = settled \cup {r}
            /\ Goto(r, "authorize")
       ELSE /\ Goto(r, IF Wallet THEN "wallet" ELSE "mppx")
            /\ UNCHANGED <<freeCalls, settled>>
    /\ UNCHANGED <<answer, claims, holds, debited, paid, swallowed, paidCalls, Ledgers>>

\* PAI'D moves money once per debit key.
Debit(r) ==
    /\ debited' = debited \cup {DebitKey(r)}
    /\ paid' = IF DebitKey(r) \in debited THEN paid ELSE paid \cup {<<r, "wallet">>}

\* recordPaidCall, best effort: the call that reaches FreeAfter earns one free call.
BookPaidCall(r) ==
    \/ /\ paidCalls' = paidCalls + 1
       /\ freeCalls' = IF paidCalls + 1 = FreeAfter THEN 1 ELSE freeCalls
    \/ r \in DbFaults /\ UNCHANGED <<paidCalls, freeCalls>>

WalletPays(r) ==
    /\ pc[r] = "wallet"
    /\ Debit(r)
    /\ BookPaidCall(r)
    /\ settled' = settled \cup {r}
    /\ Goto(r, "authorize")
    /\ UNCHANGED <<answer, claims, holds, swallowed, Ledgers>>

\* A 402 stops the call; any other 4xx is a definite rejection and mppx is next.
WalletRefuses(r) ==
    /\ pc[r] = "wallet"
    /\ Goto(r, "unpaid") \/ Goto(r, "mppx")
    /\ UNCHANGED <<answer, claims, holds, settled, Cash, Ledgers>>

\* Faulty variant: an unconfirmed debit falls through to the second rail.
WalletFallsThrough(r) ==
    /\ pc[r] = "wallet"
    /\ Debit(r) \/ UNCHANGED <<debited, paid>>
    /\ Goto(r, "mppx")
    /\ UNCHANGED <<answer, claims, holds, settled, swallowed, freeCalls, paidCalls, Ledgers>>

\* A timeout, a 5xx or a network error: the debit may have landed.
WalletAmbiguous(r) ==
    /\ pc[r] = "wallet"
    /\ Debit(r) \/ UNCHANGED <<debited, paid>>
    /\ Owe(r, "wallet_rail_ambiguous")
    /\ Goto(r, "unpaid")
    /\ UNCHANGED <<answer, claims, holds, settled, swallowed, freeCalls, paidCalls, room,
                   delivered>>

\* Faulty variant: the charge is not marked on the request.
MppxPaysUnmarked(r) ==
    /\ pc[r] = "mppx"
    /\ paid' = paid \cup {<<r, "mppx">>}
    /\ BookPaidCall(r)
    /\ Goto(r, "authorize")
    /\ UNCHANGED <<answer, claims, holds, settled, debited, swallowed, Ledgers>>

\* chargeMpp answers 200, and markInbandSettled.
MppxPays(r) ==
    /\ pc[r] = "mppx"
    /\ paid' = paid \cup {<<r, "mppx">>}
    /\ BookPaidCall(r)
    /\ settled' = settled \cup {r}
    /\ Goto(r, "authorize")
    /\ UNCHANGED <<answer, claims, holds, debited, swallowed, Ledgers>>

\* chargeMpp answers 402, or null: no rail is configured, or mppx has thrown before
\* it charged.  Null is no refusal: dispatch goes on with a call that has not paid.
MppxRefuses(r) ==
    /\ pc[r] = "mppx"
    /\ Goto(r, "unpaid") \/ Goto(r, "authorize")
    /\ UNCHANGED <<answer, claims, holds, settled, Cash, Ledgers>>

\* mppx throws after the charge has landed.  The catch makes null of it too, so the
\* request is not marked, and nobody knows of the money.
MppxThrows(r) ==
    /\ pc[r] = "mppx"
    /\ paid' = paid \cup {<<r, "mppx">>}
    /\ swallowed' = swallowed \cup {r}
    /\ Goto(r, "authorize")
    /\ UNCHANGED <<answer, claims, holds, settled, debited, freeCalls, paidCalls, Ledgers>>

\* releaseIdempotencyClaim: the pending row goes, if this request holds it.
Released(r) ==
    /\ claims' = IF r \in holds THEN [claims EXCEPT ![Claim(r)] = "none"] ELSE claims
    /\ holds' = holds \ {r}

\* Faulty variant: a call that is not paid for keeps its claim.
UnpaidKeepsClaim(r) ==
    /\ pc[r] = "unpaid"
    /\ End(r, "payment_required")
    /\ UNCHANGED <<claims, holds, settled, Cash, Ledgers>>

Unpaid(r) ==
    /\ pc[r] = "unpaid"
    /\ Released(r)
    /\ End(r, "payment_required")
    /\ UNCHANGED <<settled, Cash, Ledgers>>

-----------------------------------------------------------------------------
(* dispatch *)

\* authorizeAmount
Authorize(r) ==
    /\ pc[r] = "authorize"
    /\ Goto(r, IF room > 0 \/ r \in settled THEN "work" ELSE "caught")
    /\ UNCHANGED <<answer, claims, holds, settled, Cash, Ledgers>>

Work(r) ==
    /\ pc[r] = "work"
    /\ Goto(r, "capture") \/ Goto(r, "caught")
    /\ UNCHANGED <<answer, claims, holds, settled, Cash, Ledgers>>

\* captureMcpToolCredits
Capture(r) ==
    /\ pc[r] = "capture"
    /\ room' = IF room > 0 THEN room - 1 ELSE 0
    /\ delivered' = delivered \cup {r}
    /\ Goto(r, "resolve")
    /\ UNCHANGED <<answer, claims, holds, settled, owed, Cash>>

\* resolveIdempotencyClaim
Resolve(r) ==
    /\ pc[r] = "resolve"
    /\ claims' = IF r \in holds THEN [claims EXCEPT ![Claim(r)] = "completed"] ELSE claims
    /\ holds' = holds \ {r}
    /\ Goto(r, "usage")
    /\ UNCHANGED <<answer, settled, Cash, Ledgers>>

\* The _usage block.
Usage(r) ==
    /\ pc[r] = "usage"
    /\ Sweep
    /\ End(r, "ok")
    /\ UNCHANGED <<claims, holds, settled, delivered, Cash>>

LateFault(r) ==
    /\ r \in DbFaults
    /\ pc[r] \in {"capture", "resolve", "usage"}
    /\ Goto(r, "caught")
    /\ (pc[r] = "usage" /\ Sweep) \/ UNCHANGED <<room, owed>>
    /\ UNCHANGED <<answer, claims, holds, settled, delivered, Cash>>

\* The catch: release the claim, ...
Caught(r) ==
    /\ pc[r] = "caught"
    /\ Released(r)
    /\ Goto(r, "owe")
    /\ UNCHANGED <<answer, settled, Cash, Ledgers>>

\* ... record what it owes if the request is marked settled, and answer.
OweSettled(r) ==
    /\ pc[r] = "owe"
    /\ IF r \in settled
       THEN Owe(r, "settled_then_error") \/ (r \in DbFaults /\ UNCHANGED owed)
       ELSE UNCHANGED owed
    /\ End(r, "error")
    /\ UNCHANGED <<claims, holds, settled, room, delivered, Cash>>

\* A database error that no try encloses: the preview, the free call's UPDATE
\* (with or without effect), the entry for an ambiguous debit, or the release of
\* the claim.  Nothing lets go of the claim any more.
Escape(r) ==
    /\ r \in GateFaults
    /\ \/ pc[r] \in {"preview", "unpaid", "caught"} /\ UNCHANGED Cash
       \/ /\ pc[r] = "free"
          /\ freeCalls' \in {0, freeCalls}
          /\ UNCHANGED <<debited, paid, swallowed, paidCalls>>
       \/ /\ pc[r] = "wallet"
          /\ Debit(r) \/ UNCHANGED <<debited, paid>>
          /\ UNCHANGED <<swallowed, freeCalls, paidCalls>>
    /\ End(r, IF pc[r] = "unpaid" THEN "payment_required" ELSE "error")
    /\ UNCHANGED <<claims, holds, settled, Ledgers>>

-----------------------------------------------------------------------------

Gate(r) ==
    \/ Arrive(r) \/ Replay(r) \/ InProgress(r) \/ Preview(r) \/ ConsumeFreeCall(r)
    \/ WalletPays(r) \/ WalletRefuses(r) \/ WalletAmbiguous(r)
    \/ MppxPays(r) \/ MppxRefuses(r) \/ MppxThrows(r) \/ Unpaid(r)

Dispatch(r) ==
    \/ Authorize(r) \/ Work(r) \/ Capture(r) \/ Resolve(r) \/ Usage(r)
    \/ LateFault(r) \/ Caught(r) \/ OweSettled(r) \/ Escape(r)

Next == \E r \in Requests : Gate(r) \/ Dispatch(r)

Spec == Init /\ [][Next]_vars

FairSpec == Spec /\ \A r \in Requests : WF_vars(Gate(r) \/ Dispatch(r))

-----------------------------------------------------------------------------
(* Properties *)

HasPaid(r) == \E rail \in Rails : <<r, rail>> \in paid
OwedFor(r) == {e \in owed : e.req = r}

\* Cash that is not made whole, nor about to be in the request's own catch.
Kept(r) == HasPaid(r) /\ OwedFor(r) = {} /\ pc[r] \notin {"caught", "owe"}

\* An ambiguous wallet debit never falls through to the second rail: no request
\* moves cash on both.
OneRail ==
    \A r \in Requests : ~(<<r, "wallet">> \in paid /\ <<r, "mppx">> \in paid)

\* A replayed answer is that of a call with the same key that was delivered.
ReplayIsDelivered ==
    \A r \in Requests : answer[r] = "replay" =>
        \E q \in delivered : KeyOf[q] = KeyOf[r]

\* Nobody pays for nothing: a request that moved cash and has been answered was
\* delivered or is on the compensation ledger, unless a write of it could throw or
\* its charge was swallowed.
PaidIsDeliveredOrOwed ==
    \A r \in Requests \ (GateFaults \cup DbFaults \cup swallowed) :
        pc[r] = "ended" /\ HasPaid(r) => r \in delivered \/ OwedFor(r) # {}

\* One Idempotency-Key is charged at most once, net of what is made whole, by the
\* calls whose own writes succeed and whose charge was not swallowed, whatever
\* throws in the others under the key.
ChargedOncePerKey ==
    \A q, r \in Requests \ (DbFaults \cup swallowed) :
        Keyed(q) /\ KeyOf[q] = KeyOf[r] /\ Kept(q) /\ Kept(r) => q = r

\* No claim outlives the request that holds it, so a retry is never told that
\* the key is being processed when nobody processes it (releaseIdempotencyKey),
\* unless what threw was outside of dispatch's try.
NoOrphanClaim ==
    \A k \in Keys : claims[k] = "pending" =>
        \E r \in holds : KeyOf[r] = k /\ (pc[r] # "ended" \/ r \in GateFaults)

\* "... the customer paid for work that never happened" (dispatch's catch): who
\* is owed for a failed call did not get the work, unless it threw after the capture.
OwedNotDelivered ==
    \A e \in owed : e.reason = "settled_then_error" => e.req \notin delivered \ DbFaults

\* Nothing is owed out of nothing: behind the entry of a failed call is its own
\* cash, a debit under its key, or the free call that the account had earned.
OwedHasCause ==
    \A e \in owed : e.reason = "settled_then_error" =>
        HasPaid(e.req) \/ DebitKey(e.req) \in debited \/ paidCalls >= FreeAfter

\* The ledger of obligations is exact in both directions.
DeliveredOrOwed == PaidIsDeliveredOrOwed /\ OwedNotDelivered /\ OwedHasCause

\* Whatever rail refuses and whatever throws inside of dispatch, a claimed key is
\* completed or becomes free for a retry.
ClaimSettles ==
    \A k \in {key \in Keys : \A r \in GateFaults : KeyOf[r] # key} :
        claims[k] = "pending" ~> claims[k] # "pending"
=============================================================================
