--------------------------- MODULE PaidCallsProofs ---------------------------
(***************************************************************************)
(* What a paid call owes and is owed, for any number of requests and keys: *)
(* no call pays on two rails, whatever throws; a call whose own writes     *)
(* succeed pays for its work or is owed, is not made whole for work that   *)
(* was delivered, and is the only such call its key is charged for.        *)
(***************************************************************************)
EXTENDS PaidCalls, Functions, FiniteSetTheorems, TLAPS

\* Before the gate has collected.
Collecting == {"idle", "preview", "free", "wallet", "mppx"}

\* A request whose money has not moved yet has left no trace.
NothingYet ==
    \A r \in Requests : pc[r] \in Collecting =>
        /\ \A rail \in Rails : <<r, rail>> \notin paid
        /\ r \notin settled
        /\ r \notin delivered
        /\ \A e \in owed : e.req # r

\* Cash that moved is marked on the request, or already on the ledger, or its
\* charge was swallowed or its gate has thrown.
PaidIsMarked ==
    \A r \in Requests : HasPaid(r) =>
        \/ r \in settled
        \/ \E e \in owed : e.req = r
        \/ r \in swallowed
        \/ r \in GateFaults /\ pc[r] = "ended"

\* Where a request can be once the gate has collected for it.
SettledStages ==
    \A r \in settled : pc[r] \notin Collecting \cup {"unpaid"}

\* A request delivers when it captures, and is owed when it fails.
DeliveredStages ==
    \A r \in Requests \ DbFaults :
        /\ pc[r] \in {"resolve", "usage"} => r \in delivered
        /\ r \in delivered => pc[r] \in {"resolve", "usage", "ended"}

SettledEnds ==
    \A r \in settled \ (GateFaults \cup DbFaults) :
        pc[r] = "ended" => r \in delivered \/ \E e \in owed : e.req = r

OwedStages ==
    \A e \in owed : e.reason = "settled_then_error" =>
        pc[e.req] = "ended" /\ e.req \notin delivered \ DbFaults

\* A replay answers with what a call of the same key delivered.
CompletedIsDelivered ==
    \A k \in Keys : claims[k] = "completed" => \E q \in delivered : KeyOf[q] = k

ReplayInv ==
    /\ \A r \in Requests : pc[r] = "resolve" => r \in delivered
    /\ \A r \in holds : Keyed(r)
    /\ CompletedIsDelivered
    /\ ReplayIsDelivered

MoneyInv ==
    /\ OneRail
    /\ NothingYet
    /\ PaidIsMarked
    /\ SettledStages
    /\ DeliveredStages
    /\ SettledEnds
    /\ OwedStages

-----------------------------------------------------------------------------
(* Claims *)

Holding == {"preview", "free", "wallet", "mppx", "unpaid", "authorize", "work",
            "capture", "resolve", "caught"}

\* A request holds no claim before it has arrived or once it has let it go.
Unheld == {"idle", "usage", "owe", "ended"}

\* A key's owner holds its claim or has completed it.
Done(r) == r \in delivered /\ pc[r] \in {"usage", "ended"}
Owner(r) == r \in holds \/ Done(r)

\* A gate that threw ends its request and keeps the claim.
Escaped(r) == r \in GateFaults /\ pc[r] = "ended"

HoldersArePending ==
    /\ \A r \in holds : /\ Keyed(r)
                        /\ claims[Claim(r)] = "pending"
                        /\ pc[r] \notin Unheld \/ Escaped(r)
    /\ \A k \in Keys : claims[k] = "pending" => \E r \in holds : KeyOf[r] = k

KeyedHold ==
    \A r \in Requests \ DbFaults : Keyed(r) /\ pc[r] \in Holding => r \in holds

DoneIsCompleted ==
    \A r \in Requests \ DbFaults :
        Keyed(r) /\ Done(r) => claims[Claim(r)] = "completed"

OneHolder == \A q, r \in holds : KeyOf[q] = KeyOf[r] => q = r

OneOwner ==
    \A q, r \in Requests \ DbFaults :
        Keyed(q) /\ KeyOf[q] = KeyOf[r] /\ Owner(q) /\ Owner(r) => q = r

\* The key of a call that paid for nothing and is not made whole stays claimed.
PaidIsHeld ==
    \A r \in Requests \ (DbFaults \cup swallowed) :
        Keyed(r) /\ HasPaid(r) /\ pc[r] = "ended" =>
            r \in delivered \/ r \in holds \/ \E e \in owed : e.req = r

ClaimInv ==
    /\ HoldersArePending
    /\ KeyedHold
    /\ DoneIsCompleted
    /\ OneHolder
    /\ OneOwner

-----------------------------------------------------------------------------
(* Type correctness *)

USE DEF Goto, End, Keyed, Claim, Cash, Ledgers, Stages, Answers, Rails, Reasons

\* The ledger only ever has finitely many entries.
FiniteLedger == IsFiniteSet(owed)

LEMMA OweTyped ==
    ASSUME TypeOK, FiniteLedger, NEW r \in Requests, NEW reason \in Reasons, Owe(r, reason)
    PROVE  owed' \subseteq Entries /\ FiniteLedger'
<1>1. [req |-> r, reason |-> reason, status |-> "owed"] \in Entries
      BY DEF Entries
<1> QED
    BY <1>1, FS_AddElement DEF TypeOK, FiniteLedger, Owe

LEMMA SweepTyped ==
    ASSUME TypeOK, FiniteLedger, Sweep
    PROVE  owed' \subseteq Entries /\ FiniteLedger' /\ room' \in Nat
<1>1. owed' = {[e EXCEPT !.status = "credited"] : e \in owed}
      BY DEF Sweep
<1>2. owed' \subseteq Entries
  <2>1. \A e \in Entries : [e EXCEPT !.status = "credited"] \in Entries
        BY DEF Entries
  <2> QED
      BY <1>1, <2>1 DEF TypeOK
<1>3. FiniteLedger'
  <2> DEFINE f == [e \in owed |-> [e EXCEPT !.status = "credited"]]
  <2>1. f \in Surjection(owed, owed')
        BY <1>1 DEF Surjection
  <2> QED
      BY <2>1, FS_Surjection DEF FiniteLedger
<1>4. Cardinality({e \in owed : e.status = "owed"}) \in Nat
      BY FS_Subset, FS_CardinalityType DEF FiniteLedger
<1> QED
    BY <1>2, <1>3, <1>4 DEF Sweep, TypeOK

LEMMA DebitTyped ==
    ASSUME TypeOK, NEW r \in Requests, Debit(r)
    PROVE  debited' \subseteq Keys \cup Requests /\ paid' \subseteq Requests \X Rails
BY RequestsAssumption DEF TypeOK, Debit, DebitKey

LEMMA BookTyped ==
    ASSUME TypeOK, NEW r, BookPaidCall(r)
    PROVE  paidCalls' \in Nat /\ freeCalls' \in {0, 1}
BY DEF TypeOK, BookPaidCall

LEMMA InitTypeOK == Init => TypeOK /\ FiniteLedger
BY FS_EmptySet, AmountsAssumption DEF Init, TypeOK, FiniteLedger, Entries

LEMMA NextTypeOK == TypeOK /\ FiniteLedger /\ [Next]_vars => TypeOK' /\ FiniteLedger'
<1> SUFFICES ASSUME TypeOK, FiniteLedger, [Next]_vars
             PROVE  TypeOK' /\ FiniteLedger'
    OBVIOUS
<1> USE RequestsAssumption DEF TypeOK
<1>1. ASSUME NEW r \in Requests, Arrive(r) \/ InProgress(r)
      PROVE  TypeOK' /\ FiniteLedger'
      BY <1>1 DEF Arrive, InProgress, FiniteLedger
<1>2. ASSUME NEW r \in Requests, Preview(r) \/ Authorize(r) \/ Work(r) \/ WalletRefuses(r) \/ MppxRefuses(r)
             \/ MppxThrows(r)
      PROVE  TypeOK' /\ FiniteLedger'
      BY <1>2 DEF Preview, Authorize, Work, WalletRefuses, MppxRefuses, MppxThrows, FiniteLedger
<1>3. ASSUME NEW r \in Requests, ConsumeFreeCall(r)
      PROVE  TypeOK' /\ FiniteLedger'
      BY <1>3 DEF ConsumeFreeCall, FiniteLedger
<1>4. ASSUME NEW r \in Requests, WalletPays(r)
      PROVE  TypeOK' /\ FiniteLedger'
      BY <1>4, DebitTyped, BookTyped DEF WalletPays, FiniteLedger
<1>5. ASSUME NEW r \in Requests, WalletAmbiguous(r)
      PROVE  TypeOK' /\ FiniteLedger'
  <2>1. owed' \subseteq Entries /\ FiniteLedger'
        BY <1>5, OweTyped DEF WalletAmbiguous
  <2>2. debited' \subseteq Keys \cup Requests /\ paid' \subseteq Requests \X Rails
        BY <1>5, DebitTyped DEF WalletAmbiguous
  <2> QED
      BY <1>5, <2>1, <2>2 DEF WalletAmbiguous
<1>6. ASSUME NEW r \in Requests, MppxPays(r)
      PROVE  TypeOK' /\ FiniteLedger'
      BY <1>6, BookTyped DEF MppxPays, FiniteLedger
<1>7. ASSUME NEW r \in Requests, Unpaid(r) \/ Caught(r)
      PROVE  TypeOK' /\ FiniteLedger'
      BY <1>7 DEF Unpaid, Caught, Released, FiniteLedger
<1>8. ASSUME NEW r \in Requests, Capture(r)
      PROVE  TypeOK' /\ FiniteLedger'
      BY <1>8 DEF Capture, FiniteLedger
<1>9. ASSUME NEW r \in Requests, Resolve(r)
      PROVE  TypeOK' /\ FiniteLedger'
      BY <1>9 DEF Resolve, FiniteLedger
<1>10. ASSUME NEW r \in Requests, Usage(r)
       PROVE  TypeOK' /\ FiniteLedger'
       BY <1>10, SweepTyped DEF Usage
<1>11. ASSUME NEW r \in Requests, OweSettled(r)
       PROVE  TypeOK' /\ FiniteLedger'
  <2>1. owed' \subseteq Entries /\ FiniteLedger'
        BY <1>11, OweTyped DEF OweSettled, FiniteLedger
  <2> QED
      BY <1>11, <2>1 DEF OweSettled
<1>12. ASSUME NEW r \in Requests, Replay(r)
       PROVE  TypeOK' /\ FiniteLedger'
       BY <1>12, SweepTyped DEF Replay
<1>13. ASSUME NEW r \in Requests, LateFault(r)
       PROVE  TypeOK' /\ FiniteLedger'
  <2>1. owed' \subseteq Entries /\ FiniteLedger' /\ room' \in Nat
        BY <1>13, SweepTyped DEF LateFault, FiniteLedger
  <2> QED
      BY <1>13, <2>1 DEF LateFault
<1>14. ASSUME NEW r \in Requests, Escape(r)
       PROVE  TypeOK' /\ FiniteLedger'
  <2>1. debited' \subseteq Keys \cup Requests /\ paid' \subseteq Requests \X Rails
        BY <1>14, DebitTyped DEF Escape
  <2> QED
      BY <1>14, <2>1 DEF Escape, FiniteLedger
<1>15. CASE UNCHANGED vars
       BY <1>15 DEF vars, FiniteLedger
<1> QED
    BY <1>1, <1>2, <1>3, <1>4, <1>5, <1>6, <1>7, <1>8, <1>9, <1>10, <1>11, <1>12, <1>13, <1>14, <1>15
       DEF Next, Gate, Dispatch

\* Requests, claims and ledgers keep their types; the account never has more
\* than one free call, nor less than none.
THEOREM TypeCorrect == Spec => []TypeOK
<1>1. Init => TypeOK /\ FiniteLedger
      BY InitTypeOK
<1>2. TypeOK /\ FiniteLedger /\ [Next]_vars => TypeOK' /\ FiniteLedger'
      BY NextTypeOK
<1> QED
    BY <1>1, <1>2, PTL DEF Spec

-----------------------------------------------------------------------------
(* Money *)

LEMMA InitMoney == Init => MoneyInv
BY DEF Init, MoneyInv, OneRail, NothingYet, PaidIsMarked, SettledStages, DeliveredStages,
   SettledEnds, OwedStages, HasPaid

\* The sweep keeps whom each entry is for, and why.
LEMMA SweepKeepsEntries ==
    ASSUME TypeOK, Sweep
    PROVE  /\ \A e \in owed' : \E d \in owed : d.req = e.req /\ d.reason = e.reason
           /\ \A d \in owed : \E e \in owed' : d.req = e.req /\ d.reason = e.reason
<1>1. owed' = {[e EXCEPT !.status = "credited"] : e \in owed}
      BY DEF Sweep
<1>2. \A e \in owed : LET d == [e EXCEPT !.status = "credited"]
                      IN  d.req = e.req /\ d.reason = e.reason
      BY DEF TypeOK, Entries
<1> QED
    BY <1>1, <1>2

\* A step that sweeps the ledger and moves one request on.
LEMMA SweepKeepsMoney ==
    ASSUME TypeOK, MoneyInv, Sweep, UNCHANGED <<settled, delivered, paid, swallowed>>,
           NEW r \in Requests, NEW to \in {"ended", "caught"}, pc' = [pc EXCEPT ![r] = to],
           pc[r] # "ended",
           r \notin DbFaults => to = "ended" /\ (r \in settled => r \in delivered)
    PROVE  MoneyInv'
<1> USE DEF TypeOK, MoneyInv, OneRail, NothingYet, PaidIsMarked, SettledStages,
        DeliveredStages, SettledEnds, OwedStages, HasPaid, Collecting
<1>1. /\ \A e \in owed' : \E d \in owed : d.req = e.req /\ d.reason = e.reason
      /\ \A d \in owed : \E e \in owed' : d.req = e.req /\ d.reason = e.reason
      BY SweepKeepsEntries
<1>2. \A e \in owed : e.req \in Requests
      BY DEF Entries
<1>3. OneRail' /\ SettledStages' /\ DeliveredStages'
      OBVIOUS
<1>4. NothingYet'
      BY <1>1
<1>5. PaidIsMarked'
  <2> SUFFICES ASSUME NEW q \in Requests, HasPaid(q)', q \notin swallowed,
                      ~(q \in GateFaults /\ pc'[q] = "ended")
               PROVE  q \in settled' \/ \E e \in owed' : e.req = q
      OBVIOUS
  <2>1. q \in settled \/ \E d \in owed : d.req = q
        OBVIOUS
  <2> QED
      BY <1>1, <2>1
<1>6. SettledEnds'
  <2> SUFFICES ASSUME NEW q \in settled \ (GateFaults \cup DbFaults), pc'[q] = "ended"
               PROVE  q \in delivered \/ \E e \in owed' : e.req = q
      OBVIOUS
  <2>1. CASE q = r
        BY <2>1
  <2>2. CASE q # r
    <3>1. q \in delivered \/ \E d \in owed : d.req = q
          BY <2>2
    <3> QED
        BY <1>1, <3>1
  <2> QED
      BY <2>1, <2>2
<1>7. OwedStages'
  <2> SUFFICES ASSUME NEW e \in owed', e.reason = "settled_then_error"
               PROVE  pc'[e.req] = "ended" /\ e.req \notin delivered \ DbFaults
      OBVIOUS
  <2>1. PICK d \in owed : d.req = e.req /\ d.reason = e.reason
        BY <1>1
  <2>2. d.req \in Requests /\ pc[d.req] = "ended" /\ d.req \notin delivered \ DbFaults
        BY <1>2, <2>1
  <2> QED
      BY <2>1, <2>2
<1> QED
    BY <1>3, <1>4, <1>5, <1>6, <1>7

\* An answer is final.
LEMMA EndedStays ==
    ASSUME TypeOK, [Next]_vars
    PROVE  \A q \in Requests : pc[q] = "ended" => pc'[q] = "ended"
<1>1. \/ pc' = pc
      \/ \E r \in Requests, to \in Stages : pc[r] # "ended" /\ pc' = [pc EXCEPT ![r] = to]
      BY DEF Next, Gate, Dispatch, vars, Arrive, Replay, InProgress, Preview, ConsumeFreeCall,
         WalletPays, WalletRefuses, WalletAmbiguous, MppxPays, MppxRefuses, MppxThrows, Unpaid,
         Authorize, Work, Capture, Resolve, Usage, LateFault, Caught, OweSettled, Escape
<1> QED
    BY <1>1 DEF TypeOK

\* Cash only moves while the gate collects, and once for each request.
LEMMA NextOneRail == TypeOK /\ OneRail /\ NothingYet /\ [Next]_vars => OneRail'
<1> SUFFICES ASSUME TypeOK, OneRail, NothingYet, [Next]_vars
             PROVE  OneRail'
    OBVIOUS
<1>1. ASSUME NEW r \in Requests, NEW rail \in Rails, pc[r] \in Collecting,
             paid' \subseteq paid \cup {<<r, rail>>}
      PROVE  OneRail'
      BY <1>1 DEF OneRail, NothingYet
<1>2. CASE paid' = paid
      BY <1>2 DEF OneRail
<1>3. ASSUME NEW r \in Requests,
             WalletPays(r) \/ WalletAmbiguous(r) \/ MppxPays(r) \/ MppxThrows(r) \/ Escape(r)
      PROVE  OneRail'
  <2>1. paid' = paid \/ (pc[r] \in Collecting /\ \E rail \in Rails : paid' \subseteq paid \cup {<<r, rail>>})
        BY <1>3 DEF WalletPays, WalletAmbiguous, MppxPays, MppxThrows, Escape, Debit, Collecting
  <2> QED
      BY <1>1, <1>2, <2>1
<1>4. \/ paid' = paid
      \/ \E r \in Requests : WalletPays(r) \/ WalletAmbiguous(r) \/ MppxPays(r)
                             \/ MppxThrows(r) \/ Escape(r)
      BY DEF Next, Gate, Dispatch, vars, Arrive, Replay, InProgress, Preview, ConsumeFreeCall,
         WalletRefuses, MppxRefuses, Unpaid, Authorize, Work, Capture, Resolve, Usage,
         LateFault, Caught, OweSettled
<1> QED
    BY <1>2, <1>3, <1>4

LEMMA NextMoney == TypeOK /\ MoneyInv /\ [Next]_vars => MoneyInv'
<1> SUFFICES ASSUME TypeOK, MoneyInv, [Next]_vars
             PROVE  MoneyInv'
    OBVIOUS
<1>23. OneRail'
     BY NextOneRail DEF MoneyInv
<1> USE DEF TypeOK, MoneyInv, OneRail, NothingYet, PaidIsMarked, SettledStages,
        DeliveredStages, SettledEnds, OwedStages, HasPaid, Collecting
<1>0. \A e \in owed : e.req \in Requests
     BY DEF Entries
<1>1. ASSUME NEW r \in Requests, Arrive(r)
     PROVE  MoneyInv'
  <2>1. OneRail'
        BY <1>23
  <2>2. NothingYet'
        BY <1>1 DEF Arrive
  <2>3. PaidIsMarked'
        BY <1>1 DEF Arrive
  <2>4. SettledStages'
        BY <1>1 DEF Arrive
  <2>5. DeliveredStages'
        BY <1>1 DEF Arrive
  <2>6. SettledEnds'
        BY <1>1 DEF Arrive
  <2>7. OwedStages'
        BY <1>0, <1>1 DEF Arrive
  <2> QED
      BY <2>1, <2>2, <2>3, <2>4, <2>5, <2>6, <2>7
<1>2. ASSUME NEW r \in Requests, Preview(r)
     PROVE  MoneyInv'
     BY <1>2 DEF Preview
<1>3. ASSUME NEW r \in Requests, ConsumeFreeCall(r)
     PROVE  MoneyInv'
  <2>1. OneRail'
        BY <1>23
  <2>2. NothingYet'
        BY <1>3 DEF ConsumeFreeCall
  <2>3. PaidIsMarked'
    <3>1. settled \subseteq settled' /\ UNCHANGED <<paid, swallowed, owed>>
          BY <1>3 DEF ConsumeFreeCall
    <3> QED
        BY <3>1, EndedStays
  <2>4. SettledStages'
        BY <1>3 DEF ConsumeFreeCall
  <2>5. DeliveredStages'
        BY <1>3 DEF ConsumeFreeCall
  <2>6. SettledEnds'
        BY <1>3 DEF ConsumeFreeCall
  <2>7. OwedStages'
        BY <1>0, <1>3 DEF ConsumeFreeCall
  <2> QED
      BY <2>1, <2>2, <2>3, <2>4, <2>5, <2>6, <2>7
<1>4. ASSUME NEW r \in Requests, WalletPays(r)
     PROVE  MoneyInv'
     BY <1>4, <1>23 DEF WalletPays, Debit
<1>5. ASSUME NEW r \in Requests, WalletRefuses(r)
     PROVE  MoneyInv'
  <2>1. OneRail'
        BY <1>23
  <2>2. NothingYet'
        BY <1>5 DEF WalletRefuses
  <2>3. PaidIsMarked'
        BY <1>5 DEF WalletRefuses
  <2>4. SettledStages'
        BY <1>5 DEF WalletRefuses
  <2>5. DeliveredStages'
        BY <1>5 DEF WalletRefuses
  <2>6. SettledEnds'
        BY <1>5 DEF WalletRefuses
  <2>7. OwedStages'
        BY <1>0, <1>5 DEF WalletRefuses
  <2> QED
      BY <2>1, <2>2, <2>3, <2>4, <2>5, <2>6, <2>7
<1>6. ASSUME NEW r \in Requests, WalletAmbiguous(r)
     PROVE  MoneyInv'
  <2>1. OneRail'
        BY <1>23
  <2>2. NothingYet'
        BY <1>6 DEF WalletAmbiguous, Debit, Owe
  <2>3. PaidIsMarked'
    <3>0. Owe(r, "wallet_rail_ambiguous") /\ UNCHANGED <<settled, swallowed>>
          BY <1>6 DEF WalletAmbiguous
    <3>1. /\ paid' \subseteq paid \cup {<<r, "wallet">>}
          /\ owed \subseteq owed'
          /\ \E e \in owed' : e.req = r
      <4>1. paid' \subseteq paid \cup {<<r, "wallet">>}
            BY <1>6 DEF WalletAmbiguous, Debit
      <4>2. [req |-> r, reason |-> "wallet_rail_ambiguous", status |-> "owed"] \in owed'
            BY <3>0 DEF Owe
      <4>3. owed \subseteq owed'
            BY <3>0 DEF Owe
      <4> QED
          BY <4>1, <4>2, <4>3
    <3> SUFFICES ASSUME NEW q \in Requests, q # r, HasPaid(q)', q \notin swallowed,
                        ~(q \in GateFaults /\ pc'[q] = "ended")
                 PROVE  q \in settled' \/ \E e \in owed' : e.req = q
        BY <3>0, <3>1
    <3>2. HasPaid(q) /\ ~(q \in GateFaults /\ pc[q] = "ended")
          BY <3>1, EndedStays
    <3> QED
        BY <3>0, <3>1, <3>2
  <2>4. SettledStages'
        BY <1>6 DEF WalletAmbiguous, Debit, Owe
  <2>5. DeliveredStages'
        BY <1>6 DEF WalletAmbiguous, Debit, Owe
  <2>6. SettledEnds'
        BY <1>6 DEF WalletAmbiguous, Debit, Owe
  <2>7. OwedStages'
        BY <1>0, <1>6 DEF WalletAmbiguous, Debit, Owe
  <2> QED
      BY <2>1, <2>2, <2>3, <2>4, <2>5, <2>6, <2>7
<1>7. ASSUME NEW r \in Requests, MppxPays(r)
     PROVE  MoneyInv'
     BY <1>7, <1>23 DEF MppxPays
<1>8. ASSUME NEW r \in Requests, MppxRefuses(r)
     PROVE  MoneyInv'
  <2>1. OneRail'
        BY <1>23
  <2>2. NothingYet'
        BY <1>8 DEF MppxRefuses
  <2>3. PaidIsMarked'
        BY <1>8 DEF MppxRefuses
  <2>4. SettledStages'
        BY <1>8 DEF MppxRefuses
  <2>5. DeliveredStages'
        BY <1>8 DEF MppxRefuses
  <2>6. SettledEnds'
        BY <1>8 DEF MppxRefuses
  <2>7. OwedStages'
        BY <1>0, <1>8 DEF MppxRefuses
  <2> QED
      BY <2>1, <2>2, <2>3, <2>4, <2>5, <2>6, <2>7
<1>22. ASSUME NEW r \in Requests, MppxThrows(r)
     PROVE  MoneyInv'
     BY <1>22, <1>23 DEF MppxThrows
<1>9. ASSUME NEW r \in Requests, Unpaid(r)
     PROVE  MoneyInv'
     BY <1>9 DEF Unpaid
<1>10. ASSUME NEW r \in Requests, Authorize(r)
     PROVE  MoneyInv'
     BY <1>10 DEF Authorize
<1>11. ASSUME NEW r \in Requests, Work(r)
     PROVE  MoneyInv'
  <2>1. OneRail'
        BY <1>23
  <2>2. NothingYet'
        BY <1>11 DEF Work
  <2>3. PaidIsMarked'
    <3>1. UNCHANGED <<paid, swallowed, settled, owed>>
          BY <1>11 DEF Work
    <3> QED
        BY <3>1, EndedStays
  <2>4. SettledStages'
        BY <1>11 DEF Work
  <2>5. DeliveredStages'
        BY <1>11 DEF Work
  <2>6. SettledEnds'
        BY <1>11 DEF Work
  <2>7. OwedStages'
        BY <1>0, <1>11 DEF Work
  <2> QED
      BY <2>1, <2>2, <2>3, <2>4, <2>5, <2>6, <2>7
<1>12. ASSUME NEW r \in Requests, Capture(r)
     PROVE  MoneyInv'
     BY <1>12 DEF Capture
<1>13. ASSUME NEW r \in Requests, Resolve(r)
     PROVE  MoneyInv'
     BY <1>13 DEF Resolve
<1>14. ASSUME NEW r \in Requests, Usage(r)
     PROVE  MoneyInv'
     BY <1>14, SweepKeepsMoney DEF Usage
<1>15. ASSUME NEW r \in Requests, LateFault(r)
     PROVE  MoneyInv'
  <2>1. CASE Sweep
        BY <1>15, <2>1, SweepKeepsMoney DEF LateFault
  <2>2. CASE UNCHANGED <<room, owed>>
        BY <1>15, <2>2 DEF LateFault
  <2> QED
      BY <1>15, <2>1, <2>2 DEF LateFault
<1>16. ASSUME NEW r \in Requests, Caught(r)
     PROVE  MoneyInv'
     BY <1>16 DEF Caught
<1>17. ASSUME NEW r \in Requests, OweSettled(r)
     PROVE  MoneyInv'
  <2>1. OneRail'
        BY <1>23
  <2>2. NothingYet'
        BY <1>17 DEF OweSettled, Owe
  <2>3. PaidIsMarked'
        BY <1>17 DEF OweSettled, Owe
  <2>4. SettledStages'
        BY <1>17 DEF OweSettled, Owe
  <2>5. DeliveredStages'
        BY <1>17 DEF OweSettled, Owe
  <2>6. SettledEnds'
    <3> SUFFICES ASSUME NEW q \in settled \ (GateFaults \cup DbFaults), pc'[q] = "ended"
                 PROVE  q \in delivered \/ \E e \in owed' : e.req = q
        BY <1>17 DEF OweSettled
    <3>1. CASE q = r
      <4>1. Owe(r, "settled_then_error")
            BY <1>17, <3>1 DEF OweSettled
      <4>2. [req |-> r, reason |-> "settled_then_error", status |-> "owed"] \in owed'
            BY <4>1 DEF Owe
      <4> QED
          BY <3>1, <4>2
    <3>2. CASE q # r
      <4>1. pc[q] = "ended" /\ owed \subseteq owed'
            BY <1>17, <3>2 DEF OweSettled, Owe
      <4> QED
          BY <4>1
    <3> QED
        BY <3>1, <3>2
  <2>7. OwedStages'
        BY <1>0, <1>17 DEF OweSettled, Owe
  <2> QED
      BY <2>1, <2>2, <2>3, <2>4, <2>5, <2>6, <2>7
<1>18. ASSUME NEW r \in Requests, InProgress(r)
     PROVE  MoneyInv'
     BY <1>18 DEF InProgress
<1>19. ASSUME NEW r \in Requests, Replay(r)
     PROVE  MoneyInv'
     BY <1>19, SweepKeepsMoney DEF Replay
<1>20. ASSUME NEW r \in Requests, Escape(r)
     PROVE  MoneyInv'
  <2>0. /\ pc[r] \in {"preview", "free", "wallet", "unpaid", "caught"}
        /\ pc' = [pc EXCEPT ![r] = "ended"]
        /\ UNCHANGED <<settled, delivered, swallowed, owed>>
        /\ paid' \subseteq paid \cup {<<r, "wallet">>}
        /\ paid' # paid => pc[r] = "wallet"
        /\ r \in GateFaults
        BY <1>20 DEF Escape, Debit
  <2>1. OneRail'
        BY <1>23
  <2>2. NothingYet'
        BY <2>0
  <2>3. PaidIsMarked'
    <3>1. pc'[r] = "ended"
          BY <2>0
    <3>2. ASSUME NEW q \in Requests, q # r, HasPaid(q)'
          PROVE  \/ q \in settled
                 \/ \E e \in owed : e.req = q
                 \/ q \in swallowed
                 \/ q \in GateFaults /\ pc'[q] = "ended"
      <4>1. HasPaid(q)
            BY <2>0, <3>2
      <4> QED
          BY <4>1, EndedStays
    <3> QED
        BY <2>0, <3>1, <3>2
  <2>4. SettledStages'
        BY <2>0
  <2>5. DeliveredStages'
        BY <2>0
  <2>6. SettledEnds'
        BY <2>0
  <2>7. OwedStages'
        BY <1>0, <2>0
  <2> QED
      BY <2>1, <2>2, <2>3, <2>4, <2>5, <2>6, <2>7
<1>21. CASE UNCHANGED vars
     BY <1>21 DEF vars
<1> QED
    BY <1>1, <1>2, <1>3, <1>4, <1>5, <1>6, <1>7, <1>8, <1>9, <1>10, <1>11, <1>12, <1>13, <1>14,
       <1>15, <1>16, <1>17, <1>18, <1>19, <1>20, <1>21, <1>22 DEF Next, Gate, Dispatch

-----------------------------------------------------------------------------
(* Claims *)

LEMMA InitClaims == Init => ClaimInv
BY DEF Init, ClaimInv, HoldersArePending, KeyedHold, DoneIsCompleted, OneHolder,
   OneOwner, Owner, Done, Holding

\* A step that leaves the claims alone and moves one request on.
LEMMA MoveKeepsClaims ==
    ASSUME TypeOK, ClaimInv, NEW r \in Requests, NEW to,
           UNCHANGED <<claims, holds>>, pc' = [pc EXCEPT ![r] = to],
           r \in holds => to \notin Unheld \/ (r \in GateFaults /\ to = "ended"),
           r \notin DbFaults /\ Keyed(r) /\ to \in Holding => pc[r] \in Holding,
           \A q \in Requests \ DbFaults : Done(q)' => Done(q)
    PROVE  ClaimInv'
<1> USE DEF TypeOK, ClaimInv
<1>1. HoldersArePending'
      BY DEF HoldersArePending, Escaped
<1>2. KeyedHold'
      BY DEF KeyedHold
<1>3. DoneIsCompleted'
      BY DEF DoneIsCompleted
<1>4. OneHolder'
      BY DEF OneHolder
<1>5. OneOwner'
      BY DEF OneOwner, Owner
<1> QED
    BY <1>1, <1>2, <1>3, <1>4, <1>5

LEMMA ClaimKeepsClaims ==
    ASSUME TypeOK, ClaimInv, NEW r \in Requests, pc[r] = "idle",
           Keyed(r), claims[Claim(r)] = "none",
           claims' = [claims EXCEPT ![Claim(r)] = "pending"],
           holds' = holds \cup {r}, pc' = [pc EXCEPT ![r] = "preview"],
           delivered' = delivered
    PROVE  ClaimInv'
<1> USE RequestsAssumption DEF TypeOK, ClaimInv
<1>1. Claim(r) \in Keys
      OBVIOUS
<1>2. \A q \in holds : KeyOf[q] # KeyOf[r]
      BY DEF HoldersArePending
<1>3. HoldersArePending'
      BY <1>1, <1>2 DEF HoldersArePending, Unheld, Escaped
<1>4. KeyedHold'
      BY DEF KeyedHold
<1>5. \A q \in Requests : Done(q)' => Done(q) /\ q # r
      BY DEF Done
<1>6. \A q \in Requests \ DbFaults : Done(q) => KeyOf[q] # KeyOf[r]
      BY DEF DoneIsCompleted
<1>7. DoneIsCompleted'
      BY <1>1, <1>5, <1>6 DEF DoneIsCompleted
<1>8. OneHolder'
      BY <1>2 DEF OneHolder
<1>9. OneOwner'
      BY <1>2, <1>5, <1>6 DEF OneOwner, Owner
<1> QED
    BY <1>3, <1>4, <1>7, <1>8, <1>9

LEMMA ReleaseKeepsClaims ==
    ASSUME TypeOK, ClaimInv, DeliveredStages, NEW r \in Requests, NEW to \in {"owe", "ended"},
           pc[r] \in {"unpaid", "caught"}, Released(r),
           pc' = [pc EXCEPT ![r] = to], delivered' = delivered
    PROVE  ClaimInv'
<1> USE RequestsAssumption DEF TypeOK, ClaimInv, Released
<1>1. \A q \in holds : KeyOf[q] = KeyOf[r] /\ r \in holds => q = r
      BY DEF OneHolder
<1>2. r \in holds => Claim(r) \in Keys
      BY DEF HoldersArePending
<1>3. HoldersArePending'
      BY <1>1, <1>2 DEF HoldersArePending, Escaped
<1>4. KeyedHold'
      BY DEF KeyedHold, Holding
<1>5. \A q \in Requests \ DbFaults : Done(q)' => Done(q) /\ q # r
      BY DEF Done, DeliveredStages
<1>6. r \in holds => \A q \in Requests \ DbFaults : Done(q) => KeyOf[q] # KeyOf[r]
      BY DEF DoneIsCompleted, HoldersArePending
<1>7. DoneIsCompleted'
      BY <1>2, <1>5, <1>6 DEF DoneIsCompleted
<1>8. OneHolder'
      BY DEF OneHolder
<1>9. OneOwner'
      BY <1>5 DEF OneOwner, Owner
<1> QED
    BY <1>3, <1>4, <1>7, <1>8, <1>9

LEMMA ResolveKeepsClaims ==
    ASSUME TypeOK, ClaimInv, NEW r \in Requests, Resolve(r)
    PROVE  ClaimInv'
<1> USE RequestsAssumption DEF TypeOK, ClaimInv, Resolve
<1>1. \A q \in holds : KeyOf[q] = KeyOf[r] /\ r \in holds => q = r
      BY DEF OneHolder
<1>2. r \in holds => Claim(r) \in Keys
      BY DEF HoldersArePending
<1>3. HoldersArePending'
      BY <1>1, <1>2 DEF HoldersArePending, Unheld, Escaped
<1>4. KeyedHold'
      BY DEF KeyedHold, Holding
<1>5. \A q \in Requests : q # r => (Done(q)' <=> Done(q))
      BY DEF Done
<1>6. r \notin DbFaults /\ Keyed(r) => r \in holds
      BY DEF KeyedHold, Holding
<1>7. r \notin DbFaults /\ Keyed(r) => \A q \in Requests \ DbFaults : Done(q) /\ q # r => KeyOf[q] # KeyOf[r]
      BY <1>6 DEF OneOwner, Owner
<1>8. DoneIsCompleted'
      BY <1>2, <1>5, <1>6, <1>7 DEF DoneIsCompleted
<1>9. OneHolder'
      BY DEF OneHolder
<1>10. OneOwner'
      BY <1>1, <1>5, <1>6, <1>7 DEF OneOwner, Owner
<1> QED
    BY <1>3, <1>4, <1>8, <1>9, <1>10

LEMMA NextClaims ==
    TypeOK /\ MoneyInv /\ ClaimInv /\ [Next]_vars => ClaimInv'
<1> SUFFICES ASSUME TypeOK, MoneyInv, ClaimInv, [Next]_vars
             PROVE  ClaimInv'
    OBVIOUS
<1>0. DeliveredStages /\ NothingYet
      BY DEF MoneyInv
<1>1. ASSUME NEW r \in Requests, Arrive(r)
      PROVE  ClaimInv'
  <2>1. CASE Keyed(r)
        BY <1>1, <2>1, ClaimKeepsClaims DEF Arrive
  <2>2. CASE ~Keyed(r)
        BY <1>1, <2>2, MoveKeepsClaims DEF Arrive, Done, Unheld, ClaimInv, HoldersArePending, TypeOK
  <2> QED
      BY <2>1, <2>2
<1>2. ASSUME NEW r \in Requests, NEW to \in Stages, UNCHANGED <<claims, holds>>,
             pc' = [pc EXCEPT ![r] = to], to \notin Unheld,
             pc[r] \in Holding \/ to \notin Holding,
             delivered' = delivered \/ (delivered' = delivered \cup {r} /\ pc[r] \in Holding)
      PROVE  ClaimInv'
      BY <1>2, MoveKeepsClaims DEF Done, Unheld, TypeOK
<1>3. ASSUME NEW r \in Requests,
             Preview(r) \/ ConsumeFreeCall(r) \/ WalletPays(r) \/ WalletRefuses(r)
             \/ WalletAmbiguous(r) \/ MppxPays(r) \/ MppxRefuses(r) \/ MppxThrows(r)
      PROVE  ClaimInv'
      BY <1>2, <1>3 DEF Preview, ConsumeFreeCall, WalletPays, WalletRefuses, WalletAmbiguous,
         MppxPays, MppxRefuses, MppxThrows, Holding, Unheld
<1>4. ASSUME NEW r \in Requests, Authorize(r) \/ Work(r)
      PROVE  ClaimInv'
      BY <1>2, <1>4 DEF Authorize, Work, Holding, Unheld
<1>5. ASSUME NEW r \in Requests, Capture(r)
      PROVE  ClaimInv'
      BY <1>2, <1>5 DEF Capture, Holding, Unheld
<1>6. ASSUME NEW r \in Requests, Unpaid(r)
      PROVE  ClaimInv'
      BY <1>0, <1>6, ReleaseKeepsClaims DEF Unpaid
<1>7. ASSUME NEW r \in Requests, Caught(r)
      PROVE  ClaimInv'
      BY <1>0, <1>7, ReleaseKeepsClaims DEF Caught
<1>8. ASSUME NEW r \in Requests, Resolve(r)
      PROVE  ClaimInv'
      BY <1>8, ResolveKeepsClaims
<1>9. ASSUME NEW r \in Requests, Usage(r)
      PROVE  ClaimInv'
  <2>1. r \notin holds
        BY <1>9 DEF Usage, ClaimInv, HoldersArePending, Unheld, Escaped
  <2> QED
      BY <1>9, <2>1, MoveKeepsClaims DEF Usage, Done, Holding, TypeOK
<1>10. ASSUME NEW r \in Requests, OweSettled(r)
       PROVE  ClaimInv'
  <2>1. r \notin holds /\ r \notin delivered \ DbFaults
        BY <1>0, <1>10 DEF OweSettled, ClaimInv, HoldersArePending, Unheld, Escaped, DeliveredStages
  <2> QED
      BY <1>10, <2>1, MoveKeepsClaims DEF OweSettled, Done, Holding, TypeOK
<1>11. ASSUME NEW r \in Requests, Replay(r) \/ InProgress(r)
       PROVE  ClaimInv'
  <2>1. r \notin holds /\ r \notin delivered
        BY <1>0, <1>11 DEF Replay, InProgress, ClaimInv, HoldersArePending, Unheld, Escaped, NothingYet, Collecting
  <2> QED
      BY <1>11, <2>1, MoveKeepsClaims DEF Replay, InProgress, Done, Holding, TypeOK
<1>12. CASE UNCHANGED vars
       BY <1>12 DEF vars, ClaimInv, HoldersArePending, Escaped, KeyedHold, DoneIsCompleted,
          OneHolder, OneOwner, Owner, Done
<1>13. ASSUME NEW r \in Requests, Escape(r)
       PROVE  ClaimInv'
  <2>1. /\ UNCHANGED <<claims, holds, delivered>>
        /\ pc' = [pc EXCEPT ![r] = "ended"]
        /\ r \in GateFaults
        /\ pc[r] \in {"preview", "free", "wallet", "unpaid", "caught"}
        BY <1>13 DEF Escape
  <2>2. r \notin delivered \ DbFaults
        BY <1>0, <2>1 DEF DeliveredStages
  <2> QED
      BY <2>1, <2>2, MoveKeepsClaims DEF Done, Holding, TypeOK
<1>14. ASSUME NEW r \in Requests, LateFault(r)
       PROVE  ClaimInv'
  <2>1. /\ r \in DbFaults
        /\ UNCHANGED <<claims, holds, delivered>>
        /\ pc' = [pc EXCEPT ![r] = "caught"]
        BY <1>14 DEF LateFault
  <2> QED
      BY <2>1, MoveKeepsClaims DEF Unheld, Done, TypeOK
<1> QED
    BY <1>1, <1>3, <1>4, <1>5, <1>6, <1>7, <1>8, <1>9, <1>10, <1>11, <1>12, <1>13, <1>14
       DEF Next, Gate, Dispatch

\* No step forgets who is owed.
LEMMA OwedStays ==
    ASSUME TypeOK, [Next]_vars, NEW q \in Requests, \E e \in owed : e.req = q
    PROVE  \E e \in owed' : e.req = q
<1>1. CASE owed' = owed
      BY <1>1
<1>2. CASE Sweep
      BY <1>2, SweepKeepsEntries
<1>3. ASSUME NEW r \in Requests, NEW reason \in Reasons, Owe(r, reason)
      PROVE  \E e \in owed' : e.req = q
      BY <1>3 DEF Owe
<1>4. \/ owed' = owed
      \/ Sweep
      \/ \E r \in Requests, reason \in Reasons : Owe(r, reason)
      BY DEF Next, Gate, Dispatch, vars, Arrive, Replay, InProgress, Preview, ConsumeFreeCall,
         WalletPays, WalletRefuses, WalletAmbiguous, MppxPays, MppxRefuses, MppxThrows, Unpaid,
         Authorize, Work, Capture, Resolve, Usage, LateFault, Caught, OweSettled, Escape
<1> QED
    BY <1>1, <1>2, <1>3, <1>4

LEMMA NextHeld ==
    TypeOK /\ MoneyInv /\ ClaimInv /\ PaidIsHeld /\ [Next]_vars => PaidIsHeld'
<1> SUFFICES ASSUME TypeOK, MoneyInv, ClaimInv, PaidIsHeld, [Next]_vars,
                    NEW q \in Requests \ DbFaults, q \notin swallowed',
                    Keyed(q), HasPaid(q)', pc'[q] = "ended"
             PROVE  q \in delivered' \/ q \in holds' \/ \E e \in owed' : e.req = q
    BY DEF PaidIsHeld
<1>1. CASE pc[q] = "ended"
  <2>1. UNCHANGED <<pc[q], holds \cap {q}>> /\ delivered \subseteq delivered'
        /\ (HasPaid(q)' => HasPaid(q)) /\ swallowed \subseteq swallowed'
        BY <1>1 DEF Next, Gate, Dispatch, vars, HasPaid, BookPaidCall, Debit, Released, Arrive,
           Replay, InProgress, Preview, ConsumeFreeCall, WalletPays, WalletRefuses,
           WalletAmbiguous, MppxPays, MppxRefuses, MppxThrows, Unpaid, Authorize, Work, Capture,
           Resolve, Usage, LateFault, Caught, OweSettled, Escape
  <2> QED
      BY <1>1, <2>1, OwedStays DEF PaidIsHeld
<1>2. CASE pc[q] # "ended" /\ ~Escape(q)
  <2>1. Unpaid(q) \/ Usage(q) \/ OweSettled(q) \/ Replay(q) \/ InProgress(q)
        BY <1>2 DEF TypeOK, Next, Gate, Dispatch, vars, Arrive, Preview, ConsumeFreeCall,
           WalletPays, WalletRefuses, WalletAmbiguous, MppxPays, MppxRefuses, MppxThrows, Unpaid,
           Authorize, Work, Capture, Resolve, Usage, LateFault, Caught, OweSettled, Escape,
           Replay, InProgress
  <2>2. HasPaid(q) /\ q \notin swallowed
        BY <2>1 DEF HasPaid, Unpaid, Usage, OweSettled, Replay, InProgress
  <2>3. q \in settled \/ \E e \in owed : e.req = q
        BY <1>2, <2>2 DEF MoneyInv, PaidIsMarked
  <2>4. CASE Unpaid(q)
        BY <2>3, <2>4, OwedStays DEF Unpaid, MoneyInv, SettledStages
  <2>5. CASE Usage(q)
        BY <2>5 DEF Usage, MoneyInv, DeliveredStages
  <2>6. CASE OweSettled(q)
    <3>1. CASE q \in settled
      <4>1. [req |-> q, reason |-> "settled_then_error", status |-> "owed"] \in owed'
            BY <2>6, <3>1 DEF OweSettled, Owe
      <4> QED
          BY <4>1
    <3> QED
        BY <2>3, <3>1, OwedStays
  <2>7. ~Replay(q) /\ ~InProgress(q)
        BY <2>2 DEF Replay, InProgress, HasPaid, MoneyInv, NothingYet, Collecting
  <2> QED
      BY <2>1, <2>4, <2>5, <2>6, <2>7
<1>3. CASE Escape(q)
  <2>1. pc[q] \in Holding /\ holds' = holds
        BY <1>3 DEF Escape, Holding
  <2> QED
      BY <2>1 DEF ClaimInv, KeyedHold
<1> QED
    BY <1>1, <1>2, <1>3

-----------------------------------------------------------------------------
(* Replays *)

LEMMA InitReplay == Init => ReplayInv
BY DEF Init, ReplayInv, CompletedIsDelivered, ReplayIsDelivered

LEMMA NextReplay == TypeOK /\ ReplayInv /\ [Next]_vars => ReplayInv'
<1> SUFFICES ASSUME TypeOK, ReplayInv, [Next]_vars
             PROVE  ReplayInv'
    OBVIOUS
<1> USE RequestsAssumption DEF TypeOK, ReplayInv, CompletedIsDelivered, ReplayIsDelivered
<1>1. ASSUME NEW r \in Requests, Arrive(r)
      PROVE  ReplayInv'
      BY <1>1 DEF Arrive
<1>2. ASSUME NEW r \in Requests, Replay(r)
      PROVE  ReplayInv'
      BY <1>2 DEF Replay
<1>3. ASSUME NEW r \in Requests, Unpaid(r) \/ Caught(r)
      PROVE  ReplayInv'
  <2>1. \A k \in Keys : claims'[k] = "completed" => claims[k] = "completed"
        BY <1>3 DEF Unpaid, Caught, Released
  <2> QED
      BY <1>3, <2>1 DEF Unpaid, Caught, Released
<1>4. ASSUME NEW r \in Requests, Resolve(r)
      PROVE  ReplayInv'
  <2>1. CompletedIsDelivered'
    <3> SUFFICES ASSUME NEW k \in Keys, claims'[k] = "completed"
                 PROVE  \E q \in delivered' : KeyOf[q] = k
        OBVIOUS
    <3>1. delivered' = delivered /\ r \in delivered
          BY <1>4 DEF Resolve
    <3>2. CASE r \in holds /\ k = KeyOf[r]
          BY <3>1, <3>2
    <3>3. CASE ~(r \in holds /\ k = KeyOf[r])
          BY <1>4, <3>1, <3>3 DEF Resolve
    <3> QED
        BY <3>2, <3>3
  <2> QED
      BY <1>4, <2>1 DEF Resolve
<1>5. ASSUME NEW r \in Requests, NEW to \in Stages \ {"resolve"}, NEW how \in Answers \ {"replay"},
             UNCHANGED <<claims, holds, delivered>>, pc' = [pc EXCEPT ![r] = to],
             answer' = answer \/ answer' = [answer EXCEPT ![r] = how]
      PROVE  ReplayInv'
      BY <1>5
<1>6. ASSUME NEW r \in Requests,
             Preview(r) \/ ConsumeFreeCall(r) \/ WalletPays(r) \/ WalletRefuses(r)
             \/ WalletAmbiguous(r) \/ MppxPays(r) \/ MppxRefuses(r) \/ MppxThrows(r)
      PROVE  ReplayInv'
      BY <1>5, <1>6 DEF Preview, ConsumeFreeCall, WalletPays, WalletRefuses, WalletAmbiguous,
         MppxPays, MppxRefuses, MppxThrows
<1>7. ASSUME NEW r \in Requests, Authorize(r) \/ Work(r) \/ LateFault(r)
      PROVE  ReplayInv'
      BY <1>5, <1>7 DEF Authorize, Work, LateFault
<1>8. ASSUME NEW r \in Requests, InProgress(r) \/ Usage(r) \/ OweSettled(r)
      PROVE  ReplayInv'
      BY <1>5, <1>8 DEF InProgress, Usage, OweSettled
<1>9. ASSUME NEW r \in Requests, Escape(r)
      PROVE  ReplayInv'
      BY <1>5, <1>9 DEF Escape
<1>10. ASSUME NEW r \in Requests, Capture(r)
       PROVE  ReplayInv'
       BY <1>10 DEF Capture
<1>11. CASE UNCHANGED vars
       BY <1>11 DEF vars
<1> QED
    BY <1>1, <1>2, <1>3, <1>4, <1>6, <1>7, <1>8, <1>9, <1>10, <1>11 DEF Next, Gate, Dispatch

-----------------------------------------------------------------------------
(* What an obligation rests on *)

Cause(r) == HasPaid(r) \/ DebitKey(r) \in debited \/ paidCalls >= FreeAfter

CauseInv ==
    /\ freeCalls > 0 => paidCalls >= FreeAfter
    /\ \A r \in settled : Cause(r)
    /\ OwedHasCause

LEMMA InitCause == Init => CauseInv
BY DEF Init, CauseInv, OwedHasCause

\* Cash, debits and the count of paid calls only grow.
LEMMA CauseStays ==
    ASSUME TypeOK, paid \subseteq paid', debited \subseteq debited', paidCalls' \in Nat,
           paidCalls' >= paidCalls, NEW r, Cause(r)
    PROVE  Cause(r)'
BY AmountsAssumption DEF TypeOK, Cause, HasPaid, DebitKey

LEMMA CashGrows ==
    ASSUME TypeOK, [Next]_vars
    PROVE  /\ paid \subseteq paid'
           /\ debited \subseteq debited'
           /\ paidCalls' \in Nat
           /\ paidCalls' >= paidCalls
<1>1. \/ UNCHANGED paidCalls
      \/ paidCalls' = paidCalls + 1
      BY DEF Next, Gate, Dispatch, vars, Arrive, Replay, InProgress, Preview, ConsumeFreeCall,
         WalletPays, WalletRefuses, WalletAmbiguous, MppxPays, MppxRefuses, MppxThrows, Unpaid, BookPaidCall,
         Authorize, Work, Capture, Resolve, Usage, LateFault, Caught, OweSettled, Escape
<1>2. paid \subseteq paid' /\ debited \subseteq debited'
      BY DEF Next, Gate, Dispatch, vars, Arrive, Replay, InProgress, Preview, ConsumeFreeCall,
         WalletPays, WalletRefuses, WalletAmbiguous, MppxPays, MppxRefuses, MppxThrows, Unpaid, Debit,
         Authorize, Work, Capture, Resolve, Usage, LateFault, Caught, OweSettled, Escape
<1> QED
    BY <1>1, <1>2 DEF TypeOK

LEMMA NextCause == TypeOK /\ CauseInv /\ [Next]_vars => CauseInv'
<1> SUFFICES ASSUME TypeOK, CauseInv, [Next]_vars
             PROVE  CauseInv'
    OBVIOUS
<1>1. \A q \in Requests : Cause(q) => Cause(q)'
      BY CauseStays, CashGrows
<1>2. freeCalls' > 0 => paidCalls' >= FreeAfter
  <2>1. freeCalls' > 0 => freeCalls > 0 \/ paidCalls' >= FreeAfter
        BY AmountsAssumption
        DEF TypeOK, Next, Gate, Dispatch, vars, Arrive, Replay, InProgress, Preview,
            ConsumeFreeCall, WalletPays, WalletRefuses, WalletAmbiguous, MppxPays, MppxRefuses, MppxThrows,
            BookPaidCall, Unpaid, Authorize, Work, Capture, Resolve, Usage, LateFault, Caught,
            OweSettled, Escape
  <2> QED
      BY <2>1, CashGrows, AmountsAssumption DEF CauseInv, TypeOK
<1>3. \A q \in settled' : Cause(q)'
  <2>1. ASSUME NEW q \in Requests, q \in settled' \ settled,
               ConsumeFreeCall(q) \/ WalletPays(q) \/ MppxPays(q)
        PROVE  Cause(q)'
    <3>1. CASE ConsumeFreeCall(q)
          BY <1>2, <2>1, <3>1, AmountsAssumption DEF TypeOK, CauseInv, Cause, ConsumeFreeCall
    <3>2. CASE WalletPays(q)
          BY <3>2 DEF Cause, WalletPays, Debit, DebitKey
    <3>3. CASE MppxPays(q)
          BY <3>3 DEF Cause, MppxPays, HasPaid
    <3> QED
        BY <2>1, <3>1, <3>2, <3>3
  <2>2. \A q \in settled' :
            \/ q \in settled
            \/ q \in Requests /\ (ConsumeFreeCall(q) \/ WalletPays(q) \/ MppxPays(q))
        BY DEF Next, Gate, Dispatch, vars, Arrive, Replay, InProgress, Preview,
            ConsumeFreeCall, WalletPays, WalletRefuses, WalletAmbiguous, MppxPays, MppxRefuses, MppxThrows,
            Unpaid, Authorize, Work, Capture, Resolve, Usage, LateFault, Caught, OweSettled, Escape
  <2> QED
      BY <1>1, <2>1, <2>2 DEF CauseInv, TypeOK
<1>4. OwedHasCause'
  <2> SUFFICES ASSUME NEW e \in owed', e.reason = "settled_then_error"
               PROVE  Cause(e.req)'
      BY DEF OwedHasCause, Cause
  <2>1. CASE Sweep
    <3>1. PICK d \in owed : e.req = d.req /\ e.reason = d.reason
          BY <2>1, SweepKeepsEntries
    <3> QED
        BY <1>1, <3>1 DEF CauseInv, OwedHasCause, Cause, TypeOK, Entries
  <2>2. CASE e \in owed
        BY <1>1, <2>2 DEF CauseInv, OwedHasCause, Cause, TypeOK, Entries
  <2>3. ASSUME NEW r \in Requests, OweSettled(r), e \notin owed
        PROVE  Cause(e.req)'
        BY <1>1, <2>3 DEF OweSettled, Owe, CauseInv
  <2>4. ASSUME NEW r \in Requests, WalletAmbiguous(r), e \notin owed
        PROVE  FALSE
        BY <2>4 DEF WalletAmbiguous, Owe
  <2>5. \/ Sweep
        \/ owed' = owed
        \/ \E r \in Requests : OweSettled(r) \/ WalletAmbiguous(r)
        BY DEF Next, Gate, Dispatch, vars, Arrive, Replay, InProgress, Preview,
            ConsumeFreeCall, WalletPays, WalletRefuses, MppxPays, MppxRefuses, MppxThrows,
            Unpaid, Authorize, Work, Capture, Resolve, Usage, LateFault, Caught, Escape
  <2> QED
      BY <2>1, <2>2, <2>3, <2>4, <2>5
<1> QED
    BY <1>2, <1>3, <1>4 DEF CauseInv

\* Nothing is owed for a failed call out of nothing, whatever throws.
THEOREM NothingOwedForNothing == Spec => []OwedHasCause
<1>1. Init => TypeOK /\ CauseInv
      BY InitTypeOK, InitCause
<1>2. CauseInv /\ TypeOK /\ [Next]_vars => CauseInv'
      BY NextCause
<1>3. CauseInv => OwedHasCause
      BY DEF CauseInv
<1> QED
    BY <1>1, <1>2, <1>3, TypeCorrect, PTL DEF Spec

-----------------------------------------------------------------------------

Ledger == TypeOK /\ FiniteLedger /\ MoneyInv /\ ReplayInv

IInv == Ledger /\ ClaimInv /\ PaidIsHeld

LEMMA LedgerInductive == Spec => []Ledger
<1>1. Init => Ledger
      BY InitTypeOK, InitMoney, InitReplay DEF Ledger
<1>2. Ledger /\ [Next]_vars => Ledger'
      BY NextTypeOK, NextMoney, NextReplay DEF Ledger
<1> QED
    BY <1>1, <1>2, PTL DEF Spec

LEMMA Inductive == Spec => []IInv
<1>1. Init => ClaimInv
      BY InitClaims
<1>2. Init => PaidIsHeld
      BY DEF Init, PaidIsHeld
<1>3. Ledger /\ ClaimInv /\ [Next]_vars => ClaimInv'
      BY NextClaims DEF Ledger
<1>4. Ledger /\ ClaimInv /\ PaidIsHeld /\ [Next]_vars => PaidIsHeld'
      BY NextHeld DEF Ledger
<1>5. Ledger /\ ClaimInv /\ PaidIsHeld => IInv
      BY DEF IInv
<1> QED
    BY <1>1, <1>2, <1>3, <1>4, <1>5, LedgerInductive, PTL DEF Spec

\* No call pays on two rails, whatever the wallet answers and whatever throws.
THEOREM NeverTwoRails == Spec => []OneRail
<1>1. Ledger => OneRail
      BY DEF Ledger, MoneyInv
<1> QED
    BY <1>1, LedgerInductive, PTL

\* A replay answers with what a call of the same key delivered, whatever throws.
THEOREM ReplaysAreDelivered == Spec => []ReplayIsDelivered
<1>1. Ledger => ReplayIsDelivered
      BY DEF Ledger, ReplayInv
<1> QED
    BY <1>1, LedgerInductive, PTL

\* An answered call that paid was delivered or is owed for, unless one of its own
\* writes could throw or mppx threw after its charge; and who is owed for a failed call did not get its work, and
\* has paid for it.
THEOREM NobodyPaysForNothing == Spec => []DeliveredOrOwed
<1>1. Ledger => PaidIsDeliveredOrOwed
      BY DEF Ledger, MoneyInv, PaidIsMarked, SettledEnds, PaidIsDeliveredOrOwed, OwedFor
<1>2. Ledger => OwedNotDelivered
      BY DEF Ledger, MoneyInv, OwedStages, OwedNotDelivered
<1>3. Ledger /\ OwedHasCause => DeliveredOrOwed
      BY <1>1, <1>2 DEF DeliveredOrOwed
<1> QED
    BY <1>3, LedgerInductive, NothingOwedForNothing, PTL

\* Of the calls whose own writes succeed and whose charge did not get lost in a
\* throw of mppx an Idempotency-Key is charged for one at
\* most, net of what is made whole, whatever throws in its other calls.
THEOREM KeyIsChargedOnce == Spec => []ChargedOncePerKey
<1>1. ASSUME IInv, NEW r \in Requests \ (DbFaults \cup swallowed), Keyed(r), Kept(r)
      PROVE  Owner(r)
  <2>1. CASE pc[r] = "ended"
        BY <1>1, <2>1 DEF IInv, PaidIsHeld, Kept, OwedFor, Owner, Done
  <2>2. CASE pc[r] # "ended"
    <3>1. r \in settled
          BY <1>1, <2>2 DEF IInv, Ledger, MoneyInv, PaidIsMarked, Kept, OwedFor
    <3>2. pc[r] \in Holding \cup {"usage"}
          BY <1>1, <2>2, <3>1 DEF IInv, Ledger, TypeOK, MoneyInv, SettledStages, Collecting,
             Kept, Holding
    <3>3. CASE pc[r] \in Holding
          BY <1>1, <3>3 DEF IInv, Ledger, ClaimInv, KeyedHold, Owner
    <3>4. CASE pc[r] = "usage"
          BY <1>1, <3>4 DEF IInv, Ledger, MoneyInv, DeliveredStages, Owner, Done
    <3> QED
        BY <3>2, <3>3, <3>4
  <2> QED
      BY <2>1, <2>2
<1>2. IInv => ChargedOncePerKey
      BY <1>1 DEF IInv, Ledger, ClaimInv, OneOwner, ChargedOncePerKey
<1> QED
    BY <1>2, Inductive, PTL

\* A claim that says pending has a request at work behind it, or one whose gate
\* threw, whatever else throws.
THEOREM ClaimsHaveOwners == Spec => []NoOrphanClaim
<1>1. IInv => NoOrphanClaim
      BY DEF IInv, Ledger, ClaimInv, HoldersArePending, Unheld, Escaped, NoOrphanClaim
<1> QED
    BY <1>1, Inductive, PTL
=============================================================================
