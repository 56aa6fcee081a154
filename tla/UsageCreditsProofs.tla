------------------------- MODULE UsageCreditsProofs --------------------------
(***************************************************************************)
(* What holds of plan-credit metering for any number of calls, grants,     *)
(* plans and months: the types; that the month's counter and the ledger    *)
(* never part; that no capture overdraws the plan; that a failed call was  *)
(* not debited, or, over REST, is made whole; and that the overage of an   *)
(* MCP call nothing came between, and of every REST call, is paid in cash. *)
(* The second half is about Crawls, which take credits by the same         *)
(* arithmetic and pages from a pool that is locked in the same way.        *)
(***************************************************************************)
EXTENDS UsageCredits, Crawls, TLAPS

\* Rounding up an amount that is not negative gives a natural number.
LEMMA CeilDivIsNat ==
    ASSUME NEW m \in Nat, NEW n \in Nat \ {0}
    PROVE  CeilDiv(m, n) \in Nat
BY DEF CeilDiv

\* What a grant adds (creditsFromUsdCents) is a natural number.
LEMMA CreditsAreNat ==
    ASSUME NEW cents \in Nat
    PROVE  CreditsFromCents(cents) \in Nat
<1>1. CASE cents <= 0
  BY <1>1 DEF CreditsFromCents
<1>2. CASE ~(cents <= 0)
  <2>1. 100 * cents \in Nat
    OBVIOUS
  <2>2. CeilDiv(100 * cents, CentsPer100Credits) \in Nat
    BY <2>1, CeilDivIsNat DEF CentsPer100Credits
  <2> QED
    BY <1>2, <2>2 DEF CreditsFromCents
<1> QED
  BY <1>1, <1>2

\* splitFromUsed: outside the trial it gives every credit to exactly one of
\* plan and overage, and takes no more than the allowance has left.
LEMMA SplitIsExact ==
    ASSUME NEW allowance \in Nat, NEW credits \in Nat, NEW counter \in Int,
           NEW free \in BOOLEAN
    PROVE  LET s == SplitFromUsed(allowance, credits, counter, free)
           IN  /\ s \in Rows
               /\ s.included + s.overage = s.credits
               /\ s.credits <= credits
               /\ s.included > 0 => counter + s.included <= allowance
<1> DEFINE included == Lesser(AtLeastZero(allowance - counter), credits)
           overage  == credits - included
<1>1. included \in Nat /\ overage \in Nat
  BY DEF Lesser, AtLeastZero
<1>2. included > 0 => counter + included <= allowance
  BY DEF Lesser, AtLeastZero
<1>3. CentsFromCredits(overage) \in Nat
  <2> HIDE DEF overage
  <2>1. CentsPer100Credits * overage \in Nat
    BY <1>1 DEF CentsPer100Credits
  <2> QED
    BY <2>1, CeilDivIsNat DEF CentsFromCredits
<1>4. included + overage = credits
  BY <1>1
<1> HIDE DEF included, overage
<1>5. CASE free
  BY <1>5 DEF SplitFromUsed, Rows
<1>6. CASE ~free
  <2>1. SplitFromUsed(allowance, credits, counter, free)
          = [credits |-> credits, included |-> included, overage |-> overage,
             cents |-> CentsFromCredits(overage)]
    BY <1>6 DEF SplitFromUsed, included, overage
  <2> QED
    BY <2>1, <1>1, <1>2, <1>3, <1>4 DEF Rows
<1> QED
  BY <1>5, <1>6

-----------------------------------------------------------------------------
(* Type correctness *)

USE DEF Goto, Stages, Procs, Disturb

\* The split a call computes is a ledger row, whatever counter it computes from.
LEMMA CallSplit ==
    ASSUME TypeOK, NEW c \in Calls, NEW counter \in Int
    PROVE  LET s == SplitOf(c, counter)
           IN  /\ s \in Rows
               /\ s.included + s.overage <= CreditsOf[c]
               /\ s.included > 0 => counter + s.included <= inputs[c].allowance
<1>1. /\ inputs[c].allowance \in Nat
      /\ CreditsOf[c] \in Nat
      /\ trial \in BOOLEAN
      BY CallsAssumption DEF TypeOK
<1> QED
    BY <1>1, SplitIsExact DEF SplitOf

LEMMA PreviewIsNat ==
    ASSUME TypeOK, NEW c \in Calls
    PROVE  PreviewCents(c) \in Nat
<1>1. used[inputs[c].month] \in Int
      BY DEF TypeOK
<1> QED
    BY <1>1, CallSplit DEF PreviewCents, Rows

LEMMA InitTypeOK == Init => TypeOK
BY PlansAssumption, MonthsAssumption, ProcsAssumption, TrialAssumption DEF Init, TypeOK, Rows, Months

LEMMA GatherTyped ==
    ASSUME TypeOK, NEW p \in Procs, Gather(p)
    PROVE  inputs' \in [Procs -> [month : Months, allowance : Nat]]
BY PlansAssumption DEF TypeOK, Gather

LEMMA WriteTyped ==
    ASSUME TypeOK, NEW c \in Calls, Write(c)
    PROVE  /\ used' \in [Months -> Int]
           /\ ledger' \in [Months -> [included : Nat, overage : Nat]]
           /\ split' \in [Calls -> Rows]
<1> DEFINE m == inputs[c].month
           s == SplitOf(c, cur[c])
<1>1. m \in Months /\ cur[c] \in Int
      BY DEF TypeOK
<1>2. s \in Rows
      BY <1>1, CallSplit
<1>3. s.included \in Nat /\ s.overage \in Nat
      BY <1>2 DEF Rows
<1>4. /\ used' = [used EXCEPT ![m] = cur[c] + s.included]
      /\ ledger' = [ledger EXCEPT ![m] = [included |-> @.included + s.included,
                                          overage  |-> @.overage + s.overage]]
      /\ split' = [split EXCEPT ![c] = s]
      BY DEF Write
<1> HIDE DEF m, s
<1> QED
    BY <1>1, <1>2, <1>3, <1>4 DEF TypeOK

LEMMA GrantTyped ==
    ASSUME TypeOK, NEW g \in Grants, Grant(g)
    PROVE  /\ used' \in [Months -> Int]
           /\ granted' \in [Months -> Nat]
<1>1. CreditsFromCents(CentsOf[g]) \in Nat
      BY CreditsAreNat, GrantsAssumption
<1>2. inputs[g].month \in Months /\ cur[g] \in Int
      BY DEF TypeOK
<1> QED
    BY <1>1, <1>2 DEF TypeOK, Grant

LEMMA NextTypeOK == TypeOK /\ [Next]_vars => TypeOK'
<1> SUFFICES ASSUME TypeOK, [Next]_vars
             PROVE  TypeOK'
    OBVIOUS
<1> USE ProcsAssumption DEF TypeOK
<1>1. ASSUME NEW c \in Calls, StartPreview(c)
      PROVE  TypeOK'
      BY <1>1, GatherTyped DEF StartPreview
<1>2. ASSUME NEW c \in Calls, Settle(c)
      PROVE  TypeOK'
      <2>1. PreviewCents(c) \in Nat
            BY PreviewIsNat
      <2>2. cash' \in [Calls -> Nat]
            BY <1>2, <2>1 DEF Settle
      <2> QED
          BY <1>2, <2>2 DEF Settle
<1>3. ASSUME NEW c \in Calls, Authorize(c)
      PROVE  TypeOK'
      BY <1>3 DEF Authorize
<1>4. ASSUME NEW c \in Calls, Work(c)
      PROVE  TypeOK'
      BY <1>4 DEF Work
<1>5. ASSUME NEW c \in Calls, Consume(c)
      PROVE  TypeOK'
      <2>1. Write(c)
            BY <1>5 DEF Consume
      <2> QED
          BY <1>5, <2>1, WriteTyped DEF Consume
<1>6. ASSUME NEW c \in Calls, Reply(c)
      PROVE  TypeOK'
      BY <1>6 DEF Reply, FailLate
<1>16. ASSUME NEW c \in RestCalls, RestStep(c)
       PROVE  TypeOK'
       <2>1. c \in Calls /\ split[c].cents \in Nat
             BY CallsAssumption DEF Rows
       <2>2. CASE Collect(c)
             <3>1. cash' \in [Calls -> Nat]
                   BY <2>1, <2>2 DEF Collect
             <3> QED
                 BY <2>1, <2>2, <3>1 DEF Collect, FailLate
       <2>3. CASE PaidWork(c)
             BY <2>1, <2>3 DEF PaidWork
       <2>4. CASE Compensate(c)
             BY <2>1, <2>4 DEF Compensate, FailLate
       <2> QED
           BY <1>16, <2>2, <2>3, <2>4 DEF RestStep
<1>7. ASSUME NEW g \in Grants, Grant(g)
      PROVE  TypeOK'
      BY <1>7, GrantTyped DEF Grant
<1>8. ASSUME NEW p \in Procs, StartTx(p)
      PROVE  TypeOK'
      BY <1>8, GatherTyped DEF StartTx
<1>9. ASSUME NEW p \in Procs, Lock(p)
       PROVE  TypeOK'
       BY <1>9 DEF Lock
<1>10. ASSUME NEW p \in Procs, ReadCounter(p)
       PROVE  TypeOK'
       BY <1>10 DEF ReadCounter
<1>11. ASSUME NEW p \in Procs, Rollback(p)
       PROVE  TypeOK'
       BY <1>11 DEF Rollback
<1>12. CASE NextMonth
       <2>1. month' \in Months
             BY <1>12, MonthsAssumption DEF NextMonth, Months
       <2> QED
           BY <1>12, <2>1 DEF NextMonth
<1>13. CASE ChangePlan
       BY <1>13 DEF ChangePlan
<1>14. CASE EndTrial
       BY <1>14 DEF EndTrial
<1>15. CASE UNCHANGED vars
       BY <1>15 DEF vars
<1> QED
    BY <1>1, <1>2, <1>3, <1>4, <1>5, <1>6, <1>7, <1>8, <1>9, <1>10,
       <1>11, <1>12, <1>13, <1>14, <1>15, <1>16 DEF Next, CallStep, TxStep

\* The counters and what the calls carry are always of their types.
THEOREM TypeCorrect == Spec => []TypeOK
<1>1. Init => TypeOK
      BY InitTypeOK
<1>2. TypeOK /\ [Next]_vars => TypeOK'
      BY NextTypeOK
<1> QED
    BY <1>1, <1>2, PTL DEF Spec

-----------------------------------------------------------------------------
(* The counter is the ledger *)

\* Only the holder of the lock is inside a transaction.
LockHeld == \A p \in Procs : pc[p] \in {"locked", "counted"} => lock = p

\* What the holder has read is still what the row says.
ReadIsFresh == \A p \in Procs : pc[p] = "counted" => cur[p] = used[inputs[p].month]

\* Over MCP only a captured call has a ledger row, or one that failed late; over
\* REST also one that was refused, or whose work failed and that is owed for it.
RowMeansCaptured ==
    /\ \A c \in Calls \ RestCalls :
        pc[c] \in {"captured", "answered"} \/ c \in late \/ Debited(c) = 0
    /\ \A c \in RestCalls :
        \/ pc[c] \in {"captured", "paidwork", "erring", "answered", "refused"}
        \/ pc[c] = "failed" /\ (c \in late \/ c \in owed)
        \/ Debited(c) = 0

\* No ledger row has more credits than its call requires.
DebitedAtMost == \A c \in Calls : Debited(c) <= CreditsOf[c]

IInv == /\ TypeOK
        /\ LockHeld
        /\ ReadIsFresh
        /\ CounterIsLedger
        /\ RowMeansCaptured
        /\ DebitedAtMost

LEMMA InitIInv == Init => IInv
<1> SUFFICES ASSUME Init
             PROVE  IInv
    OBVIOUS
<1>1. TypeOK
      BY InitTypeOK
<1>2. LockHeld /\ ReadIsFresh
      BY DEF Init, LockHeld, ReadIsFresh
<1>3. CounterIsLedger
      BY DEF Init, CounterIsLedger
<1>4. \A c \in Calls : Debited(c) = 0
      BY DEF Init, Debited
<1>5. RowMeansCaptured /\ DebitedAtMost
      BY <1>4, CallsAssumption DEF RowMeansCaptured, DebitedAtMost
<1> QED
    BY <1>1, <1>2, <1>3, <1>5 DEF IInv

\* A capture of the holder adds the same number to the counter and the ledger.
LEMMA ConsumeIInv ==
    ASSUME IInv, NEW c \in Calls, Consume(c)
    PROVE  LockHeld' /\ ReadIsFresh' /\ CounterIsLedger' /\ RowMeansCaptured' /\ DebitedAtMost'
<1> DEFINE m == inputs[c].month
           s == SplitOf(c, cur[c])
<1>1. /\ TypeOK /\ LockHeld /\ ReadIsFresh /\ CounterIsLedger
      /\ RowMeansCaptured /\ DebitedAtMost
      BY DEF IInv
<1>2. /\ pc[c] = "counted" /\ lock' = None /\ pc' = [pc EXCEPT ![c] = "captured"]
      /\ UNCHANGED <<inputs, cur, granted, late, owed>>
      BY DEF Consume
<1>3. /\ m \in Months /\ cur[c] \in Int
      BY DEF IInv, TypeOK
<1>4. /\ s.included \in Nat /\ s.overage \in Nat
      /\ s.included + s.overage <= CreditsOf[c]
      BY <1>1, <1>3, CallSplit DEF Rows
<1>5. cur[c] = used[m]
      BY <1>1, <1>2 DEF ReadIsFresh
<1>6. /\ used' = [used EXCEPT ![m] = cur[c] + s.included]
      /\ ledger' = [ledger EXCEPT ![m] = [included |-> @.included + s.included,
                                          overage  |-> @.overage + s.overage]]
      /\ split' = [split EXCEPT ![c] = s]
      BY DEF Consume, Write
<1> HIDE DEF m, s
<1>7. \A p \in Procs : pc'[p] \notin {"locked", "counted"}
      BY <1>1, <1>2 DEF LockHeld, TypeOK
<1>8. LockHeld' /\ ReadIsFresh'
      BY <1>7 DEF LockHeld, ReadIsFresh
<1>9. CounterIsLedger'
      BY <1>1, <1>2, <1>3, <1>4, <1>5, <1>6 DEF CounterIsLedger, TypeOK
<1>10. \A d \in Calls \ {c} : Debited(d)' = Debited(d) /\ pc'[d] = pc[d]
      BY <1>1, <1>2, <1>6 DEF Debited, TypeOK
<1>11. Debited(c)' <= CreditsOf[c] /\ pc'[c] = "captured"
      BY <1>1, <1>2, <1>4, <1>6 DEF Debited, TypeOK
<1>12. RowMeansCaptured'
      BY <1>1, <1>2, <1>10, <1>11, CallsAssumption DEF RowMeansCaptured
<1>13. DebitedAtMost'
      BY <1>1, <1>10, <1>11 DEF DebitedAtMost
<1> QED
    BY <1>8, <1>9, <1>12, <1>13

LEMMA GrantIInv ==
    ASSUME IInv, NEW g \in Grants, Grant(g)
    PROVE  LockHeld' /\ ReadIsFresh' /\ CounterIsLedger' /\ RowMeansCaptured' /\ DebitedAtMost'
<1> DEFINE m == inputs[g].month
           credits == CreditsFromCents(CentsOf[g])
<1>1. /\ TypeOK /\ LockHeld /\ ReadIsFresh /\ CounterIsLedger
      /\ RowMeansCaptured /\ DebitedAtMost
      BY DEF IInv
<1>2. /\ pc[g] = "counted" /\ lock' = None /\ pc' = [pc EXCEPT ![g] = "captured"]
      /\ UNCHANGED <<inputs, cur, ledger, split, late, owed>>
      BY DEF Grant
<1>3. m \in Months /\ cur[g] = used[m]
      BY <1>1, <1>2 DEF ReadIsFresh, TypeOK
<1>4. credits \in Nat
      BY CreditsAreNat, GrantsAssumption
<1>5. /\ used' = [used EXCEPT ![m] = cur[g] - credits]
      /\ granted' = [granted EXCEPT ![m] = @ + credits]
      BY DEF Grant
<1> HIDE DEF m, credits
<1>6. \A p \in Procs : pc'[p] \notin {"locked", "counted"}
      BY <1>1, <1>2 DEF LockHeld, TypeOK
<1>7. LockHeld' /\ ReadIsFresh'
      BY <1>6 DEF LockHeld, ReadIsFresh
<1>8. CounterIsLedger'
      BY <1>1, <1>2, <1>3, <1>4, <1>5 DEF CounterIsLedger, TypeOK
<1>9. RowMeansCaptured' /\ DebitedAtMost'
  <2>1. \A c \in Calls : Debited(c)' = Debited(c) /\ pc'[c] = pc[c]
        BY <1>1, <1>2, ProcsAssumption DEF Debited, TypeOK
  <2> QED
      BY <1>1, <1>2, <2>1, CallsAssumption DEF RowMeansCaptured, DebitedAtMost
<1> QED
    BY <1>7, <1>8, <1>9

\* Every other step leaves counter, ledger and grants alone.
LEMMA OtherIInv ==
    ASSUME IInv, UNCHANGED <<used, ledger, granted, split>>, [Next]_vars,
           \A c \in Calls : ~Consume(c), \A g \in Grants : ~Grant(g)
    PROVE  LockHeld' /\ ReadIsFresh' /\ CounterIsLedger' /\ RowMeansCaptured' /\ DebitedAtMost'
<1>1. CounterIsLedger' /\ DebitedAtMost'
      BY DEF IInv, CounterIsLedger, DebitedAtMost, Debited
<1>a. \A c \in Calls : Debited(c)' = Debited(c)
      BY DEF Debited
<1> USE ProcsAssumption, CallsAssumption
        DEF IInv, TypeOK, LockHeld, ReadIsFresh, RowMeansCaptured
<1>2. ASSUME NEW c \in Calls, Settle(c) \/ Authorize(c) \/ Work(c) \/ Reply(c)
      PROVE  LockHeld' /\ ReadIsFresh' /\ RowMeansCaptured'
      BY <1>a, <1>2 DEF Settle, Authorize, Work, Reply, FailLate
<1>3. ASSUME NEW c \in Calls, StartPreview(c)
      PROVE  LockHeld' /\ ReadIsFresh' /\ RowMeansCaptured'
      BY <1>a, <1>3 DEF StartPreview, Gather
<1>4. ASSUME NEW p \in Procs, StartTx(p)
      PROVE  LockHeld' /\ ReadIsFresh' /\ RowMeansCaptured'
      BY <1>a, <1>4 DEF StartTx, Gather
<1>5. ASSUME NEW p \in Procs, Lock(p)
      PROVE  LockHeld' /\ ReadIsFresh' /\ RowMeansCaptured'
      BY <1>a, <1>5 DEF Lock
<1>6. ASSUME NEW p \in Procs, ReadCounter(p)
      PROVE  LockHeld' /\ ReadIsFresh' /\ RowMeansCaptured'
      BY <1>a, <1>6 DEF ReadCounter
<1>7. ASSUME NEW p \in Procs, Rollback(p)
      PROVE  LockHeld' /\ ReadIsFresh' /\ RowMeansCaptured'
      BY <1>a, <1>7 DEF Rollback
<1>8. ASSUME NextMonth \/ ChangePlan \/ EndTrial \/ UNCHANGED vars
      PROVE  LockHeld' /\ ReadIsFresh' /\ RowMeansCaptured'
      BY <1>a, <1>8 DEF NextMonth, ChangePlan, EndTrial, vars
<1>9. ASSUME NEW c \in RestCalls, RestStep(c)
      PROVE  LockHeld' /\ ReadIsFresh' /\ RowMeansCaptured'
  <2>1. CASE Collect(c)
        BY <1>a, <2>1 DEF Collect, FailLate
  <2>2. CASE PaidWork(c)
        BY <1>a, <2>2 DEF PaidWork
  <2>3. CASE Compensate(c)
        BY <1>a, <2>3 DEF Compensate, FailLate
  <2> QED
      BY <1>9, <2>1, <2>2, <2>3 DEF RestStep
<1> QED
    BY <1>1, <1>2, <1>3, <1>4, <1>5, <1>6, <1>7, <1>8, <1>9 DEF Next, CallStep, TxStep

LEMMA NextIInv == IInv /\ [Next]_vars => IInv'
<1> SUFFICES ASSUME IInv, [Next]_vars
             PROVE  IInv'
    OBVIOUS
<1>1. TypeOK'
      BY NextTypeOK DEF IInv
<1>2. ASSUME NEW c \in Calls, Consume(c)
      PROVE  IInv'
      BY <1>1, <1>2, ConsumeIInv DEF IInv
<1>3. ASSUME NEW g \in Grants, Grant(g)
      PROVE  IInv'
      BY <1>1, <1>3, GrantIInv DEF IInv
<1>4. ASSUME \A c \in Calls : ~Consume(c), \A g \in Grants : ~Grant(g)
      PROVE  IInv'
      <2>1. UNCHANGED <<used, ledger, granted, split>>
            BY <1>4 DEF Next, CallStep, TxStep, vars, StartPreview, Settle,
               Authorize, Work, Reply, RestStep, Collect, PaidWork, Compensate, StartTx,
               Lock, ReadCounter, Rollback, NextMonth, ChangePlan, EndTrial
      <2> QED
          BY <1>1, <1>4, <2>1, OtherIInv DEF IInv
<1> QED
    BY <1>2, <1>3, <1>4

\* However captures, grants, plan changes and months interleave, the counter of
\* every month is the ledger's included credits less the grants.
THEOREM CounterMatchesLedger == Spec => []CounterIsLedger
<1>1. Init => IInv
      BY InitIInv
<1>2. IInv /\ [Next]_vars => IInv'
      BY NextIInv
<1>3. IInv => CounterIsLedger
      BY DEF IInv
<1> QED
    BY <1>1, <1>2, <1>3, PTL DEF Spec

\* An MCP call that fails has left no ledger row, unless something threw after its
\* capture, whatever throws in other calls.
THEOREM FailureIsFree == Spec => []FailedCallNotDebited
<1>1. Init => IInv
      BY InitIInv
<1>2. IInv /\ [Next]_vars => IInv'
      BY NextIInv
<1>3. IInv => FailedCallNotDebited
      BY DEF IInv, RowMeansCaptured, FailedCallNotDebited
<1> QED
    BY <1>1, <1>2, <1>3, PTL DEF Spec

\* A REST call whose work fails is owed its price, and that price is worth all the
\* credits in its ledger row, whatever plan, month or trial it fell on.
THEOREM FailedRestIsOwed == Spec => []FailedRestIsMadeWhole
<1>1. Init => IInv
      BY InitIInv
<1>2. IInv /\ [Next]_vars => IInv'
      BY NextIInv
<1>3. IInv => FailedRestIsMadeWhole
  <2> SUFFICES ASSUME IInv, NEW c \in RestCalls, pc[c] = "failed", c \notin late,
                      Debited(c) > 0
               PROVE  c \in owed /\ CreditsFromCents(PriceOf[c]) >= Debited(c)
      BY DEF FailedRestIsMadeWhole
  <2>1. c \in owed
        BY DEF IInv, RowMeansCaptured
  <2>2. c \in Calls /\ Debited(c) <= CreditsOf[c] /\ CreditsOf[c] <= CreditsFromCents(PriceOf[c])
        BY CallsAssumption, PricesAssumption DEF IInv, DebitedAtMost
  <2>3. CreditsFromCents(PriceOf[c]) \in Nat /\ CreditsOf[c] \in Nat
        BY <2>2, CallsAssumption, PricesAssumption, CreditsAreNat
  <2>4. Debited(c) \in Nat
        BY <2>2 DEF IInv, TypeOK, Rows, Debited
  <2> QED
      BY <2>1, <2>2, <2>3, <2>4
<1> QED
    BY <1>1, <1>2, <1>3, PTL DEF Spec

-----------------------------------------------------------------------------
(* The allowance *)

\* One step raises a month's counter only as far as a gathered allowance.
RaisedWithin ==
    \A m \in Months : used'[m] > used[m] =>
        \E c \in Calls : inputs[c].month = m /\ used'[m] <= inputs[c].allowance

LEMMA StepWithinAllowance == IInv /\ [Next]_vars => RaisedWithin
<1> SUFFICES ASSUME IInv, [Next]_vars, NEW n \in Months, used'[n] > used[n]
             PROVE  \E c \in Calls : inputs[c].month = n /\ used'[n] <= inputs[c].allowance
    BY DEF RaisedWithin
<1>1. TypeOK /\ ReadIsFresh
      BY DEF IInv
<1>2. used[n] \in Int
      BY <1>1 DEF TypeOK
<1>3. ASSUME NEW c \in Calls, Consume(c)
      PROVE  inputs[c].month = n /\ used'[n] <= inputs[c].allowance
  <2> DEFINE m == inputs[c].month
             s == SplitOf(c, cur[c])
  <2>1. m \in Months /\ cur[c] \in Int /\ cur[c] = used[m]
        BY <1>1, <1>3 DEF TypeOK, ReadIsFresh, Consume
  <2>2. s.included \in Nat /\ (s.included > 0 => cur[c] + s.included <= inputs[c].allowance)
        BY <1>1, <2>1, CallSplit DEF Rows
  <2>3. used' = [used EXCEPT ![m] = cur[c] + s.included]
        BY <1>3 DEF Consume, Write
  <2> HIDE DEF s
  <2>4. n = m
        BY <1>1, <1>2, <2>1, <2>3 DEF TypeOK
  <2>5. used'[n] = cur[c] + s.included /\ s.included > 0
        BY <1>1, <1>2, <2>1, <2>2, <2>3, <2>4 DEF TypeOK
  <2> QED
      BY <2>2, <2>4, <2>5
<1>4. ASSUME NEW g \in Grants, Grant(g)
      PROVE  FALSE
  <2>1. inputs[g].month \in Months /\ cur[g] = used[inputs[g].month]
        BY <1>1, <1>4 DEF TypeOK, ReadIsFresh, Grant
  <2>2. CreditsFromCents(CentsOf[g]) \in Nat
        BY CreditsAreNat, GrantsAssumption
  <2>3. used' = [used EXCEPT ![inputs[g].month] = cur[g] - CreditsFromCents(CentsOf[g])]
        BY <1>4 DEF Grant
  <2> QED
      BY <1>1, <1>2, <2>1, <2>2, <2>3 DEF TypeOK
<1>5. ASSUME \A c \in Calls : ~Consume(c), \A g \in Grants : ~Grant(g)
      PROVE  used' = used
      BY <1>5 DEF Next, CallStep, TxStep, vars, StartPreview, Settle,
         Authorize, Work, Reply, RestStep, Collect, PaidWork, Compensate, StartTx, Lock,
         ReadCounter, Rollback, NextMonth, ChangePlan, EndTrial
<1> QED
    BY <1>2, <1>3, <1>4, <1>5

\* No capture takes more of a month than the allowance gathered for it, and no
\* grant raises the counter, at every step of every behaviour.
THEOREM NeverAboveAllowance == Spec => WithinAllowance
<1>1. Init => IInv
      BY InitIInv
<1>2. IInv /\ [Next]_vars => IInv'
      BY NextIInv
<1>3. IInv /\ [Next]_vars => RaisedWithin
      BY StepWithinAllowance
<1>4. WithinAllowance <=> [][RaisedWithin]_vars
      BY DEF WithinAllowance, RaisedWithin
<1> QED
    BY <1>1, <1>2, <1>3, <1>4, PTL DEF Spec
-----------------------------------------------------------------------------
(* The overage is paid *)

\* The inputs of a call nothing came between are what it would gather now.
InputsStand(c) ==
    c \notin disturbed /\ pc[c] \in Open =>
        inputs[c] = [month |-> month, allowance |-> AllowanceOf[plan]]

\* Its gate has collected nothing, or what a preview would still say; past the
\* authorization, exactly that; past the capture, what its ledger row says.
CashStands(c) ==
    /\ pc[c] \in {"idle", "gated"} => cash[c] = 0
    /\ c \notin disturbed =>
        /\ pc[c] \in {"auth", "checked"} => cash[c] \in {0, PreviewCents(c)}
        /\ pc[c] \in {"work", "capture", "begin", "locked", "counted"} =>
               cash[c] = PreviewCents(c)
        /\ pc[c] \in {"captured", "answered"} => split[c].cents = cash[c]

\* What a REST call has paid is what its ledger row says.
RestPaid ==
    \A c \in RestCalls :
        pc[c] \in {"paidwork", "erring", "answered"} => split[c].cents = cash[c]

PaidInv ==
    /\ \A c \in Calls \ RestCalls : InputsStand(c) /\ CashStands(c)
    /\ RestPaid

\* A step in which nothing happens to the account leaves the preview of a call
\* with the same inputs as it was.
LEMMA PreviewStands ==
    ASSUME NEW c \in Calls, UNCHANGED <<used, trial>>, inputs'[c] = inputs[c]
    PROVE  PreviewCents(c)' = PreviewCents(c)
BY DEF PreviewCents, SplitOf

\* A step that changes the account and is not the call's own disturbs it, if it
\* is open, and otherwise leaves what is said of it alone.
LEMMA DisturbedPaidInv ==
    ASSUME TypeOK, NEW c \in Calls, NEW p, c # p, Disturb(p),
           pc'[c] = pc[c], cash'[c] = cash[c], split'[c] = split[c],
           InputsStand(c), CashStands(c)
    PROVE  InputsStand(c)' /\ CashStands(c)'
<1>1. CASE pc[c] \in Open
  <2>1. c \in disturbed'
        BY <1>1
  <2> QED
      BY <1>1, <2>1 DEF InputsStand, CashStands
<1>2. CASE pc[c] \notin Open
  <2>1. pc[c] \in {"idle", "captured", "paidwork", "erring", "answered", "refused", "failed"}
        BY <1>2 DEF TypeOK, Open
  <2>2. c \in disturbed' <=> c \in disturbed
        BY <1>2
  <2> QED
      BY <1>2, <2>1, <2>2 DEF InputsStand, CashStands
<1> QED
    BY <1>1, <1>2

\* A step of somebody else that changes nothing about the account.
LEMMA QuietPaidInv ==
    ASSUME NEW c \in Calls, UNCHANGED <<month, plan, trial, used, disturbed>>,
           pc'[c] = pc[c], inputs'[c] = inputs[c], cash'[c] = cash[c],
           split'[c] = split[c], InputsStand(c), CashStands(c)
    PROVE  InputsStand(c)' /\ CashStands(c)'
<1>1. PreviewCents(c)' = PreviewCents(c)
      BY PreviewStands
<1> QED
    BY <1>1 DEF InputsStand, CashStands

\* Gathering again what still stands changes nothing.
LEMMA GatherAgain ==
    ASSUME TypeOK, NEW c \in Calls, c \notin disturbed, pc[c] \in Open, InputsStand(c),
           UNCHANGED <<used, trial>>, Gather(c)
    PROVE  inputs'[c] = inputs[c] /\ PreviewCents(c)' = PreviewCents(c)
<1>1. inputs'[c] = inputs[c]
      BY DEF Gather, InputsStand, TypeOK
<1> QED
    BY <1>1, PreviewStands

\* The call's own steps.
LEMMA OwnPaidInv ==
    ASSUME IInv, NEW c \in Calls \ RestCalls, CallStep(c) \/ TxStep(c),
           InputsStand(c), CashStands(c)
    PROVE  InputsStand(c)' /\ CashStands(c)'
<1> USE ProcsAssumption DEF TypeOK
<1>1. TypeOK /\ ReadIsFresh /\ PreviewCents(c) \in Nat
      BY PreviewIsNat DEF IInv
<1>2. CASE StartPreview(c)
  <2>1. inputs'[c] = [month |-> month, allowance |-> AllowanceOf[plan]]
        BY <1>1, <1>2 DEF StartPreview, Gather
  <2>2. InputsStand(c)'
        BY <1>2, <2>1 DEF StartPreview, InputsStand
  <2>3. CASE pc[c] = "idle"
        <3>1. cash'[c] = 0 /\ pc'[c] \in {"gated", "checked"}
              BY <1>1, <1>2, <2>3 DEF StartPreview, CashStands
        <3> QED
            BY <2>2, <3>1 DEF CashStands
  <2>4. CASE pc[c] = "auth"
        <3>1. /\ pc'[c] = "checked"
              /\ UNCHANGED <<used, trial, cash, disturbed>>
              /\ Gather(c)
              BY <1>1, <1>2, <2>4 DEF StartPreview
        <3>2. c \notin disturbed => PreviewCents(c)' = PreviewCents(c)
              BY <1>1, <2>4, <3>1, GatherAgain DEF Open
        <3> QED
            BY <2>2, <2>4, <3>1, <3>2 DEF CashStands
  <2> QED
      BY <1>2, <2>3, <2>4 DEF StartPreview
<1>3. CASE Settle(c)
  <2>1. /\ pc[c] = "gated" /\ pc'[c] \in {"auth", "refused"}
        /\ cash'[c] \in {0, PreviewCents(c)}
        /\ UNCHANGED <<month, plan, used, trial, inputs, disturbed>>
        BY <1>1, <1>3 DEF Settle, CashStands
  <2>2. PreviewCents(c)' = PreviewCents(c)
        BY <2>1, PreviewStands
  <2> QED
      BY <2>1, <2>2 DEF InputsStand, CashStands, Open
<1>4. CASE Authorize(c)
  <2>1. /\ pc[c] = "checked"
        /\ pc'[c] = IF PreviewCents(c) > 0 /\ cash[c] = 0 THEN "refused" ELSE "work"
        /\ UNCHANGED <<month, plan, used, trial, inputs, cash, disturbed>>
        BY <1>1, <1>4 DEF Authorize
  <2>2. PreviewCents(c)' = PreviewCents(c)
        BY <2>1, PreviewStands
  <2>3. InputsStand(c)'
        BY <2>1 DEF InputsStand, Open
  <2>4. CashStands(c)'
        BY <1>1, <2>1, <2>2 DEF CashStands
  <2> QED
      BY <2>3, <2>4
<1>5. CASE Work(c)
  <2>1. PreviewCents(c)' = PreviewCents(c)
        BY <1>5, PreviewStands DEF Work
  <2> QED
      BY <1>1, <1>5, <2>1 DEF Work, InputsStand, CashStands, Open
<1>6. CASE StartTx(c)
  <2>1. /\ pc[c] = "capture" /\ pc'[c] = "begin"
        /\ UNCHANGED <<month, plan, used, trial, cash, disturbed>>
        /\ Gather(c)
        BY <1>1, <1>6 DEF StartTx
  <2>2. c \notin disturbed => PreviewCents(c)' = PreviewCents(c)
        BY <1>1, <2>1, GatherAgain DEF Open
  <2>3. InputsStand(c)'
        BY <1>1, <2>1 DEF InputsStand, Gather
  <2> QED
      BY <2>1, <2>2, <2>3 DEF CashStands
<1>7. CASE Lock(c) \/ ReadCounter(c) \/ Rollback(c)
  <2>1. PreviewCents(c)' = PreviewCents(c)
        BY <1>7, PreviewStands DEF Lock, ReadCounter, Rollback
  <2> QED
      BY <1>1, <1>7, <2>1 DEF Lock, ReadCounter, Rollback, InputsStand, CashStands, Open
<1>8. CASE Consume(c)
  <2>1. /\ pc[c] = "counted" /\ pc'[c] = "captured"
        /\ split'[c] = SplitOf(c, cur[c])
        /\ cash' = cash
        /\ c \in disturbed' <=> c \in disturbed
        BY <1>1, <1>8 DEF Consume, Write
  <2>2. split'[c].cents = PreviewCents(c)
        BY <1>1, <2>1 DEF ReadIsFresh, PreviewCents
  <2> QED
      BY <2>1, <2>2 DEF InputsStand, CashStands, Open
<1>9. CASE Reply(c)
      BY <1>1, <1>9 DEF Reply, FailLate, InputsStand, CashStands, Open
<1> QED
    BY <1>2, <1>3, <1>4, <1>5, <1>6, <1>7, <1>8, <1>9 DEF CallStep, TxStep

\* Nobody but the call itself touches its ledger row and its cash, and past the
\* collection it leaves them alone.
LEMMA NextRestPaid == TypeOK /\ RestPaid /\ [Next]_vars => RestPaid'
<1> SUFFICES ASSUME TypeOK, RestPaid, [Next]_vars
             PROVE  RestPaid'
    OBVIOUS
<1> USE ProcsAssumption, CallsAssumption DEF TypeOK, RestPaid
<1>1. ASSUME NEW c \in Calls, StartPreview(c) \/ Settle(c) \/ Authorize(c) \/ Work(c)
      PROVE  RestPaid'
      BY <1>1 DEF StartPreview, Settle, Authorize, Work
<1>2. ASSUME NEW c \in Calls, Consume(c)
      PROVE  RestPaid'
      BY <1>2 DEF Consume, Write
<1>3. ASSUME NEW c \in Calls, Reply(c)
      PROVE  RestPaid'
      BY <1>3 DEF Reply, FailLate
<1>4. ASSUME NEW c \in RestCalls, RestStep(c)
      PROVE  RestPaid'
      BY <1>4 DEF RestStep, Collect, PaidWork, Compensate, FailLate
<1>5. ASSUME NEW g \in Grants, Grant(g)
      PROVE  RestPaid'
      BY <1>5 DEF Grant
<1>6. ASSUME NEW p \in Procs, TxStep(p)
      PROVE  RestPaid'
      BY <1>6 DEF TxStep, StartTx, Lock, ReadCounter, Rollback
<1>7. CASE NextMonth \/ ChangePlan \/ EndTrial \/ UNCHANGED vars
      BY <1>7 DEF NextMonth, ChangePlan, EndTrial, vars
<1> QED
    BY <1>1, <1>2, <1>3, <1>4, <1>5, <1>6, <1>7 DEF Next, CallStep

LEMMA NextPaidInv == IInv /\ PaidInv /\ [Next]_vars => PaidInv'
<1>9. ASSUME IInv, PaidInv, [Next]_vars
      PROVE  RestPaid'
      BY <1>9, NextRestPaid DEF IInv, PaidInv
<1> SUFFICES ASSUME IInv, PaidInv, [Next]_vars, NEW n \in Calls \ RestCalls
             PROVE  InputsStand(n)' /\ CashStands(n)'
    BY <1>9 DEF PaidInv
<1> USE ProcsAssumption
<1>1. TypeOK /\ InputsStand(n) /\ CashStands(n)
      BY DEF IInv, PaidInv
<1>2. CASE CallStep(n) \/ TxStep(n)
      BY <1>1, <1>2, OwnPaidInv
<1>3. ASSUME NEW c \in Calls, c # n, Consume(c)
      PROVE  InputsStand(n)' /\ CashStands(n)'
      BY <1>1, <1>3, DisturbedPaidInv DEF Consume, Write, TypeOK
<1>4. ASSUME NEW g \in Grants, Grant(g)
      PROVE  InputsStand(n)' /\ CashStands(n)'
      BY <1>1, <1>4, DisturbedPaidInv DEF Grant, TypeOK
<1>5. CASE NextMonth \/ ChangePlan \/ EndTrial
      BY <1>1, <1>5, DisturbedPaidInv DEF NextMonth, ChangePlan, EndTrial
<1>6. ASSUME NEW c \in Calls, c # n, CallStep(c), ~Consume(c)
      PROVE  InputsStand(n)' /\ CashStands(n)'
      BY <1>1, <1>6, QuietPaidInv DEF CallStep, StartPreview, Gather, Settle, Authorize,
         Work, Reply, RestStep, Collect, PaidWork, Compensate, FailLate, TypeOK
<1>7. ASSUME NEW p \in Procs, p # n, TxStep(p)
      PROVE  InputsStand(n)' /\ CashStands(n)'
      BY <1>1, <1>7, QuietPaidInv DEF TxStep, StartTx, Gather, Lock, ReadCounter,
         Rollback, TypeOK
<1>8. CASE UNCHANGED vars
      BY <1>1, <1>8, QuietPaidInv DEF vars
<1> QED
    BY <1>2, <1>3, <1>4, <1>5, <1>6, <1>7, <1>8 DEF Next

\* However many calls, grants, plan changes and months interleave, a captured MCP
\* call that nothing came between has paid exactly the overage its row records,
\* and a REST call that goes to work always has.
THEOREM OverageIsCollected == Spec => []OverageIsPaid
<1>1. Init => IInv
      BY InitIInv
<1>2. Init => PaidInv
      BY ProcsAssumption, CallsAssumption
         DEF Init, PaidInv, RestPaid, InputsStand, CashStands, Open
<1>3. IInv /\ [Next]_vars => IInv'
      BY NextIInv
<1>4. IInv /\ PaidInv /\ [Next]_vars => PaidInv'
      BY NextPaidInv
<1>5. PaidInv => OverageIsPaid
      BY DEF PaidInv, RestPaid, CashStands, OverageIsPaid
<1> QED
    BY <1>1, <1>2, <1>3, <1>4, <1>5, PTL DEF Spec
-----------------------------------------------------------------------------
(***************************************************************************)
(* Crawls: that the free pool is not overdrawn, what is owed to a crawl    *)
(* that paid in advance and failed, and that an estimate holds until       *)
(* something else moves the account, for any number of crawls and any      *)
(* pool, plan, price and limits.  Nothing below depends on the calls above.*)
(***************************************************************************)
\* A draw that has read holds the lock of the pool, and what it has read still stands.
DrawsExclude ==
    \A c \in Crawl!Crawls :
        /\ crawling[c] \in {"read", "write"} => poolLock = c
        /\ crawling[c] = "write" => drawn[c].used = poolUsed[drawn[c].month]

\* Nothing is free before the draw; each door has its own stages; what a crawl
\* has paid in advance is its estimate.
AdvanceFits(c) ==
    /\ freePages[c] > 0 => crawling[c] \in {"bill", "catch"} \cup Crawl!Done
    /\ c \in McpCrawls => crawling[c] \notin {"quota", "key", "notok", "catch"} /\ ~pre[c]
    /\ c \in RestCrawls => crawling[c] # "authorize" /\ over[c] = 0
    /\ crawling[c] \in {"idle", "quota"} => ~pre[c] /\ paid[c] = 0
    /\ pre[c] /\ c \notin waived => paid[c] = est[c]

\* Only a crawl that has paid in advance has entries in the ledger; one entry,
\* once it has failed, if none of its INSERTs threw.
AdvanceOwed(c) ==
    /\ c \notin dropped =>
           crawlOwed[c] = IF pre[c] /\ crawling[c] = "failed" THEN 1 ELSE 0
    /\ crawlOwed[c] > 0 => pre[c] /\ crawling[c] \in {"catch", "failed"}

\* As long as nothing else moves the account, an estimate and what is left of
\* the pool make up the crawl's limit until it draws, and afterwards the estimate
\* and what it drew make up its pages, unless its draw threw.
EstimateStands(c) ==
    /\ crawling[c] \in {"quota", "authorize", "key", "fetch", "draw", "lock", "read", "write"}
           => est[c] + Crawl!Remaining >= LimitOf[c]
    /\ crawling[c] \in {"lock", "read", "write"} => drawn[c].month = poolMonth
    /\ crawling[c] \in {"bill", "answered"} /\ c \notin blind => est[c] + freePages[c] >= pages[c]

\* Nor does the plan lose what a crawl over MCP was authorized for.
AuthorizedStands(c) ==
    crawling[c] \in {"fetch", "draw", "lock", "read", "write", "bill"} =>
        Crawl!CreditsForPages(est[c]) <= left

\* A capture is within the plan.
CapturesFit ==
    \A c \in McpCrawls :
        /\ crawling[c] # "answered" => over[c] = 0
        /\ c \notin crossed \cup blind => over[c] = 0

CrawlInv ==
    /\ Crawl!TypeOK
    /\ DrawsExclude
    /\ \A c \in Crawl!Crawls : AdvanceFits(c) /\ AdvanceOwed(c)
    /\ \A m \in Crawl!Months : poolUsed[m] = taken[m]
    /\ \A c \in Crawl!Crawls \ crossed : EstimateStands(c)
    /\ \A c \in McpCrawls \ crossed : AuthorizedStands(c)
    /\ CapturesFit

\* Costing more pages takes no fewer credits.
LEMMA CrawlCreditsGrow ==
    ASSUME NEW m \in Nat, NEW n \in Nat, m <= n
    PROVE  /\ Crawl!CreditsForPages(m) \in Nat /\ Crawl!CreditsForPages(n) \in Nat
           /\ Crawl!CreditsForPages(m) <= Crawl!CreditsForPages(n)
<1>1. PerPageCents \in Nat
      BY CrawlParameters DEF Crawl!Parameters
<1>2. PICK d \in Nat : n = m + d
      BY SMT
<1>3. m * PerPageCents \in Nat /\ n * PerPageCents \in Nat /\ d * PerPageCents \in Nat
      BY <1>1, SMT
<1>4. n * PerPageCents = m * PerPageCents + d * PerPageCents
      BY <1>1, <1>2, SMT
<1>5. m * PerPageCents <= n * PerPageCents
      BY <1>3, <1>4
<1>6. ASSUME NEW a \in Nat, NEW b \in Nat, a <= b
      PROVE  LET Credits(k) == IF k = 0 THEN 1 ELSE Crawl!CreditsFromCents(k)
             IN  Credits(a) \in Nat /\ Credits(b) \in Nat /\ Credits(a) <= Credits(b)
      BY <1>6 DEF Crawl!CreditsFromCents, Crawl!CeilDiv, Crawl!CentsPer100Credits
<1> QED
    BY <1>3, <1>5, <1>6 DEF Crawl!CreditsForPages

LEMMA CrawlInitially ==
    Crawl!Init => CrawlInv
<1> SUFFICES ASSUME Crawl!Init PROVE CrawlInv
    OBVIOUS
<1>1. 0 \in Crawl!Months /\ Pool \in Nat /\ Allowance \in Nat
      BY CrawlParameters DEF Crawl!Parameters, Crawl!Months
<1>2. Crawl!TypeOK
      BY <1>1, CrawlParameters DEF Crawl!Parameters, Crawl!Init, Crawl!TypeOK, Crawl!Stages
<1>3. /\ DrawsExclude /\ CapturesFit
      /\ \A c \in Crawl!Crawls : AdvanceFits(c) /\ AdvanceOwed(c)
      BY DEF Crawl!Init, Crawl!Crawls, DrawsExclude, AdvanceFits, AdvanceOwed, CapturesFit
<1>4. \A m \in Crawl!Months : poolUsed[m] = taken[m]
      BY DEF Crawl!Init
<1>5. \A c \in Crawl!Crawls : EstimateStands(c) /\ AuthorizedStands(c)
      BY DEF Crawl!Init, EstimateStands, AuthorizedStands
<1> QED
    BY <1>2, <1>3, <1>4, <1>5 DEF CrawlInv, Crawl!Crawls

\* What a step of one crawl leaves alone: everything of the others, whom it
\* disturbs if it moves the pool or the plan.
Stands(d) ==
    /\ crawling'[d] = crawling[d] /\ est'[d] = est[d] /\ drawn'[d] = drawn[d]
    /\ pages'[d] = pages[d] /\ freePages'[d] = freePages[d] /\ pre'[d] = pre[d]
    /\ paid'[d] = paid[d] /\ crawlOwed'[d] = crawlOwed[d] /\ over'[d] = over[d]
    /\ (d \in waived' <=> d \in waived) /\ (d \in dropped' <=> d \in dropped)
    /\ (d \in blind' <=> d \in blind) /\ (d \in crossed => d \in crossed')

LEMMA OthersStand ==
    ASSUME Crawl!TypeOK, NEW c \in Crawl!Crawls, Crawl!Step(c),
           NEW d \in Crawl!Crawls, d # c
    PROVE  Stands(d)
<1> USE DEF Stands, Crawl!TypeOK, Crawl!Goto, Crawl!money, Crawl!ledger
<1>1. CASE \/ Crawl!Estimate(c) \/ Crawl!CheckKey(c) \/ Crawl!Authorize(c)
           \/ Crawl!BeginDraw(c) \/ Crawl!Lock(c) \/ Crawl!ReadPool(c)
      BY <1>1 DEF Crawl!Estimate, Crawl!CheckKey, Crawl!Authorize, Crawl!BeginDraw,
                  Crawl!Lock, Crawl!ReadPool
<1>2. CASE Crawl!PreCharge(c) \/ Crawl!Bill(c)
      BY <1>2 DEF Crawl!PreCharge, Crawl!Bill, Crawl!Charged, Crawl!NotCharged
<1>3. CASE Crawl!Fetch(c)
      BY <1>3 DEF Crawl!Fetch
<1>4. CASE Crawl!WritePool(c) \/ Crawl!DrawFails(c)
      BY <1>4 DEF Crawl!WritePool, Crawl!DrawFails, Crawl!Draw, Crawl!Disturb
<1>5. CASE Crawl!Capture(c)
      BY <1>5 DEF Crawl!Capture, Crawl!Disturb
<1>6. CASE Crawl!Compensate(c)
      BY <1>6 DEF Crawl!Compensate
<1> QED
    BY <1>1, <1>2, <1>3, <1>4, <1>5, <1>6 DEF Crawl!Step

UnderWay(d) == crawling[d] \notin {"idle"} \cup Crawl!Done

LEMMA MovesDisturb ==
    ASSUME NEW c \in Crawl!Crawls, Crawl!Step(c),
           NEW d \in Crawl!Crawls, d # c
    PROVE  poolMonth' = poolMonth /\ (UNCHANGED <<poolUsed, left>> \/ ~UnderWay(d) \/ d \in crossed')
<1> USE DEF Crawl!money, Crawl!pool, Crawl!Disturb, Crawl!Draw, UnderWay
<1>1. CASE Crawl!WritePool(c) \/ Crawl!DrawFails(c)
      BY <1>1 DEF Crawl!WritePool, Crawl!DrawFails
<1>2. CASE Crawl!Capture(c)
      BY <1>2 DEF Crawl!Capture
<1> QED
    BY <1>1, <1>2 DEF Crawl!Step, Crawl!Estimate, Crawl!CheckKey, Crawl!Authorize,
          Crawl!BeginDraw, Crawl!Lock, Crawl!ReadPool, Crawl!PreCharge, Crawl!Bill,
          Crawl!Fetch, Crawl!Compensate

\* A draw takes no more than its pages and what is left of the pool.
LEMMA ShareFits ==
    ASSUME CrawlInv, NEW c \in Crawl!Crawls, crawling[c] = "write"
    PROVE  /\ Crawl!Share(c) \in 0..pages[c]
           /\ drawn[c].month \in Crawl!Months
           /\ poolUsed[drawn[c].month] \in 0..Pool
           /\ drawn[c].used = poolUsed[drawn[c].month]
           /\ drawn[c].used + Crawl!Share(c) \in 0..Pool
           /\ \/ Crawl!Share(c) = pages[c]
              \/ drawn[c].used + Crawl!Share(c) = Pool
<1>1. drawn[c].used = poolUsed[drawn[c].month] /\ drawn[c].month \in Crawl!Months
      BY DEF CrawlInv, DrawsExclude, Crawl!TypeOK
<1>2. poolUsed[drawn[c].month] \in 0..Pool /\ Pool \in Nat /\ pages[c] \in Nat
      BY <1>1, CrawlParameters DEF CrawlInv, Crawl!TypeOK, Crawl!Parameters
<1> QED
    BY <1>1, <1>2 DEF Crawl!Share, Crawl!Lesser, Crawl!AtLeastZero

LEMMA CrawlTypes ==
    ASSUME CrawlInv, [Crawl!Next]_(Crawl!vars)
    PROVE  Crawl!TypeOK'
<1> USE DEF Crawl!TypeOK, Crawl!Goto, Crawl!ledger, Crawl!pool, Crawl!money
<1>1. Crawl!TypeOK
      BY DEF CrawlInv
<1>2. /\ Pool \in Nat /\ Allowance \in Nat /\ PerPageCents \in Nat
      /\ LimitOf \in [Crawl!Crawls -> Nat]
      BY CrawlParameters DEF Crawl!Parameters
<1>3. ASSUME NEW c \in Crawl!Crawls, Crawl!Estimate(c)
      PROVE  Crawl!TypeOK'
  <2>1. Crawl!AtLeastZero(LimitOf[c] - Crawl!Remaining) \in Nat
        BY <1>1, <1>2 DEF Crawl!AtLeastZero, Crawl!Remaining
  <2> QED
      BY <1>1, <1>3, <2>1 DEF Crawl!Estimate, Crawl!Stages
<1>4. ASSUME NEW c \in Crawl!Crawls, Crawl!PreCharge(c)
      PROVE  Crawl!TypeOK'
  <2>1. c \in RestCrawls
        BY <1>4 DEF CrawlInv, AdvanceFits, Crawl!PreCharge, Crawl!Crawls
  <2>2. est[c] \in Nat
        BY <1>1
  <2>3. paid' = [paid EXCEPT ![c] = @ + est[c]] \/ paid' = paid
        BY <1>4 DEF Crawl!PreCharge, Crawl!Charged, Crawl!NotCharged
  <2>4. paid' \in [Crawl!Crawls -> Nat]
        BY <1>1, <2>2, <2>3
  <2>5. waived' \subseteq RestCrawls
        BY <1>1, <1>4, <2>1 DEF Crawl!PreCharge, Crawl!Charged, Crawl!NotCharged
  <2>6. crawling' \in [Crawl!Crawls -> Crawl!Stages]
        BY <1>1, <1>4 DEF Crawl!PreCharge, Crawl!NotCharged, Crawl!Stages, Crawl!Done
  <2>7. pre' \in [Crawl!Crawls -> BOOLEAN]
        BY <1>1, <1>4 DEF Crawl!PreCharge
  <2> QED
      BY <1>1, <1>4, <2>4, <2>5, <2>6, <2>7 DEF Crawl!PreCharge
<1>5. ASSUME NEW c \in Crawl!Crawls,
             Crawl!CheckKey(c) \/ Crawl!Authorize(c) \/ Crawl!Lock(c)
      PROVE  Crawl!TypeOK'
      BY <1>1, <1>5 DEF Crawl!CheckKey, Crawl!Authorize, Crawl!Lock,
                        Crawl!Stages, Crawl!Done
<1>6. ASSUME NEW c \in Crawl!Crawls, Crawl!Fetch(c)
      PROVE  Crawl!TypeOK'
  <2>1. crawling' \in [Crawl!Crawls -> Crawl!Stages]
        BY <1>1, <1>6 DEF Crawl!Fetch, Crawl!Thrown, Crawl!Stages, Crawl!Done
  <2>2. freePages[c] = 0
        BY <1>1, <1>6 DEF CrawlInv, AdvanceFits, Crawl!Fetch, Crawl!Done
  <2>3. PICK n \in 0..LimitOf[c] : pages' = [pages EXCEPT ![c] = n] \/ pages' = pages
        BY <1>1, <1>2, <1>6 DEF Crawl!Fetch
  <2>4. /\ pages' \in [Crawl!Crawls -> Nat]
        /\ \A d \in Crawl!Crawls : pages'[d] <= LimitOf[d] /\ freePages[d] <= pages'[d]
        BY <1>1, <1>2, <2>2, <2>3
  <2> QED
      BY <1>1, <1>6, <2>1, <2>4 DEF Crawl!Fetch
<1>7. ASSUME NEW c \in Crawl!Crawls, Crawl!BeginDraw(c) \/ Crawl!ReadPool(c)
      PROVE  Crawl!TypeOK'
  <2>1. crawling' \in [Crawl!Crawls -> Crawl!Stages]
        BY <1>1, <1>7 DEF Crawl!BeginDraw, Crawl!ReadPool, Crawl!Stages
  <2>2. poolUsed[drawn[c].month] \in Nat
        BY <1>1, <1>2
  <2>3. drawn' \in [Crawl!Crawls -> [month : Crawl!Months, used : Nat]]
        BY <1>1, <1>7, <2>2 DEF Crawl!BeginDraw, Crawl!ReadPool
  <2> QED
      BY <1>1, <1>7, <2>1, <2>3 DEF Crawl!BeginDraw, Crawl!ReadPool
<1>8. ASSUME NEW c \in Crawl!Crawls, crawling[c] = "write", Crawl!Draw(c)
      PROVE  /\ poolUsed' \in [Crawl!Months -> 0..Pool] /\ taken' \in [Crawl!Months -> Nat]
             /\ poolLock' \in Crawl!Crawls \cup {NoCrawl}
             /\ crossed' \subseteq Crawl!Crawls
  <2>1. /\ drawn[c].used + Crawl!Share(c) \in 0..Pool
        /\ Crawl!Share(c) \in Nat
        BY <1>1, <1>8, ShareFits
  <2> QED
      BY <1>1, <1>8, <2>1 DEF Crawl!Draw, Crawl!Unlock, Crawl!Disturb
<1>9. ASSUME NEW c \in Crawl!Crawls, Crawl!WritePool(c)
      PROVE  Crawl!TypeOK'
  <2>1. /\ freePages' \in [Crawl!Crawls -> Nat]
        /\ \A d \in Crawl!Crawls : freePages'[d] <= pages[d]
        BY <1>1, <1>9, ShareFits DEF Crawl!WritePool
  <2> QED
      BY <1>1, <1>8, <1>9, <2>1 DEF Crawl!WritePool, Crawl!Stages
<1>10. ASSUME NEW c \in Crawl!Crawls, Crawl!DrawFails(c)
       PROVE  Crawl!TypeOK'
  <2>1. /\ crawling' \in [Crawl!Crawls -> Crawl!Stages]
        /\ blind' \subseteq McpCrawls
        BY <1>1, <1>10 DEF Crawl!DrawFails, Crawl!Stages
  <2>2. /\ poolUsed' \in [Crawl!Months -> 0..Pool] /\ taken' \in [Crawl!Months -> Nat]
        /\ poolLock' \in Crawl!Crawls \cup {NoCrawl}
        /\ crossed' \subseteq Crawl!Crawls
        BY <1>1, <1>8, <1>10 DEF Crawl!DrawFails, Crawl!Unlock
  <2> QED
      BY <1>1, <1>10, <2>1, <2>2 DEF Crawl!DrawFails
<1>11. ASSUME NEW c \in Crawl!Crawls, Crawl!Bill(c)
       PROVE  Crawl!TypeOK'
  <2>1. Crawl!Unfunded(c) \in Nat /\ c \in RestCrawls
        BY <1>1, <1>11 DEF Crawl!Unfunded, Crawl!Bill
  <2>2. /\ paid' \in [Crawl!Crawls -> Nat]
        /\ waived' \subseteq RestCrawls
        /\ crawling' \in [Crawl!Crawls -> Crawl!Stages]
        BY <1>1, <1>11, <2>1 DEF Crawl!Bill, Crawl!Charged, Crawl!NotCharged,
                          Crawl!Stages, Crawl!Done
  <2> QED
      BY <1>1, <1>11, <2>2 DEF Crawl!Bill
<1>12. ASSUME NEW c \in Crawl!Crawls, Crawl!Capture(c)
       PROVE  Crawl!TypeOK'
  <2>1. Crawl!Unfunded(c) \in Nat
        BY <1>1 DEF Crawl!Unfunded
  <2>2. Crawl!CreditsForPages(Crawl!Unfunded(c)) \in Nat
        BY <2>1, CrawlCreditsGrow
  <2>3. /\ Crawl!AtLeastZero(left - Crawl!CreditsForPages(Crawl!Unfunded(c))) \in 0..Allowance
        /\ Crawl!AtLeastZero(Crawl!CreditsForPages(Crawl!Unfunded(c)) - left) \in Nat
        BY <1>1, <1>2, <2>2 DEF Crawl!AtLeastZero
  <2>4. /\ left' \in 0..Allowance /\ paid' \in [Crawl!Crawls -> Nat]
        /\ over' \in [Crawl!Crawls -> Nat] /\ crossed' \subseteq Crawl!Crawls
        BY <1>1, <1>12, <2>1, <2>3 DEF Crawl!Capture, Crawl!Disturb
  <2>5. crawling' \in [Crawl!Crawls -> Crawl!Stages]
        BY <1>1, <1>12 DEF Crawl!Capture, Crawl!Stages, Crawl!Done
  <2> QED
      BY <1>1, <1>12, <2>4, <2>5 DEF Crawl!Capture
<1>13. ASSUME NEW c \in Crawl!Crawls, Crawl!Compensate(c)
       PROVE  Crawl!TypeOK'
  <2>1. c \in RestCrawls
        BY <1>13 DEF CrawlInv, AdvanceFits, Crawl!Compensate, Crawl!Crawls
  <2>2. crawlOwed' \in [Crawl!Crawls -> Nat]
    <3>1. \/ crawlOwed' = [crawlOwed EXCEPT ![c] = IF pre[c] THEN @ + 1 ELSE @]
          \/ \E lost \in {0, 1} : crawlOwed' = [crawlOwed EXCEPT ![c] = @ + lost]
          BY <1>13 DEF Crawl!Compensate
    <3> QED
        BY <1>1, <3>1
  <2>3. dropped' \subseteq RestCrawls
        BY <1>1, <1>13, <2>1 DEF Crawl!Compensate
  <2>4. crawling' \in [Crawl!Crawls -> Crawl!Stages]
        BY <1>1, <1>13 DEF Crawl!Compensate, Crawl!Stages, Crawl!Done
  <2> QED
      BY <1>1, <1>13, <2>2, <2>3, <2>4 DEF Crawl!Compensate
<1>14. CASE Crawl!NextMonth
  <2>1. LastPoolMonth \in Nat
        BY CrawlParameters DEF Crawl!Parameters
  <2>2. poolMonth' \in Crawl!Months
        BY <1>1, <1>14, <2>1 DEF Crawl!NextMonth, Crawl!Months
  <2> QED
      BY <1>1, <1>2, <1>14, <2>2 DEF Crawl!NextMonth, Crawl!Disturb
<1>15. CASE UNCHANGED Crawl!vars
      BY <1>1, <1>15 DEF Crawl!vars
<1> QED
    BY <1>3, <1>4, <1>5, <1>6, <1>7, <1>9, <1>10, <1>11, <1>12, <1>13, <1>14, <1>15
       DEF Crawl!Next, Crawl!Step

\* The lock excludes other draws, and nobody else writes what a draw has read.
LEMMA DrawsStayExclusive ==
    ASSUME CrawlInv, [Crawl!Next]_(Crawl!vars)
    PROVE  DrawsExclude' /\ (\A m \in Crawl!Months : poolUsed'[m] = taken'[m])
<1> USE DEF CrawlInv, DrawsExclude, Crawl!TypeOK, Crawl!Goto, Crawl!pool, Crawl!money
<1>1. NoCrawl \notin Crawl!Crawls
      BY CrawlParameters DEF Crawl!Parameters
<1>2. ASSUME NEW c \in Crawl!Crawls, Crawl!Step(c),
             UNCHANGED <<poolUsed, taken, poolLock>>,
             crawling'[c] \notin {"read", "write"}
      PROVE  DrawsExclude' /\ (\A m \in Crawl!Months : poolUsed'[m] = taken'[m])
  <2>1. \A d \in Crawl!Crawls \ {c} : crawling'[d] = crawling[d] /\ drawn'[d] = drawn[d]
        BY <1>2, OthersStand DEF Stands
  <2> QED
      BY <1>2, <2>1
<1>3. ASSUME NEW c \in Crawl!Crawls, Crawl!Lock(c) \/ Crawl!ReadPool(c)
      PROVE  DrawsExclude' /\ (\A m \in Crawl!Months : poolUsed'[m] = taken'[m])
  <2>1. \A d \in Crawl!Crawls \ {c} : crawling'[d] = crawling[d] /\ drawn'[d] = drawn[d]
        BY <1>3, OthersStand DEF Stands, Crawl!Step
  <2>2. CASE Crawl!Lock(c)
    <3>1. \A d \in Crawl!Crawls : crawling[d] \notin {"read", "write"}
          BY <1>1, <2>2 DEF Crawl!Lock
    <3> QED
        BY <2>1, <2>2, <3>1 DEF Crawl!Lock
  <2>3. CASE Crawl!ReadPool(c)
        BY <2>1, <2>3 DEF Crawl!ReadPool
  <2> QED
      BY <1>3, <2>2, <2>3
<1>4. ASSUME NEW c \in Crawl!Crawls, Crawl!WritePool(c) \/ Crawl!DrawFails(c)
      PROVE  DrawsExclude' /\ (\A m \in Crawl!Months : poolUsed'[m] = taken'[m])
  <2>1. \A d \in Crawl!Crawls \ {c} : crawling'[d] = crawling[d] /\ drawn'[d] = drawn[d]
        BY <1>4, OthersStand DEF Stands, Crawl!Step
  <2>2. \A d \in Crawl!Crawls \ {c} :
            crawling[d] \in {"read", "write"} => poolLock = d /\ poolLock' = d
        BY <1>4 DEF Crawl!WritePool, Crawl!DrawFails, Crawl!Draw, Crawl!Unlock
  <2>3. \A d \in Crawl!Crawls \ {c} :
            crawling[d] \in {"read", "write"} => UNCHANGED poolUsed
        BY <1>1, <1>4 DEF Crawl!WritePool, Crawl!DrawFails
  <2>4. crawling'[c] \in {"bill", "catch"}
        BY <1>4 DEF Crawl!WritePool, Crawl!DrawFails
  <2>5. ASSUME NEW m \in Crawl!Months
        PROVE  poolUsed'[m] = taken'[m]
    <3>1. CASE UNCHANGED <<poolUsed, taken>>
          BY <3>1
    <3>2. CASE crawling[c] = "write" /\ Crawl!Draw(c)
          BY <3>2, ShareFits DEF Crawl!Draw
    <3> QED
        BY <1>4, <3>1, <3>2 DEF Crawl!WritePool, Crawl!DrawFails
  <2> QED
      BY <2>1, <2>2, <2>3, <2>4, <2>5
<1>5. CASE Crawl!NextMonth \/ UNCHANGED Crawl!vars
      BY <1>5 DEF Crawl!NextMonth, Crawl!vars
<1>6. ASSUME NEW c \in Crawl!Crawls, Crawl!Step(c)
      PROVE  \/ Crawl!Lock(c) \/ Crawl!ReadPool(c) \/ Crawl!WritePool(c) \/ Crawl!DrawFails(c)
             \/ /\ UNCHANGED <<poolUsed, taken, poolLock>>
                /\ crawling'[c] \notin {"read", "write"}
      BY <1>6 DEF Crawl!Step, Crawl!Estimate, Crawl!CheckKey, Crawl!Authorize,
             Crawl!BeginDraw, Crawl!PreCharge, Crawl!NotCharged, Crawl!Bill, Crawl!Fetch,
             Crawl!Thrown, Crawl!Capture, Crawl!Compensate, Crawl!Done
<1> QED
    BY <1>2, <1>3, <1>4, <1>5, <1>6 DEF Crawl!Next

LEMMA AdvancesStay ==
    ASSUME CrawlInv, [Crawl!Next]_(Crawl!vars)
    PROVE  \A c \in Crawl!Crawls : AdvanceFits(c)' /\ AdvanceOwed(c)'
<1> DEFINE Fits(c) == AdvanceFits(c) /\ AdvanceOwed(c)
<1> USE DEF AdvanceFits, AdvanceOwed, Crawl!TypeOK, Crawl!Goto, Crawl!ledger,
            Crawl!money, Crawl!Done
<1>1. Crawl!TypeOK /\ \A c \in Crawl!Crawls : Fits(c)
      BY DEF CrawlInv
<1>2. RestCrawls \cap McpCrawls = {} /\ Crawl!Crawls = RestCrawls \cup McpCrawls
      BY CrawlParameters DEF Crawl!Parameters, Crawl!Crawls
<1>3. ASSUME NEW c \in Crawl!Crawls, Crawl!Step(c)
      PROVE  Fits(c)'
  <2>1. Fits(c) /\ est[c] \in Nat /\ paid[c] \in Nat /\ freePages[c] \in Nat
        BY <1>1
  <2>2. CASE Crawl!Estimate(c)
        BY <1>1, <1>2, <2>1, <2>2 DEF Crawl!Estimate
  <2>3. CASE Crawl!PreCharge(c)
    <3>1. /\ freePages' = freePages /\ over' = over /\ est' = est /\ UNCHANGED <<crawlOwed, dropped>>
          /\ crawling[c] = "quota" /\ crawling'[c] \in {"key", "refused", "failed"}
          BY <1>1, <2>3 DEF Crawl!PreCharge, Crawl!NotCharged
    <3>2. \/ pre'[c] = pre[c]
          \/ /\ crawling'[c] = "key" /\ pre'[c] = TRUE
             /\ paid'[c] = paid[c] + est[c] \/ c \in waived'
          BY <1>1, <2>3 DEF Crawl!PreCharge, Crawl!Charged
    <3>3. crawling[c] = "quota" => ~pre[c] /\ paid[c] = 0 /\ c \notin McpCrawls
          BY <2>1
    <3> QED
        BY <2>1, <3>1, <3>2, <3>3
  <2>4. CASE Crawl!CheckKey(c) \/ Crawl!Authorize(c)
        BY <1>1, <1>2, <2>1, <2>4 DEF Crawl!CheckKey, Crawl!Authorize
  <2>5. CASE Crawl!Fetch(c)
        BY <1>1, <1>2, <2>1, <2>5 DEF Crawl!Fetch, Crawl!Thrown
  <2>6. CASE Crawl!BeginDraw(c) \/ Crawl!Lock(c) \/ Crawl!ReadPool(c)
        BY <1>1, <1>2, <2>1, <2>6 DEF Crawl!BeginDraw, Crawl!Lock, Crawl!ReadPool
  <2>7. CASE Crawl!WritePool(c) \/ Crawl!DrawFails(c)
        BY <1>1, <1>2, <2>1, <2>7 DEF Crawl!WritePool, Crawl!DrawFails
  <2>8. CASE Crawl!Bill(c)
    <3>1. /\ freePages' = freePages /\ over' = over /\ est' = est /\ UNCHANGED <<crawlOwed, dropped, pre>>
          /\ crawling[c] = "bill" /\ crawling'[c] \in {"answered", "refused", "catch"}
          /\ c \in RestCrawls
          BY <1>1, <2>8 DEF Crawl!Bill, Crawl!NotCharged
    <3>2. pre[c] => UNCHANGED <<paid, waived>>
          BY <1>1, <2>8 DEF Crawl!Bill, Crawl!NotCharged
    <3> QED
        BY <1>2, <2>1, <3>1, <3>2
  <2>9. CASE Crawl!Capture(c)
    <3>1. /\ freePages' = freePages /\ UNCHANGED <<crawlOwed, dropped, pre>>
          /\ crawling[c] = "bill" /\ crawling'[c] \in {"answered", "failed"}
          /\ c \in McpCrawls
          BY <1>1, <2>9 DEF Crawl!Capture
    <3> QED
        BY <1>2, <2>1, <3>1
  <2>10. CASE Crawl!Compensate(c)
    <3>1. /\ freePages' = freePages /\ over' = over /\ est' = est /\ UNCHANGED <<paid, waived, pre>>
          /\ crawling[c] \in {"notok", "catch"}
          /\ crawling'[c] \in {"failed", "catch"} /\ c \in RestCrawls
          BY <1>1, <1>2, <2>10 DEF Crawl!Compensate
    <3>2. AdvanceFits(c)'
          BY <1>2, <2>1, <3>1
    <3>3. \/ /\ crawlOwed'[c] = IF pre[c] THEN crawlOwed[c] + 1 ELSE crawlOwed[c]
             /\ dropped' = dropped /\ crawling'[c] = "failed"
          \/ /\ pre[c] /\ c \in dropped' /\ crawling'[c] \in {"failed", "catch"}
          BY <1>1, <2>10 DEF Crawl!Compensate
    <3>4. AdvanceOwed(c)'
          BY <1>1, <2>1, <3>1, <3>3
    <3> QED
        BY <3>2, <3>4
  <2> QED
      BY <1>3, <2>2, <2>3, <2>4, <2>5, <2>6, <2>7, <2>8, <2>9, <2>10 DEF Crawl!Step
<1>4. ASSUME NEW c \in Crawl!Crawls, Crawl!Step(c), NEW d \in Crawl!Crawls
      PROVE  Fits(d)'
  <2>1. CASE d # c
    <3>1. Fits(d) /\ Stands(d)
          BY <1>1, <1>4, <2>1, OthersStand
    <3> QED
        BY <3>1 DEF Stands
  <2> QED
      BY <1>3, <1>4, <2>1
<1>5. CASE Crawl!NextMonth \/ UNCHANGED Crawl!vars
      BY <1>1, <1>5 DEF Crawl!NextMonth, Crawl!vars
<1> QED
    BY <1>4, <1>5 DEF Crawl!Next

\* Who paid for how much of the pool, of the estimate and of the plan.
UndisturbedFits(c) ==
    /\ c \notin crossed => EstimateStands(c)
    /\ c \in McpCrawls \ crossed => AuthorizedStands(c)
    /\ c \in McpCrawls =>
           /\ crawling[c] # "answered" => over[c] = 0
           /\ c \notin crossed \cup blind => over[c] = 0

\* What is left of the pool is a number, and the whole pool less its counter.
LEMMA RemainingFits ==
    ASSUME Crawl!TypeOK
    PROVE  /\ Crawl!Remaining \in Nat /\ Pool \in Nat
           /\ Crawl!Remaining = Pool - poolUsed[poolMonth]
<1>1. Pool \in Nat /\ poolUsed[poolMonth] \in 0..Pool
      BY CrawlParameters DEF Crawl!Parameters, Crawl!TypeOK
<1> QED
    BY <1>1 DEF Crawl!Remaining, Crawl!AtLeastZero

\* A draw of its own leaves an undisturbed crawl with free pages that, with its
\* estimate, make up what it brought.
LEMMA DrawMeetsEstimate ==
    ASSUME CrawlInv, NEW c \in Crawl!Crawls \ crossed, Crawl!WritePool(c)
    PROVE  est[c] + freePages'[c] >= pages[c]
<1>1. crawling[c] = "write" /\ freePages'[c] = Crawl!Share(c)
      BY DEF Crawl!WritePool, CrawlInv, Crawl!TypeOK
<1>2. est[c] + Crawl!Remaining >= LimitOf[c] /\ drawn[c].month = poolMonth
      BY <1>1 DEF CrawlInv, EstimateStands
<1>3. Crawl!Remaining = Pool - drawn[c].used /\ Crawl!Remaining \in Nat
      BY <1>1, <1>2, ShareFits, RemainingFits DEF CrawlInv
<1>4. \/ Crawl!Share(c) = pages[c]
      \/ drawn[c].used + Crawl!Share(c) = Pool
      BY <1>1, ShareFits
<1>5. /\ pages[c] \in Nat /\ pages[c] <= LimitOf[c] /\ LimitOf[c] \in Nat /\ est[c] \in Nat
      /\ drawn[c].used \in Nat /\ Pool \in Nat /\ Crawl!Share(c) \in Int
      BY <1>1, ShareFits, CrawlParameters DEF CrawlInv, Crawl!TypeOK, Crawl!Parameters
<1> QED
    BY <1>1, <1>2, <1>3, <1>4, <1>5

\* The crawl that makes a step.
LEMMA OwnStepFits ==
    ASSUME CrawlInv, NEW c \in Crawl!Crawls, Crawl!Step(c)
    PROVE  UndisturbedFits(c)'
<1> USE DEF UndisturbedFits, EstimateStands, AuthorizedStands, Crawl!TypeOK,
            Crawl!Goto, Crawl!ledger, Crawl!money, Crawl!pool, Crawl!Done
<1>1. Crawl!TypeOK /\ UndisturbedFits(c) /\ AdvanceFits(c)
      BY DEF CrawlInv, CapturesFit
<1>2. /\ LimitOf[c] \in Nat /\ est[c] \in Nat /\ pages[c] \in Nat /\ freePages[c] \in Nat
      /\ left \in Nat /\ pages[c] <= LimitOf[c]
      BY <1>1, CrawlParameters DEF Crawl!Parameters
<1>3. RestCrawls \cap McpCrawls = {} /\ Crawl!Crawls = RestCrawls \cup McpCrawls
      BY CrawlParameters DEF Crawl!Parameters, Crawl!Crawls
<1>4. Crawl!Remaining \in Nat /\ (UNCHANGED <<poolMonth, poolUsed>> => UNCHANGED Crawl!Remaining)
      BY <1>1, RemainingFits DEF Crawl!Remaining
<1>5. UNCHANGED est => UNCHANGED Crawl!CreditsForPages(est[c])
      BY DEF Crawl!CreditsForPages
<1>6. CASE Crawl!Estimate(c)
  <2>1. /\ crawling'[c] \in {"quota", "authorize"} /\ UNCHANGED <<poolMonth, poolUsed, over, crossed, blind>>
        /\ est'[c] = Crawl!AtLeastZero(LimitOf[c] - Crawl!Remaining) /\ crawling[c] = "idle"
        BY <1>1, <1>6 DEF Crawl!Estimate
  <2>2. est'[c] + Crawl!Remaining >= LimitOf[c]
        BY <1>2, <1>4, <2>1 DEF Crawl!AtLeastZero
  <2> QED
      BY <1>1, <1>4, <2>1, <2>2
<1>7. CASE Crawl!PreCharge(c) \/ Crawl!CheckKey(c)
  <2>1. /\ crawling[c] \in {"quota", "key"}
        /\ crawling'[c] \in {"key", "fetch", "refused", "failed", "unavailable"}
        /\ UNCHANGED <<poolMonth, poolUsed, over, crossed, blind, est>>
        BY <1>1, <1>7 DEF Crawl!PreCharge, Crawl!CheckKey, Crawl!NotCharged
  <2> QED
      BY <1>1, <1>3, <1>4, <2>1 DEF AdvanceFits
<1>8. CASE Crawl!Authorize(c)
  <2>1. /\ crawling[c] = "authorize"
        /\ UNCHANGED <<poolMonth, poolUsed, over, crossed, blind, est, left>>
        /\ \/ crawling'[c] = "refused"
           \/ crawling'[c] = "fetch" /\ ~(Crawl!CreditsForPages(est[c]) > left)
        BY <1>1, <1>8 DEF Crawl!Authorize
  <2>2. Crawl!CreditsForPages(est[c]) \in Nat
        BY <1>2, CrawlCreditsGrow
  <2> QED
      BY <1>1, <1>2, <1>4, <1>5, <2>1, <2>2
<1>9. CASE Crawl!Fetch(c)
  <2>1. /\ crawling[c] = "fetch" /\ crawling'[c] \in {"draw", "notok", "catch", "failed"}
        /\ UNCHANGED <<poolMonth, poolUsed, over, crossed, blind, est, left>>
        BY <1>1, <1>9 DEF Crawl!Fetch, Crawl!Thrown
  <2> QED
      BY <1>1, <1>4, <1>5, <2>1
<1>10. CASE Crawl!BeginDraw(c) \/ Crawl!Lock(c) \/ Crawl!ReadPool(c)
  <2>1. /\ UNCHANGED <<poolMonth, poolUsed, over, crossed, blind, est, left, pages, freePages>>
        /\ crawling[c] \in {"draw", "lock", "read"}
        /\ \/ crawling[c] = "draw" /\ crawling'[c] = "bill" /\ pages[c] = 0
           \/ crawling[c] = "draw" /\ crawling'[c] = "lock" /\ drawn'[c].month = poolMonth
           \/ /\ crawling[c] \in {"lock", "read"} /\ crawling'[c] \in {"read", "write"}
              /\ drawn'[c].month = drawn[c].month
        BY <1>1, <1>10 DEF Crawl!BeginDraw, Crawl!Lock, Crawl!ReadPool
  <2> QED
      BY <1>1, <1>2, <1>4, <1>5, <2>1
<1>11. CASE Crawl!WritePool(c)
  <2>1. /\ UNCHANGED <<over, blind, est, left, pages>> /\ (c \in crossed => c \in crossed')
        /\ crawling[c] = "write" /\ crawling'[c] = "bill"
        BY <1>1, <1>11 DEF Crawl!WritePool, Crawl!Draw, Crawl!Disturb
  <2> QED
      BY <1>1, <1>5, <1>11, <2>1, DrawMeetsEstimate
<1>12. CASE Crawl!DrawFails(c)
  <2>1. /\ UNCHANGED <<over, est, left, pages>> /\ (c \in crossed => c \in crossed')
        /\ crawling[c] \in {"lock", "read", "write"}
        /\ \/ c \in McpCrawls /\ crawling'[c] = "bill" /\ c \in blind'
           \/ crawling'[c] = "catch" /\ c \notin McpCrawls
        BY <1>1, <1>12 DEF Crawl!DrawFails, Crawl!Draw, Crawl!Disturb
  <2> QED
      BY <1>1, <1>5, <2>1
<1>13. CASE Crawl!Bill(c) \/ Crawl!Compensate(c)
  <2>1. /\ UNCHANGED <<over, est, pages, freePages, blind, crossed>> /\ c \in RestCrawls
        /\ crawling[c] \in {"bill", "notok", "catch"}
        /\ crawling'[c] = "answered" => crawling[c] = "bill"
        /\ crawling'[c] \in {"answered", "refused", "catch", "failed"}
        BY <1>1, <1>3, <1>13 DEF Crawl!Bill, Crawl!Compensate, Crawl!NotCharged, AdvanceFits
  <2> QED
      BY <1>1, <1>3, <2>1
<1>14. CASE Crawl!Capture(c)
  <2> DEFINE need == Crawl!CreditsForPages(Crawl!Unfunded(c))
  <2>1. /\ UNCHANGED <<est, pages, freePages, blind>> /\ (c \in crossed => c \in crossed')
        /\ crawling[c] = "bill"
        /\ \/ crawling'[c] = "answered" /\ over'[c] = Crawl!AtLeastZero(need - left)
           \/ crawling'[c] = "failed" /\ over'[c] = over[c]
        BY <1>1, <1>14 DEF Crawl!Capture, Crawl!Disturb
  <2>2. ASSUME c \in McpCrawls, c \notin crossed, c \notin blind
        PROVE  Crawl!AtLeastZero(need - left) = 0
    <3>1. /\ est[c] + freePages[c] >= pages[c] /\ freePages[c] <= pages[c]
          /\ Crawl!CreditsForPages(est[c]) <= left
          BY <1>1, <2>1, <2>2
    <3>2. Crawl!Unfunded(c) \in Nat /\ Crawl!Unfunded(c) <= est[c]
          BY <1>2, <3>1 DEF Crawl!Unfunded
    <3>3. need \in Nat /\ Crawl!CreditsForPages(est[c]) \in Nat
          /\ need <= Crawl!CreditsForPages(est[c])
          BY <1>2, <3>2, CrawlCreditsGrow
    <3> QED
        BY <1>2, <3>1, <3>3 DEF Crawl!AtLeastZero
  <2> QED
      BY <1>1, <2>1, <2>2
<1> QED
    BY <1>6, <1>7, <1>8, <1>9, <1>10, <1>11, <1>12, <1>13, <1>14 DEF Crawl!Step

\* Another crawl, and the new month.
LEMMA UndisturbedStays ==
    ASSUME CrawlInv, [Crawl!Next]_(Crawl!vars), NEW d \in Crawl!Crawls
    PROVE  UndisturbedFits(d)'
<1> USE DEF UndisturbedFits, EstimateStands, AuthorizedStands, UnderWay
<1>1. UndisturbedFits(d)
      BY DEF CrawlInv, CapturesFit
<1>2. ASSUME NEW c \in Crawl!Crawls, Crawl!Step(c), c # d
      PROVE  UndisturbedFits(d)'
  <2>1. Stands(d) /\ poolMonth' = poolMonth
        /\ (UNCHANGED <<poolUsed, left>> \/ ~UnderWay(d) \/ d \in crossed')
        BY <1>2, OthersStand, MovesDisturb DEF CrawlInv
  <2>2. UNCHANGED Crawl!CreditsForPages(est[d])
        BY <2>1 DEF Stands, Crawl!CreditsForPages
  <2>3. CASE UNCHANGED <<poolUsed, left>>
        BY <1>1, <2>1, <2>2, <2>3 DEF Stands, Crawl!Remaining
  <2>4. CASE ~UnderWay(d)
        BY <1>1, <2>1, <2>2, <2>4 DEF Stands, Crawl!Done
  <2>5. CASE d \in crossed'
        BY <1>1, <2>1, <2>5 DEF Stands
  <2> QED
      BY <2>1, <2>3, <2>4, <2>5
<1>3. CASE Crawl!NextMonth
  <2>1. /\ UNCHANGED <<crawling, est, drawn, pages, freePages, over, blind>>
        /\ d \in crossed => d \in crossed'
        /\ UnderWay(d) => d \in crossed'
        BY <1>3, CrawlParameters DEF Crawl!NextMonth, Crawl!Disturb, Crawl!Parameters
  <2> QED
      BY <1>1, <2>1 DEF Crawl!Done
<1>4. CASE UNCHANGED Crawl!vars
      BY <1>1, <1>4 DEF Crawl!vars, Crawl!Remaining, Crawl!CreditsForPages
<1> QED
    BY <1>2, <1>3, <1>4, OwnStepFits DEF Crawl!Next

LEMMA CrawlSpecInv == CrawlSpec => []CrawlInv
<1>1. Crawl!Init => CrawlInv
      BY CrawlInitially
<1>2. CrawlInv /\ [Crawl!Next]_(Crawl!vars) => CrawlInv'
  <2> SUFFICES ASSUME CrawlInv, [Crawl!Next]_(Crawl!vars) PROVE CrawlInv'
      OBVIOUS
  <2>1. Crawl!TypeOK' /\ DrawsExclude' /\ \A m \in Crawl!Months : poolUsed'[m] = taken'[m]
        BY CrawlTypes, DrawsStayExclusive
  <2>2. \A c \in Crawl!Crawls : AdvanceFits(c)' /\ AdvanceOwed(c)'
        BY AdvancesStay
  <2>3. \A c \in Crawl!Crawls : UndisturbedFits(c)'
        BY UndisturbedStays
  <2>4. CapturesFit' /\ (\A c \in Crawl!Crawls \ crossed' : EstimateStands(c)')
        /\ \A c \in McpCrawls \ crossed' : AuthorizedStands(c)'
        BY <2>3 DEF UndisturbedFits, CapturesFit, Crawl!Crawls
  <2> QED
      BY <2>1, <2>2, <2>4 DEF CrawlInv
<1> QED
    BY <1>1, <1>2, PTL DEF CrawlSpec, Crawl!Spec

\* The types of CrawlBilling hold.
THEOREM CrawlTypeCorrect == CrawlSpec => []CrawlTypeOK
<1>1. CrawlInv => CrawlTypeOK
      BY DEF CrawlInv, CrawlTypeOK
<1> QED
    BY <1>1, CrawlSpecInv, PTL

\* The free pool of a month is never overdrawn, and its counter is what draws
\* took, however many crawls draw at once and fail: who writes the counter still
\* holds the lock under which it read it.
THEOREM PoolStaysWithin == CrawlSpec => []PoolIsNotOverdrawn
<1>1. CrawlInv => PoolIsNotOverdrawn
  <2> SUFFICES ASSUME CrawlInv, NEW m \in Crawl!Months
               PROVE  poolUsed[m] = taken[m] /\ taken[m] <= Pool
      BY DEF PoolIsNotOverdrawn, Crawl!PoolIsNotOverdrawn
  <2>1. poolUsed[m] = taken[m] /\ poolUsed[m] \in 0..Pool /\ Pool \in Nat
        BY CrawlParameters DEF CrawlInv, Crawl!TypeOK, Crawl!Parameters
  <2> QED
      BY <2>1
<1> QED
    BY <1>1, CrawlSpecInv, PTL

\* What a crawl paid in advance and what the pool gave it cover the pages that it
\* delivers, unless something else moved the pool or the month in between: until
\* then its estimate and what is left of the pool make up its limit.
THEOREM AdvanceCoversPages == CrawlSpec => []PreChargeCovers
<1>1. CrawlInv => PreChargeCovers
  <2> SUFFICES ASSUME CrawlInv, NEW c \in RestCrawls, crawling[c] = "answered", pre[c],
                      c \notin crossed \cup waived
               PROVE  paid[c] + freePages[c] >= pages[c]
      BY DEF PreChargeCovers, Crawl!PreChargeCovers
  <2>1. c \in Crawl!Crawls /\ c \notin blind
        BY CrawlParameters DEF CrawlInv, Crawl!TypeOK, Crawl!Crawls, Crawl!Parameters
  <2>2. paid[c] = est[c] /\ est[c] + freePages[c] >= pages[c]
        BY <2>1 DEF CrawlInv, AdvanceFits, EstimateStands
  <2> QED
      BY <2>2
<1> QED
    BY <1>1, CrawlSpecInv, PTL

\* A crawl that paid in advance and failed is owed its estimate once, as long as
\* no INSERT into the ledger throws, and nobody else is ever owed anything.
THEOREM FailedAdvanceIsOwed == CrawlSpec => []FailedPreChargeIsOwed
<1>1. CrawlInv => FailedPreChargeIsOwed
      BY DEF CrawlInv, AdvanceOwed, FailedPreChargeIsOwed, Crawl!FailedPreChargeIsOwed
<1> QED
    BY <1>1, CrawlSpecInv, PTL

\* Until something else moves the account, the capture of a crawl over MCP stays
\* within the credits that were left when it was authorized: it pays for no more
\* pages than its estimate, and more pages never take fewer credits.
THEOREM CaptureStaysWithinPlan == CrawlSpec => []CapturedWithinPlan
<1>1. CrawlInv => CapturedWithinPlan
      BY DEF CrawlInv, CapturesFit, CapturedWithinPlan, Crawl!CapturedWithinPlan
<1> QED
    BY <1>1, CrawlSpecInv, PTL
=============================================================================
