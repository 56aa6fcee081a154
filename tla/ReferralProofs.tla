--------------------------- MODULE ReferralProofs ----------------------------
(***************************************************************************)
(* The referral row for any number of payments, referees and readers, and  *)
(* any thresholds: one free call and only after the paid ones, one reward  *)
(* for each referee, and no reward of an earlier month after a reset.      *)
(*                                                                         *)
(* The second half is about SignIns, the accounts that people sign in to.  *)
(***************************************************************************)
EXTENDS Referral, SignIns, FiniteSetTheorems, TLAPS

\* Requests are at stages of their own kind.
StageFits ==
    /\ \A p \in Payments : pc[p] \in {"idle", "counted", "grant", "done"}
    /\ \A p \in FreeTries : pc[p] \in {"idle", "done"}
    /\ \A p \in Conversions : pc[p] \in {"idle", "checked", "inserted", "done"}
    /\ \A p \in Readers : pc[p] \in {"idle", "reading", "stale", "done"}

\* Who is in raced has read the row.
RacedHaveRead == \A p \in raced : pc[p] \in {"grant", "done"}

\* A free call is there once it is given, and who is about to give it has seen
\* the paid calls.
GivenWhenEarned ==
    /\ ~given => used + free = 0
    /\ given => paidCalls >= PaidForFree
    /\ \A p \in Payments : pc[p] = "grant" => paidCalls >= PaidForFree

\* The payments that are about to grant. Each of them counts: whoever joined the
\* others is in raced, and whoever comes after them finds the grant.
Granting == {p \in Payments : pc[p] = "grant"}

GrantsAreKnown == used + free + Cardinality(Granting) <= 1 + Cardinality(raced)

\* No reset and no reader is ahead of the calendar.
NotAhead == resetIn <= month /\ \A p \in Readers : seen[p] <= month

IInv ==
    /\ TypeOK
    /\ IsFiniteSet(converted)
    /\ StageFits
    /\ RacedHaveRead
    /\ GivenWhenEarned
    /\ GrantsAreKnown
    /\ NotAhead
    /\ RefereeCountsOnce
    /\ EarnedIsThisMonths

-----------------------------------------------------------------------------
(* One lemma for each conjunct *)

LEMMA InitHolds == Init => IInv
<1> SUFFICES ASSUME Init PROVE IInv
    OBVIOUS
<1>1. 0 \in Months /\ 0 \in 0..MaxEarned
      BY AmountsAssumption DEF Months
<1>2. TypeOK
      BY <1>1 DEF Init, TypeOK, Stages
<1>3. StageFits /\ RacedHaveRead /\ GivenWhenEarned
      BY DEF Init, StageFits, RacedHaveRead, GivenWhenEarned, Procs
<1>4. GrantsAreKnown
  <2>1. Granting = {} /\ raced = {} /\ used + free = 0
        BY DEF Init, Granting, Procs
  <2> QED
      BY <2>1, FS_EmptySet DEF GrantsAreKnown
<1>5. NotAhead /\ EarnedIsThisMonths
      BY DEF Init, NotAhead, EarnedIsThisMonths
<1>6. {p \in Conversions : pc[p] = "inserted"} = {}
      BY DEF Init, Procs
<1>7. RefereeCountsOnce /\ IsFiniteSet(converted)
      BY <1>6, FS_EmptySet DEF Init, RefereeCountsOnce
<1> QED
    BY <1>2, <1>3, <1>4, <1>5, <1>7 DEF IInv

\* A step of a request: the others stay where they are.
Step(p) ==
    \/ p \in Payments /\ (CountPaidCall(p) \/ ReadBack(p) \/ GrantFreeCall(p))
    \/ p \in FreeTries /\ ConsumeFreeCall(p)
    \/ p \in Conversions /\ (CheckConverted(p) \/ InsertConversion(p) \/ Reward(p))
    \/ p \in Readers /\ (StartRead(p) \/ ReadResetMonth(p) \/ ResetEarned(p))
    \/ Die(p)

LEMMA NextIsStep ==
    ASSUME Next PROVE NextMonth \/ \E p \in Procs : Step(p)
BY DEF Next, Step, Procs

LEMMA TypeStep ==
    ASSUME TypeOK, NEW p \in Procs, Step(p) PROVE TypeOK'
<1> USE AmountsAssumption DEF Procs, Stages, Goto, Rewards, FreeCalls
<1>1. CASE CountPaidCall(p)
      BY <1>1 DEF CountPaidCall, TypeOK
<1>2. CASE p \in Payments /\ ReadBack(p)
      BY <1>2 DEF ReadBack, ReadBackIf, TypeOK
<1>3. CASE GrantFreeCall(p)
      BY <1>3 DEF GrantFreeCall, TypeOK
<1>4. CASE ConsumeFreeCall(p)
      BY <1>4 DEF ConsumeFreeCall, TypeOK
<1>5. CASE CheckConverted(p)
      BY <1>5 DEF CheckConverted, TypeOK
<1>6. CASE p \in Conversions /\ InsertConversion(p)
      BY <1>6, ProcsAssumption DEF InsertConversion, TypeOK
<1>7. CASE Reward(p)
      BY <1>7 DEF Reward, TypeOK
<1>8. CASE p \in Readers /\ StartRead(p)
      BY <1>8 DEF StartRead, TypeOK
<1>9. CASE ReadResetMonth(p)
      BY <1>9 DEF ReadResetMonth, TypeOK
<1>10. CASE p \in Readers /\ ResetEarned(p)
      BY <1>10 DEF ResetEarned, TypeOK
<1>11. CASE Die(p)
      BY <1>11 DEF Die, TypeOK
<1> QED
    BY <1>1, <1>2, <1>3, <1>4, <1>5, <1>6, <1>7, <1>8, <1>9, <1>10, <1>11 DEF Step

LEMMA StageStep ==
    ASSUME TypeOK, StageFits, NEW p \in Procs, Step(p) PROVE StageFits'
<1> USE ProcsAssumption DEF Procs, Goto, StageFits
<1>1. pc \in [Procs -> Stages]
      BY DEF TypeOK
<1>2. CASE p \in Payments /\ (CountPaidCall(p) \/ ReadBack(p) \/ GrantFreeCall(p))
      BY <1>1, <1>2 DEF CountPaidCall, ReadBack, ReadBackIf, GrantFreeCall
<1>3. CASE p \in FreeTries /\ ConsumeFreeCall(p)
      BY <1>1, <1>3 DEF ConsumeFreeCall
<1>4. CASE p \in Conversions /\ (CheckConverted(p) \/ InsertConversion(p) \/ Reward(p))
      BY <1>1, <1>4 DEF CheckConverted, InsertConversion, Reward
<1>5. CASE p \in Readers /\ (StartRead(p) \/ ReadResetMonth(p) \/ ResetEarned(p))
      BY <1>1, <1>5 DEF StartRead, ReadResetMonth, ResetEarned
<1>6. CASE Die(p)
      BY <1>1, <1>6 DEF Die
<1> QED
    BY <1>2, <1>3, <1>4, <1>5, <1>6 DEF Step

LEMMA RacedStep ==
    ASSUME TypeOK, RacedHaveRead, NEW p \in Procs, Step(p) PROVE RacedHaveRead'
<1>1. pc \in [Procs -> Stages] /\ raced \subseteq Payments
      BY DEF TypeOK
<1>2. CASE p \in Payments /\ ReadBack(p)
      BY <1>1, <1>2 DEF ReadBack, ReadBackIf, RacedHaveRead, Goto, Procs
<1>3. CASE p \in Payments /\ (CountPaidCall(p) \/ GrantFreeCall(p))
      BY <1>1, <1>3 DEF CountPaidCall, GrantFreeCall, RacedHaveRead, Goto, Procs
<1>4. CASE p \notin Payments
  <2>1. \A q \in Payments : pc'[q] = pc[q]
        BY <1>1, <1>4 DEF Step, ConsumeFreeCall, CheckConverted, InsertConversion, Reward,
                          StartRead, ReadResetMonth, ResetEarned, Die, Goto, Procs
  <2>2. raced' = raced
        BY <1>4 DEF Step, ConsumeFreeCall, CheckConverted, InsertConversion, Reward,
                    StartRead, ReadResetMonth, ResetEarned, Die, FreeCalls
  <2> QED
      BY <1>1, <2>1, <2>2 DEF RacedHaveRead
<1>5. CASE Die(p)
      BY <1>1, <1>5 DEF Die, RacedHaveRead, Goto, Procs, FreeCalls
<1> QED
    BY <1>2, <1>3, <1>4, <1>5, ProcsAssumption DEF Step, Procs

LEMMA EarnedFirst ==
    ASSUME TypeOK, StageFits, GivenWhenEarned, NEW p \in Procs, Step(p)
    PROVE  GivenWhenEarned'
<1> USE ProcsAssumption DEF Procs, Goto, GivenWhenEarned
<1>1. /\ pc \in [Procs -> Stages] /\ used \in Nat /\ free \in {0, 1} /\ paidCalls \in Nat
      /\ PaidForFree \in Nat
      BY AmountsAssumption DEF TypeOK
<1>2. CASE p \in Payments /\ CountPaidCall(p)
      BY <1>1, <1>2 DEF CountPaidCall
<1>3. CASE p \in Payments /\ ReadBack(p)
      BY <1>1, <1>3 DEF ReadBack, ReadBackIf
<1>4. CASE p \in Payments /\ GrantFreeCall(p)
      BY <1>1, <1>4 DEF GrantFreeCall
<1>5. CASE p \in FreeTries /\ ConsumeFreeCall(p)
  <2> HIDE DEF GivenWhenEarned
  <2>1. \A q \in Payments : pc'[q] = pc[q]
    <3>1. pc' = [pc EXCEPT ![p] = "done"] /\ p \notin Payments
          BY <1>5 DEF ConsumeFreeCall
    <3> QED
        BY <1>1, <3>1
  <2>2. used' + free' = used + free /\ given' = given /\ paidCalls' = paidCalls
        BY <1>1, <1>5 DEF ConsumeFreeCall
  <2> USE DEF GivenWhenEarned
  <2> QED
      BY <2>1, <2>2
<1>6. CASE p \in Conversions \cup Readers
  <2>1. \A q \in Payments : pc'[q] = pc[q]
        BY <1>1, <1>6 DEF Step, CheckConverted, InsertConversion, Reward,
                          StartRead, ReadResetMonth, ResetEarned, Die
  <2>2. UNCHANGED FreeCalls
        BY <1>6 DEF Step, CheckConverted, InsertConversion, Reward,
                    StartRead, ReadResetMonth, ResetEarned, Die, FreeCalls
  <2> QED
      BY <2>1, <2>2 DEF FreeCalls
<1>7. CASE Die(p)
      BY <1>1, <1>7 DEF Die, FreeCalls
<1> QED
    BY <1>2, <1>3, <1>4, <1>5, <1>6, <1>7 DEF Step

\* A payment that starts to grant is the first, or it is in raced from then on; one
\* that grants leaves the granting ones and adds at most its own call.
LEMMA GrantsStep ==
    ASSUME TypeOK, RacedHaveRead, GivenWhenEarned, GrantsAreKnown, NEW p \in Procs, Step(p)
    PROVE  GrantsAreKnown'
<1> DEFINE n == Cardinality(Granting)
           c == Cardinality(raced)
<1>1. /\ pc \in [Procs -> Stages] /\ used \in Nat /\ free \in {0, 1}
      /\ Granting \in SUBSET Payments /\ raced \in SUBSET Payments
      BY DEF TypeOK, Granting
<1>2. IsFiniteSet(Granting) /\ IsFiniteSet(raced) /\ n \in Nat /\ c \in Nat
      BY <1>1, FS_Subset, FS_CardinalityType, ProcsAssumption
<1>3. used + free + n <= 1 + c
      BY DEF GrantsAreKnown
<1>4. CASE p \in Payments /\ ReadBack(p) /\ paidCalls >= PaidForFree /\ ~given
  <2>1. Granting' = Granting \cup {p} /\ p \notin Granting /\ used' = used /\ free' = free
        BY <1>1, <1>4 DEF ReadBack, ReadBackIf, Granting, Goto
  <2>2. Cardinality(Granting') = n + 1 /\ used + free = 0
        BY <1>2, <1>4, <2>1, FS_AddElement DEF GivenWhenEarned
  <2>3. CASE Granting = {}
    <3>1. raced' = raced /\ n = 0
          BY <1>4, <2>3, FS_EmptySet DEF ReadBack, ReadBackIf, Granting
    <3>2. used' + free' = 0 /\ Cardinality(Granting') = 1
          BY <2>1, <2>2, <3>1
    <3> QED
        BY <1>2, <3>1, <3>2 DEF GrantsAreKnown
  <2>4. CASE Granting # {}
    <3>1. raced' = raced \cup {p}
          BY <1>4, <2>4 DEF ReadBack, ReadBackIf, Granting
    <3>2. CASE p \notin raced
      <4>1. Cardinality(raced') = c + 1
            BY <1>2, <3>1, <3>2, FS_AddElement
      <4>2. used' + free' = 0 /\ n <= 1 + c
            BY <1>1, <1>2, <1>3, <2>1, <2>2
      <4> QED
          BY <1>2, <2>2, <4>1, <4>2 DEF GrantsAreKnown
    <3>3. CASE p \in raced
          BY <1>4, <3>3 DEF ReadBack, ReadBackIf, RacedHaveRead
    <3> QED
        BY <3>2, <3>3
  <2> QED
      BY <2>3, <2>4
<1>5. CASE p \in Payments /\ GrantFreeCall(p)
  <2>1. Granting' = Granting \ {p} /\ p \in Granting /\ raced' = raced
        BY <1>1, <1>5 DEF GrantFreeCall, Granting, Goto
  <2>2. Cardinality(Granting') = n - 1
    <3>1. Cardinality(Granting \ {p}) = n - 1
          BY <1>2, <2>1, FS_RemoveElement
    <3> QED
        BY <2>1, <3>1
  <2>3. used' = used /\ free' = 1
        BY <1>5 DEF GrantFreeCall
  <2> QED
      BY <1>1, <1>2, <1>3, <2>1, <2>2, <2>3 DEF GrantsAreKnown
<1>6. ASSUME Granting' \in SUBSET Granting, raced' = raced, used' + free' = used + free
      PROVE  GrantsAreKnown'
  <2>1. IsFiniteSet(Granting') /\ Cardinality(Granting') <= n
        BY <1>2, <1>6, FS_Subset
  <2>2. Cardinality(Granting') \in Nat
        BY <2>1, FS_CardinalityType
  <2>3. used + free \in Nat
        BY <1>1
  <2> QED
      BY <1>2, <1>3, <1>6, <2>1, <2>2, <2>3 DEF GrantsAreKnown
<1>7. CASE p \in Payments /\ ReadBack(p) /\ ~(paidCalls >= PaidForFree /\ ~given)
  <2>1. Granting' \in SUBSET Granting
        BY <1>1, <1>7 DEF ReadBack, ReadBackIf, Granting, Goto
  <2>2. raced' = raced /\ used' = used /\ free' = free
        BY <1>7 DEF ReadBack, ReadBackIf
  <2> QED
      BY <1>6, <2>1, <2>2
<1>8. CASE p \in Payments /\ CountPaidCall(p)
  <2>1. Granting' \in SUBSET Granting
        BY <1>1, <1>8 DEF CountPaidCall, Granting, Goto
  <2>2. raced' = raced /\ used' = used /\ free' = free
        BY <1>8 DEF CountPaidCall
  <2> QED
      BY <1>6, <2>1, <2>2
<1>9. CASE Die(p)
  <2>1. Granting' \in SUBSET Granting
        BY <1>1, <1>9 DEF Die, Granting, Goto
  <2>2. raced' = raced /\ used' = used /\ free' = free
        BY <1>9 DEF Die, FreeCalls
  <2> QED
      BY <1>6, <2>1, <2>2
<1>10. CASE p \in FreeTries /\ ConsumeFreeCall(p)
  <2>1. Granting' \in SUBSET Granting
        BY <1>1, <1>10 DEF ConsumeFreeCall, Granting, Goto
  <2>2. raced' = raced /\ used' + free' = used + free
        BY <1>1, <1>10 DEF ConsumeFreeCall
  <2> QED
      BY <1>6, <2>1, <2>2
<1>11. CASE p \in Conversions \cup Readers /\ ~Die(p)
  <2>1. \A q \in Payments : pc'[q] = pc[q]
        BY <1>1, <1>11, ProcsAssumption
           DEF Step, CheckConverted, InsertConversion, Reward, StartRead, ReadResetMonth,
               ResetEarned, Goto, Procs
  <2>2. raced' = raced /\ used' = used /\ free' = free
        BY <1>11, ProcsAssumption
           DEF Step, CheckConverted, InsertConversion, Reward, StartRead, ReadResetMonth,
               ResetEarned, FreeCalls
  <2>3. Granting' \in SUBSET Granting
        BY <2>1 DEF Granting
  <2> QED
      BY <1>6, <2>2, <2>3
<1> QED
    BY <1>4, <1>5, <1>7, <1>8, <1>9, <1>10, <1>11, ProcsAssumption DEF Step, Procs

LEMMA NotAheadStep ==
    ASSUME TypeOK, NotAhead, NEW p \in Procs, Step(p) PROVE NotAhead'
<1>1. month \in Nat /\ seen \in [Readers -> Nat]
      BY DEF TypeOK, Months
<1>2. CASE p \in Readers /\ StartRead(p)
      BY <1>1, <1>2 DEF StartRead, NotAhead, Rewards
<1>3. CASE p \in Readers /\ ResetEarned(p)
      BY <1>3 DEF ResetEarned, NotAhead
<1>4. CASE ~StartRead(p) /\ ~ResetEarned(p)
      BY <1>4 DEF Step, CountPaidCall, ReadBack, ReadBackIf, GrantFreeCall, ConsumeFreeCall, CheckConverted,
                  InsertConversion, Reward, ReadResetMonth, Die, Rewards, NotAhead
<1>5. ASSUME p \notin Readers, StartRead(p) \/ ResetEarned(p) PROVE NotAhead'
      BY <1>1, <1>5, ProcsAssumption
         DEF Step, CountPaidCall, ReadBack, ReadBackIf, GrantFreeCall, ConsumeFreeCall, CheckConverted,
             InsertConversion, Reward, Die, Rewards, NotAhead
<1> QED
    BY <1>2, <1>3, <1>4, <1>5

\* A reward takes its conversion out of those that wait for one.
LEMMA CountStep ==
    ASSUME TypeOK, StageFits, IsFiniteSet(converted), RefereeCountsOnce,
           NEW p \in Procs, Step(p)
    PROVE  IsFiniteSet(converted)' /\ RefereeCountsOnce'
<1> DEFINE W == {q \in Conversions : pc[q] = "inserted"}
           n == Cardinality(W)
           c == Cardinality(converted)
<1>1. /\ pc \in [Procs -> Stages] /\ lifetime \in Nat
      /\ IsFiniteSet(W) /\ n \in Nat /\ c \in Nat
      <2>1. W \in SUBSET Conversions
            OBVIOUS
      <2> QED
          BY <2>1, FS_Subset, FS_CardinalityType, ProcsAssumption DEF TypeOK
<1>2. lifetime + n <= c
      BY DEF RefereeCountsOnce
<1>3. CASE p \in Conversions /\ InsertConversion(p) /\ RefereeOf[p] \notin converted
      <2>1. W' = W \cup {p} /\ p \notin W
            BY <1>1, <1>3 DEF InsertConversion, Goto
      <2>2. converted' = converted \cup {RefereeOf[p]} /\ lifetime' = lifetime
            BY <1>3 DEF InsertConversion
      <2>3. Cardinality(W') = n + 1 /\ IsFiniteSet(converted') /\ Cardinality(converted') = c + 1
            BY <1>1, <1>3, <2>1, <2>2, FS_AddElement
      <2>4. lifetime' + (n + 1) <= c + 1
            BY <1>1, <1>2, <2>2
      <2> QED
          BY <2>3, <2>4 DEF RefereeCountsOnce
<1>4. CASE p \in Conversions /\ Reward(p)
      <2>1. W' = W \ {p} /\ p \in W
            BY <1>1, <1>4 DEF Reward, Goto
      <2>2. converted' = converted /\ lifetime' = lifetime + 1
            BY <1>4 DEF Reward
      <2>3. Cardinality(W') = n - 1
            <3>1. Cardinality(W \ {p}) = n - 1
                  BY <1>1, <2>1, FS_RemoveElement
            <3> QED
                BY <2>1, <3>1
      <2>4. lifetime' + (n - 1) <= c
            BY <1>1, <1>2, <2>2
      <2> QED
          BY <2>2, <2>3, <2>4 DEF RefereeCountsOnce
<1>5. ASSUME converted' = converted, lifetime' = lifetime, W' \in SUBSET W
      PROVE  IsFiniteSet(converted)' /\ RefereeCountsOnce'
      <2>1. IsFiniteSet(W') /\ Cardinality(W') <= n
            BY <1>1, <1>5, FS_Subset
      <2>2. Cardinality(W') \in Nat
            BY <2>1, FS_CardinalityType
      <2>3. lifetime' + Cardinality(W') <= c
            BY <1>1, <1>2, <1>5, <2>1, <2>2
      <2> QED
          BY <1>5, <2>3 DEF RefereeCountsOnce
<1>6. CASE p \in Conversions /\ InsertConversion(p) /\ RefereeOf[p] \in converted
      <2>1. W' \in SUBSET W /\ converted' = converted /\ lifetime' = lifetime
            BY <1>1, <1>6 DEF InsertConversion, Goto
      <2> QED
          BY <1>5, <2>1
<1>7. CASE p \in Conversions /\ CheckConverted(p)
      <2>1. W' \in SUBSET W /\ converted' = converted /\ lifetime' = lifetime
            BY <1>1, <1>7 DEF CheckConverted, Goto, Rewards
      <2> QED
          BY <1>5, <2>1
<1>8. CASE Die(p)
      <2>1. W' \in SUBSET W /\ converted' = converted /\ lifetime' = lifetime
            BY <1>1, <1>8 DEF Die, Goto, Rewards
      <2> QED
          BY <1>5, <2>1
<1>9. CASE p \in Payments \cup FreeTries /\ ~Die(p)
      <2>1. W' \in SUBSET W
            BY <1>1, <1>9, ProcsAssumption
               DEF Step, CountPaidCall, ReadBack, ReadBackIf, GrantFreeCall, ConsumeFreeCall, Goto, Procs
      <2>2. converted' = converted /\ lifetime' = lifetime
            BY <1>9, ProcsAssumption
               DEF Step, CountPaidCall, ReadBack, ReadBackIf, GrantFreeCall, ConsumeFreeCall, Rewards
      <2> QED
          BY <1>5, <2>1, <2>2
<1>10. CASE p \in Readers /\ ~Die(p)
      <2>1. W' \in SUBSET W
            BY <1>1, <1>10, ProcsAssumption
               DEF Step, StartRead, ReadResetMonth, ResetEarned, Goto, Procs
      <2>2. converted' = converted /\ lifetime' = lifetime
            BY <1>10, ProcsAssumption DEF Step, StartRead, ReadResetMonth, ResetEarned, Rewards
      <2> QED
          BY <1>5, <2>1, <2>2
<1> QED
    BY <1>3, <1>4, <1>6, <1>7, <1>8, <1>9, <1>10 DEF Step, Procs

LEMMA EarnedStep ==
    ASSUME TypeOK, EarnedIsThisMonths, NEW p \in Procs, Step(p) PROVE EarnedIsThisMonths'
<1>1. earned \in Nat /\ thisMonth \in Nat /\ MaxEarned \in Nat
      BY AmountsAssumption DEF TypeOK
<1>2. CASE Reward(p)
      BY <1>1, <1>2 DEF Reward, EarnedIsThisMonths
<1>3. CASE ResetEarned(p)
      BY <1>1, <1>3 DEF ResetEarned, EarnedIsThisMonths
<1>4. CASE ~Reward(p) /\ ~ResetEarned(p)
      BY <1>4 DEF Step, CountPaidCall, ReadBack, ReadBackIf, GrantFreeCall, ConsumeFreeCall, CheckConverted,
                  InsertConversion, StartRead, ReadResetMonth, Die, Rewards, EarnedIsThisMonths
<1> QED
    BY <1>2, <1>3, <1>4

\* A new month has no rewards yet, and no row is stamped with it.
LEMMA MonthStep == ASSUME IInv, NextMonth PROVE IInv'
<1> USE DEF NextMonth, FreeCalls
<1>1. month \in Nat /\ resetIn \in Nat /\ seen \in [Readers -> Nat] /\ LastMonth \in Nat
      BY AmountsAssumption DEF IInv, TypeOK, Months
<1>2. TypeOK'
      BY <1>1 DEF IInv, TypeOK, Months
<1>3. StageFits' /\ RacedHaveRead' /\ GivenWhenEarned' /\ GrantsAreKnown'
      BY DEF IInv, StageFits, RacedHaveRead, GivenWhenEarned, GrantsAreKnown, Granting
<1>4. NotAhead' /\ EarnedIsThisMonths'
      BY <1>1 DEF IInv, NotAhead, EarnedIsThisMonths
<1>5. RefereeCountsOnce' /\ IsFiniteSet(converted)'
      BY DEF IInv, RefereeCountsOnce
<1> QED
    BY <1>2, <1>3, <1>4, <1>5 DEF IInv

LEMMA IInvStep == IInv /\ [Next]_vars => IInv'
<1> SUFFICES ASSUME IInv, [Next]_vars PROVE IInv'
    OBVIOUS
<1>1. CASE NextMonth
      BY <1>1, MonthStep
<1>2. ASSUME NEW p \in Procs, Step(p) PROVE IInv'
      BY <1>2, TypeStep, StageStep, RacedStep, EarnedFirst, GrantsStep, NotAheadStep, CountStep, EarnedStep
         DEF IInv
<1>3. CASE UNCHANGED vars
      BY <1>3 DEF vars, IInv, TypeOK, StageFits, RacedHaveRead, GivenWhenEarned, GrantsAreKnown, Granting, NotAhead,
                  RefereeCountsOnce, EarnedIsThisMonths
<1> QED
    BY <1>1, <1>2, <1>3, NextIsStep

-----------------------------------------------------------------------------

\* The invariant holds in every reachable state.
THEOREM Inductive == Spec => []IInv
BY InitHolds, IInvStep, PTL DEF Spec

\* The variables keep their types; what was earned stays under the cap.
THEOREM TypeCorrect == Spec => []TypeOK
<1>1. IInv => TypeOK
      BY DEF IInv
<1> QED
    BY <1>1, Inductive, PTL

\* However payments overlap, requests die and others try to consume it: the account
\* gets one free call and at most one more for each payment that read the row while
\* another grant was on its way.
THEOREM OneFreeCallUnlessRaced == Spec => []OneFreeCall
<1>1. IInv => OneFreeCall
  <2> SUFFICES ASSUME IInv PROVE OneFreeCall
      OBVIOUS
  <2>1. Granting \in SUBSET Payments /\ raced \in SUBSET Payments
        BY DEF IInv, TypeOK, Granting
  <2>2. Cardinality(Granting) \in Nat /\ Cardinality(raced) \in Nat
        BY <2>1, FS_Subset, FS_CardinalityType, ProcsAssumption
  <2>3. used \in Nat /\ free \in Nat
        BY DEF IInv, TypeOK
  <2>4. used + free <= 1 + Cardinality(raced)
        BY <2>2, <2>3 DEF IInv, GrantsAreKnown
  <2> QED
      BY <2>3, <2>4 DEF IInv, GivenWhenEarned, OneFreeCall, FreeCallIsEarned
<1> QED
    BY <1>1, Inductive, PTL

\* Whether payments overlap or not, the free call comes after the paid ones.
THEOREM FreeCallsAreEarned == Spec => []FreeCallIsEarned
<1>1. IInv => FreeCallIsEarned
      BY DEF IInv, TypeOK, GivenWhenEarned, FreeCallIsEarned
<1> QED
    BY <1>1, Inductive, PTL

\* Each referee is rewarded at most once, for any number of requests that bring
\* the token at a time.
THEOREM RefereesCountOnce == Spec => []RefereeCountsOnce
<1>1. IInv => RefereeCountsOnce
      BY DEF IInv
<1> QED
    BY <1>1, Inductive, PTL

\* After a reset the row carries rewards of the running month only, for any
\* number of readers that reset it late.
THEOREM EarnedIsOfTheMonth == Spec => []EarnedIsThisMonths
<1>1. IInv => EarnedIsThisMonths
      BY DEF IInv
<1> QED
    BY <1>1, Inductive, PTL

-----------------------------------------------------------------------------
(***************************************************************************)
(* SignIns: that nobody is split over two accounts and that a deletion     *)
(* stands, for any number of browsers, identities, sign-ups, calls and     *)
(* failures.  Nothing below depends on the referral row above.             *)
(***************************************************************************)

\* The requests that work on an account, and those that sign in to one.
OnAccount == {r \in Login!Requests :
    signing[r] \in {"link", "key", "code", "in", "read", "owner", "write", "delete"}}
SigningIn == {t \in Tabs : signing[t] \in {"key", "code", "in"}}

\* A request is at a stage of its own kind.
RequestsFit ==
    /\ \A r \in Login!Requests :
        /\ signing[r] \in {"byid", "byemail", "link", "code", "in"} => r \in Tabs
        /\ signing[r] = "create" => r \in Tabs \cup SignUps
        /\ signing[r] \in {"read", "owner", "write"} => r \in Patches
        /\ signing[r] = "delete" => r \in Deletions
    /\ \A r \in SignUps : signing[r] = "idle" => acct[r] = Nobody

\* What a request, a key or a deletion is about is an account that exists.
AboutAccounts ==
    /\ \A r \in OnAccount : acct[r] \in Login!Existing
    /\ \A k \in keys : k.account \in Login!Existing
    /\ gone \subseteq Login!Existing

\* No two accounts have one e-mail or one identity, and no account the tombstone
\* of another.
OneOwner ==
    /\ \A a, b \in Login!Existing : accounts[a].email = accounts[b].email => a = b
    /\ \A a \in Login!Existing : accounts[a].email \in Ids => accounts[a].email = a
    /\ \A i \in Identities : \A a, b \in Login!Linked(i) : a = b

\* A change of the profile writes back an e-mail that it read from its account.
ReadsFit ==
    \A r \in Patches :
        signing[r] \in {"owner", "write"} =>
            /\ readEmail[r] \in Login!Addresses
            /\ readEmail[r] \in Ids => readEmail[r] = acct[r]

\* The address that an identity brings.
Brings(i) == IF EmailOf[i] = Nobody THEN i ELSE EmailOf[i]

\* An identity is linked to the account of its address, and whoever signs in has
\* that account, until the address is given up or the link goes to another.
SameAccount ==
    /\ \A i \in Identities : \A a \in Login!Linked(i) :
           Brings(i) \in moved \/ accounts[a].email = Brings(i)
    /\ \A t \in SigningIn \cup {u \in Tabs : signing[u] = "link"} :
           Brings(WhoOf[t]) \in moved \/ accounts[acct[t]].email = Brings(WhoOf[t])
    /\ \A t \in SigningIn : WhoOf[t] \in unlinked \/ acct[t] \in Login!Linked(WhoOf[t])

\* Nothing works on a deleted account that no identity leads to.
NobodyReturns ==
    \A a \in gone \ caught :
        (\A p \in Providers : accounts[a].link[p] = Nobody) =>
            /\ accounts[a].email = a
            /\ \A k \in keys : k.account # a
            /\ \A r \in Login!Requests : Login!Working(r) => acct[r] # a

LoginInv ==
    /\ Login!TypeOK
    /\ RequestsFit
    /\ AboutAccounts
    /\ OneOwner
    /\ ReadsFit
    /\ SameAccount
    /\ NobodyReturns

LEMMA LoginInitially == Login!Init => LoginInv
<1> SUFFICES ASSUME Login!Init PROVE LoginInv
    OBVIOUS
<1>1. 0 \in 0..MaxFaults
      BY LoginParameters DEF Login!Parameters
<1>2. Login!Existing = {} /\ OnAccount = {} /\ SigningIn = {}
      BY DEF Login!Init, Login!Existing, OnAccount, SigningIn, Login!Requests
<1>3. \A i \in Identities : Login!Linked(i) = {}
      BY <1>2 DEF Login!Linked
<1>4. Login!TypeOK
      BY <1>1 DEF Login!Init, Login!TypeOK, Login!Stages
<1>5. RequestsFit /\ AboutAccounts /\ ReadsFit
      BY <1>2 DEF Login!Init, RequestsFit, AboutAccounts, ReadsFit, Login!Requests, Login!Calls
<1>6. SameAccount
      BY <1>2, <1>3 DEF Login!Init, SameAccount, Login!Requests
<1>7. OneOwner /\ NobodyReturns
      BY <1>2, <1>3 DEF Login!Init, OneOwner, NobodyReturns
<1> QED
    BY <1>4, <1>5, <1>6, <1>7 DEF LoginInv

-----------------------------------------------------------------------------
(* What the statements do to the rows *)

\* The e-mail of an account is set.
LEMMA EmailIsSet ==
    ASSUME Login!TypeOK, NEW a \in Login!Existing, NEW e \in Login!Addresses,
           Login!SetEmail(a, e)
    PROVE  /\ accounts' \in [Ids -> Login!Rows \cup {Nobody}]
           /\ Login!Existing' = Login!Existing
           /\ accounts'[a].email = e
           /\ \A b \in Login!Existing : b # a => accounts'[b].email = accounts[b].email
           /\ \A b \in Login!Existing : accounts'[b].link = accounts[b].link
           /\ \A i : Login!Linked(i)' = Login!Linked(i)
<1> USE DEF Login!Existing
<1>1. a \in Ids /\ accounts[a] \in Login!Rows /\ Nobody \notin Login!Rows
      BY LoginParameters DEF Login!TypeOK, Login!Parameters
<1>2. accounts' = [accounts EXCEPT ![a] = [accounts[a] EXCEPT !.email = e]]
      BY DEF Login!SetEmail
<1>3. /\ [accounts[a] EXCEPT !.email = e] \in Login!Rows
      /\ [accounts[a] EXCEPT !.email = e].email = e
      /\ [accounts[a] EXCEPT !.email = e].link = accounts[a].link
      BY <1>1 DEF Login!Rows
<1>4. accounts \in [Ids -> Login!Rows \cup {Nobody}]
      BY DEF Login!TypeOK
<1>5. accounts' \in [Ids -> Login!Rows \cup {Nobody}]
      BY <1>1, <1>2, <1>3, <1>4
<1>6. /\ accounts'[a] = [accounts[a] EXCEPT !.email = e]
      /\ \A b \in Ids : b # a => accounts'[b] = accounts[b]
      BY <1>1, <1>2, <1>4
<1>7. Login!Existing' = Login!Existing
      BY <1>1, <1>3, <1>6
<1>8. \A b \in Login!Existing : accounts'[b].link = accounts[b].link
      BY <1>3, <1>6
<1>9. \A i : Login!Linked(i)' = Login!Linked(i)
      BY <1>7, <1>8 DEF Login!Linked
<1> QED
    BY <1>3, <1>5, <1>6, <1>7, <1>8, <1>9

\* An account is linked to an identity.
LEMMA LinkIsSet ==
    ASSUME Login!TypeOK, NEW a \in Login!Existing, NEW i \in Identities,
           accounts' = [accounts EXCEPT ![a].link[ProviderOf[i]] = i]
    PROVE  /\ accounts' \in [Ids -> Login!Rows \cup {Nobody}]
           /\ Login!Existing' = Login!Existing
           /\ \A b \in Login!Existing : accounts'[b].email = accounts[b].email
           /\ \A b \in Login!Existing : b # a => accounts'[b].link = accounts[b].link
           /\ accounts'[a].link = [accounts[a].link EXCEPT ![ProviderOf[i]] = i]
           /\ accounts[a].link \in [Providers -> Identities \cup {Nobody}]
<1> USE DEF Login!Existing
<1>1. /\ a \in Ids /\ accounts[a] \in Login!Rows /\ Nobody \notin Login!Rows
      /\ ProviderOf[i] \in Providers
      BY LoginParameters DEF Login!TypeOK, Login!Parameters
<1> DEFINE row == [accounts[a] EXCEPT !.link = [@ EXCEPT ![ProviderOf[i]] = i]]
<1>2. accounts' = [accounts EXCEPT ![a] = row]
      OBVIOUS
<1>3. /\ accounts[a].link \in [Providers -> Identities \cup {Nobody}]
      /\ row.email = accounts[a].email
      /\ row.link = [accounts[a].link EXCEPT ![ProviderOf[i]] = i]
      BY <1>1 DEF Login!Rows
<1>4. row \in Login!Rows
  <2>1. [accounts[a].link EXCEPT ![ProviderOf[i]] = i] \in [Providers -> Identities \cup {Nobody}]
        BY <1>3
  <2> QED
      BY <1>1, <2>1 DEF Login!Rows
<1>5. accounts \in [Ids -> Login!Rows \cup {Nobody}]
      BY DEF Login!TypeOK
<1> HIDE DEF row
<1>6. accounts' \in [Ids -> Login!Rows \cup {Nobody}]
      BY <1>1, <1>2, <1>4, <1>5
<1>7. accounts'[a] = row /\ \A b \in Ids : b # a => accounts'[b] = accounts[b]
      BY <1>1, <1>2, <1>5
<1>8. Login!Existing' = Login!Existing
      BY <1>1, <1>4, <1>7
<1> QED
    BY <1>3, <1>6, <1>7, <1>8

\* A row is added, with an e-mail and no identity.
LEMMA RowIsAdded ==
    ASSUME Login!TypeOK, Ids # Login!Existing, NEW e \in Login!Addresses,
           accounts' = [accounts EXCEPT ![Login!Fresh] =
               [email |-> e, link |-> [p \in Providers |-> Nobody]]]
    PROVE  /\ accounts' \in [Ids -> Login!Rows \cup {Nobody}]
           /\ Login!Fresh \in Ids \ Login!Existing
           /\ Login!Existing' = Login!Existing \cup {Login!Fresh}
           /\ accounts'[Login!Fresh] = [email |-> e, link |-> [p \in Providers |-> Nobody]]
           /\ \A b \in Login!Existing : accounts'[b] = accounts[b]
           /\ \A i \in Identities : Login!Linked(i)' = Login!Linked(i)
<1> DEFINE row == [email |-> e, link |-> [p \in Providers |-> Nobody]]
           f == Login!Fresh
<1>1. f \in Ids \ Login!Existing
      BY DEF Login!Fresh, Login!Existing
<1>2. row \in Login!Rows /\ Nobody \notin Login!Rows
      BY LoginParameters DEF Login!Parameters, Login!Rows
<1>3. row.link = [p \in Providers |-> Nobody]
      OBVIOUS
<1>4. accounts' = [accounts EXCEPT ![f] = row] /\ accounts \in [Ids -> Login!Rows \cup {Nobody}]
      BY DEF Login!TypeOK
<1> HIDE DEF row, f
<1>5. accounts' \in [Ids -> Login!Rows \cup {Nobody}]
      BY <1>1, <1>2, <1>4
<1>6. accounts'[f] = row /\ \A b \in Ids : b # f => accounts'[b] = accounts[b]
      BY <1>1, <1>4
<1>7. Login!Existing' = Login!Existing \cup {f}
      BY <1>1, <1>2, <1>6 DEF Login!Existing
<1>8. ASSUME NEW i \in Identities
      PROVE  Login!Linked(i)' = Login!Linked(i)
  <2>1. ProviderOf[i] \in Providers /\ i # Nobody
        BY LoginParameters DEF Login!Parameters, Login!Addresses
  <2>2. row.link[ProviderOf[i]] # i
        BY <1>3, <2>1
  <2> QED
      BY <1>1, <1>6, <1>7, <2>2 DEF Login!Linked, Login!Existing
<1> QED
    BY <1>1, <1>5, <1>6, <1>7, <1>8 DEF row, f, Login!Existing

\* The address of a request is its e-mail or its identity, and a request at work
\* on an account has one.
LEMMA RequestFacts ==
    ASSUME LoginInv, NEW r \in Login!Requests
    PROVE  /\ r \in Tabs => WhoOf[r] \in Identities /\ Login!AddressOf(r) = Brings(WhoOf[r])
           /\ r \in Tabs \cup SignUps => /\ Login!AddressOf(r) \in Login!Addresses
                                         /\ Login!AddressOf(r) \notin Ids
           /\ r \in OnAccount => /\ acct[r] \in Login!Existing
                                 /\ acct[r] \in Ids
                                 /\ accounts[acct[r]] \in Login!Rows
           /\ r \in Patches /\ signing[r] \in {"owner", "write"} =>
                 /\ Login!NextEmail(r) \in Login!Addresses
                 /\ Login!NextEmail(r) \in Ids => Login!NextEmail(r) = acct[r]
<1>1. r \in Tabs => /\ WhoOf[r] \in Identities
                    /\ Login!AddressOf(r) = Brings(WhoOf[r])
      BY LoginParameters DEF Login!Parameters, Login!AddressOf, Brings
<1>2. r \in Tabs \cup SignUps => /\ Login!AddressOf(r) \in Login!Addresses
                                /\ Login!AddressOf(r) \notin Ids
      BY LoginParameters DEF Login!Parameters, Login!AddressOf, Login!Addresses
<1>3. r \in OnAccount => /\ acct[r] \in Login!Existing
                         /\ acct[r] \in Ids
                         /\ accounts[acct[r]] \in Login!Rows
      BY DEF LoginInv, AboutAccounts, Login!Existing, Login!TypeOK
<1>4. r \in Patches /\ signing[r] \in {"owner", "write"} =>
          /\ Login!NextEmail(r) \in Login!Addresses
          /\ Login!NextEmail(r) \in Ids => Login!NextEmail(r) = acct[r]
      BY LoginParameters DEF Login!Parameters, LoginInv, ReadsFit, Login!NextEmail,
         Login!Addresses
<1> QED
    BY <1>1, <1>2, <1>3, <1>4

LEMMA LoginTypes ==
    ASSUME LoginInv, [Login!Next]_(Login!vars)
    PROVE  Login!TypeOK'
<1> USE DEF Login!TypeOK, Login!Goto, Login!Throw, Login!history
<1>1. Login!TypeOK /\ RequestsFit
      BY DEF LoginInv
<1>2. CASE UNCHANGED Login!vars
      BY <1>1, <1>2 DEF Login!vars
<1>3. ASSUME NEW r \in Login!Requests, Login!Step(r) \/ Login!Fault(r)
      PROVE  signing' \in [Login!Requests -> Login!Stages]
  <2>1. CASE Login!Callback(r) \/ Login!FindById(r) \/ Login!FindByEmail(r) \/ Login!Create(r)
        BY <1>1, <2>1 DEF Login!Callback, Login!FindById, Login!FindByEmail, Login!Create,
                          Login!Stages, Login!Done
  <2>2. CASE Login!Link(r) \/ Login!MintKey(r) \/ Login!Redeem(r) \/ Login!Authenticate(r)
        BY <1>1, <2>2 DEF Login!Link, Login!MintKey, Login!Redeem, Login!Authenticate,
                          Login!Stages, Login!Done
  <2>3. CASE \/ Login!ReadProfile(r) \/ Login!FindOwner(r) \/ Login!WriteProfile(r)
             \/ Login!Delete(r) \/ Login!Fault(r)
        BY <1>1, <2>3 DEF Login!ReadProfile, Login!FindOwner, Login!WriteProfile,
                          Login!Delete, Login!Fault, Login!Stages, Login!Done
  <2> QED
      BY <1>3, <2>1, <2>2, <2>3 DEF Login!Step
<1>4. ASSUME NEW r \in Login!Requests,
             \/ Login!Callback(r) \/ Login!FindById(r) \/ Login!FindByEmail(r)
             \/ Login!Redeem(r) \/ Login!Authenticate(r) \/ Login!FindOwner(r)
      PROVE  UNCHANGED <<accounts, keys, readEmail, faults, gone, caught, moved, unlinked>>
      BY <1>4 DEF Login!Callback, Login!FindById, Login!FindByEmail, Login!Redeem,
                  Login!Authenticate, Login!FindOwner
<1>5. ASSUME NEW r \in Login!Requests,
             Login!Callback(r) \/ Login!FindById(r) \/ Login!FindByEmail(r)
      PROVE  acct' \in [Login!Requests -> Ids \cup {Nobody}]
      BY <1>1, <1>5 DEF Login!Callback, Login!FindById, Login!FindByEmail, Login!Linked,
                        Login!AtEmail, Login!Existing
<1>6. ASSUME NEW r \in Login!Requests,
             Login!Redeem(r) \/ Login!Authenticate(r) \/ Login!FindOwner(r)
      PROVE  acct' \in [Login!Requests -> Ids \cup {Nobody}]
      BY <1>1, <1>6 DEF Login!Redeem, Login!Authenticate, Login!FindOwner
<1>7. ASSUME NEW r \in Login!Requests, Login!Create(r)
      PROVE  Login!TypeOK'
  <2>1. Login!AddressOf(r) \in Login!Addresses
        BY <1>1, <1>7, RequestFacts DEF RequestsFit, Login!Create
  <2>2. /\ accounts' \in [Ids -> Login!Rows \cup {Nobody}]
        /\ acct' \in [Login!Requests -> Ids \cup {Nobody}]
    <3>1. CASE UNCHANGED <<accounts, acct>>
          BY <1>1, <3>1
    <3>2. CASE ~UNCHANGED <<accounts, acct>>
      <4>1. /\ Ids # Login!Existing
            /\ accounts' = [accounts EXCEPT ![Login!Fresh] =
                   [email |-> Login!AddressOf(r), link |-> [p \in Providers |-> Nobody]]]
            /\ acct' = [acct EXCEPT ![r] = Login!Fresh]
            BY <1>7, <3>2 DEF Login!Create
      <4>2. accounts' \in [Ids -> Login!Rows \cup {Nobody}] /\ Login!Fresh \in Ids
            BY <1>1, <2>1, <4>1, RowIsAdded
      <4> QED
          BY <1>1, <4>1, <4>2
    <3> QED
        BY <3>1, <3>2
  <2>3. UNCHANGED <<keys, readEmail, faults, gone, caught, moved, unlinked>>
        BY <1>7 DEF Login!Create
  <2> QED
      BY <1>1, <1>3, <1>7, <2>2, <2>3 DEF Login!Step
<1>8. ASSUME NEW r \in Login!Requests, Login!Link(r)
      PROVE  Login!TypeOK'
  <2>1. r \in Tabs /\ r \in OnAccount
        BY <1>1, <1>8 DEF RequestsFit, Login!Link, OnAccount
  <2>2. /\ acct[r] \in Login!Existing /\ WhoOf[r] \in Identities
        /\ accounts[acct[r]].link \in [Providers -> Identities \cup {Nobody}]
        /\ ProviderOf[WhoOf[r]] \in Providers
        BY <2>1, RequestFacts, LoginParameters DEF Login!Rows, Login!Parameters
  <2>3. accounts' \in [Ids -> Login!Rows \cup {Nobody}] /\ unlinked' \subseteq Identities
    <3>1. CASE UNCHANGED <<accounts, unlinked>>
          BY <1>1, <3>1
    <3>2. CASE ~UNCHANGED <<accounts, unlinked>>
      <4>1. /\ accounts' = [accounts EXCEPT ![acct[r]].link[ProviderOf[WhoOf[r]]] = WhoOf[r]]
            /\ unlinked' = unlinked \cup
                   ({accounts[acct[r]].link[ProviderOf[WhoOf[r]]]} \ {WhoOf[r], Nobody})
            BY <1>8, <3>2 DEF Login!Link
      <4>2. accounts' \in [Ids -> Login!Rows \cup {Nobody}]
            BY <1>1, <2>2, <4>1, LinkIsSet
      <4> QED
          BY <1>1, <2>2, <4>1, <4>2
    <3> QED
        BY <3>1, <3>2
  <2>4. UNCHANGED <<keys, acct, readEmail, faults, gone, caught, moved>>
        BY <1>8 DEF Login!Link
  <2> QED
      BY <1>1, <1>3, <1>8, <2>3, <2>4 DEF Login!Step
<1>9. ASSUME NEW r \in Login!Requests, Login!MintKey(r)
      PROVE  Login!TypeOK'
  <2>1. acct[r] \in Ids
        BY <1>9, RequestFacts DEF Login!MintKey, OnAccount
  <2>2. keys' \subseteq [by : Login!Requests, account : Ids]
        BY <1>1, <1>9, <2>1 DEF Login!MintKey
  <2> QED
      BY <1>1, <1>3, <1>9, <2>2 DEF Login!MintKey, Login!Step
<1>10. ASSUME NEW r \in Login!Requests, Login!ReadProfile(r)
       PROVE  Login!TypeOK'
  <2>1. r \in Patches /\ accounts[acct[r]] \in Login!Rows
        BY <1>1, <1>10, RequestFacts DEF RequestsFit, Login!ReadProfile, OnAccount
  <2>2. accounts[acct[r]].email \in Login!Addresses
        BY <2>1 DEF Login!Rows
  <2>3. readEmail' \in [Patches -> Login!Addresses \cup {Nobody}]
        BY <1>1, <1>10, <2>1, <2>2 DEF Login!ReadProfile
  <2> QED
      BY <1>1, <1>3, <1>10, <2>3 DEF Login!ReadProfile, Login!Step
<1>11. ASSUME NEW r \in Login!Requests, Login!WriteProfile(r)
       PROVE  Login!TypeOK'
  <2>1. /\ acct[r] \in Login!Existing /\ accounts[acct[r]] \in Login!Rows
        /\ Login!NextEmail(r) \in Login!Addresses
        BY <1>1, <1>11, RequestFacts DEF RequestsFit, Login!WriteProfile, OnAccount
  <2>2. accounts' \in [Ids -> Login!Rows \cup {Nobody}] /\ moved' \subseteq Login!Addresses
    <3>1. CASE UNCHANGED <<accounts, moved>>
          BY <1>1, <3>1
    <3>2. CASE Login!SetEmail(acct[r], Login!NextEmail(r))
      <4>1. accounts[acct[r]].email \in Login!Addresses
            BY <2>1 DEF Login!Rows
      <4> QED
          BY <1>1, <2>1, <3>2, <4>1, EmailIsSet DEF Login!SetEmail
    <3> QED
        BY <1>11, <3>1, <3>2 DEF Login!WriteProfile
  <2> QED
      BY <1>1, <1>3, <1>11, <2>2 DEF Login!WriteProfile, Login!Step
<1>12. ASSUME NEW r \in Login!Requests, Login!Delete(r)
       PROVE  Login!TypeOK'
  <2>1. /\ acct[r] \in Login!Existing /\ acct[r] \in Ids /\ accounts[acct[r]] \in Login!Rows
        BY <1>1, <1>12, RequestFacts DEF Login!Delete, OnAccount
  <2>2. accounts' \in [Ids -> Login!Rows \cup {Nobody}] /\ moved' \subseteq Login!Addresses
    <3>1. accounts[acct[r]].email \in Login!Addresses /\ acct[r] \in Login!Addresses
          BY <2>1 DEF Login!Rows, Login!Addresses
    <3> QED
        BY <1>1, <1>12, <2>1, <3>1, EmailIsSet DEF Login!Delete, Login!SetEmail
  <2>3. keys' \subseteq keys /\ gone' \subseteq Ids /\ caught' \subseteq Ids
        BY <1>1, <1>12, <2>1 DEF Login!Delete
  <2> QED
      BY <1>1, <1>3, <1>12, <2>2, <2>3 DEF Login!Delete, Login!Step
<1>13. ASSUME NEW r \in Login!Requests, Login!Fault(r)
       PROVE  Login!TypeOK'
  <2>1. faults' \in 0..MaxFaults
        BY <1>1, <1>13, LoginParameters DEF Login!Fault, Login!Parameters
  <2> QED
      BY <1>1, <1>3, <1>13, <2>1 DEF Login!Fault
<1>14. ASSUME NEW r \in Login!Requests,
              \/ Login!Callback(r) \/ Login!FindById(r) \/ Login!FindByEmail(r)
              \/ Login!Redeem(r) \/ Login!Authenticate(r) \/ Login!FindOwner(r)
       PROVE  Login!TypeOK'
  <2>1. signing' \in [Login!Requests -> Login!Stages]
        BY <1>3, <1>14 DEF Login!Step
  <2>2. acct' \in [Login!Requests -> Ids \cup {Nobody}]
        BY <1>5, <1>6, <1>14
  <2> QED
      BY <1>1, <1>4, <1>14, <2>1, <2>2
<1> QED
    BY <1>2, <1>7, <1>8, <1>9, <1>10, <1>11, <1>12, <1>13, <1>14 DEF Login!Next, Login!Step

LEMMA LoginFits ==
    ASSUME LoginInv, [Login!Next]_(Login!vars)
    PROVE  RequestsFit'
<1> USE DEF Login!TypeOK, Login!Goto, Login!Throw, RequestsFit, Login!Done
<1>1. Login!TypeOK /\ RequestsFit
      BY DEF LoginInv
<1>2. /\ Tabs \cap (SignUps \cup Login!Calls) = {} /\ SignUps \cap Login!Calls = {}
      /\ Patches \cap (KeyCalls \cup Deletions) = {} /\ KeyCalls \cap Deletions = {}
      /\ Login!Requests = Tabs \cup SignUps \cup Login!Calls
      /\ Login!Calls = Patches \cup KeyCalls \cup Deletions
      BY LoginParameters DEF Login!Parameters, Login!Requests, Login!Calls
<1>3. CASE UNCHANGED Login!vars
      BY <1>1, <1>3 DEF Login!vars
<1>4. ASSUME NEW r \in Login!Requests,
             \/ Login!Callback(r) \/ Login!FindById(r) \/ Login!FindByEmail(r) \/ Login!Create(r)
      PROVE  RequestsFit'
  <2>1. CASE Login!Callback(r) \/ Login!FindById(r)
        BY <1>1, <1>2, <2>1 DEF Login!Callback, Login!FindById
  <2>2. CASE Login!FindByEmail(r)
        BY <1>1, <1>2, <2>2 DEF Login!FindByEmail
  <2>3. CASE Login!Create(r)
        BY <1>1, <1>2, <2>3 DEF Login!Create
  <2> QED
      BY <1>4, <2>1, <2>2, <2>3
<1>5. ASSUME NEW r \in Login!Requests,
             \/ Login!Link(r) \/ Login!MintKey(r) \/ Login!Redeem(r) \/ Login!Authenticate(r)
      PROVE  RequestsFit'
      BY <1>1, <1>2, <1>5 DEF Login!Link, Login!MintKey, Login!Redeem, Login!Authenticate
<1>6. ASSUME NEW r \in Login!Requests,
             \/ Login!ReadProfile(r) \/ Login!FindOwner(r) \/ Login!WriteProfile(r)
             \/ Login!Delete(r) \/ Login!Fault(r)
      PROVE  RequestsFit'
      BY <1>1, <1>2, <1>6 DEF Login!ReadProfile, Login!FindOwner, Login!WriteProfile,
                              Login!Delete, Login!Fault, Login!Working
<1> QED
    BY <1>3, <1>4, <1>5, <1>6 DEF Login!Next, Login!Step

\* What a step may do to the rows: accounts, links and e-mails that are there stay,
\* or a history says that they went.
RowsKeep ==
    /\ Login!Existing \subseteq Login!Existing'
    /\ moved \subseteq moved' /\ unlinked \subseteq unlinked' /\ caught \subseteq caught'
    /\ \A a \in Login!Existing :
          /\ accounts'[a].email = accounts[a].email \/ accounts[a].email \in moved'
          /\ \A p \in Providers : accounts'[a].link[p] = Nobody => accounts[a].link[p] = Nobody
    /\ \A i \in Identities : \A a \in Login!Linked(i) :
          i \in unlinked' \/ a \in Login!Linked(i)'

LEMMA RowsAreKept ==
    ASSUME LoginInv, NEW r \in Login!Requests, Login!Step(r) \/ Login!Fault(r)
    PROVE  RowsKeep
<1>1. Login!TypeOK /\ RequestsFit
      BY DEF LoginInv
<1>2. CASE UNCHANGED <<accounts, moved, unlinked, caught>>
      BY <1>2 DEF RowsKeep, Login!Existing, Login!Linked
<1>3. CASE Login!Create(r) /\ accounts' # accounts
  <2>1. /\ Login!AddressOf(r) \in Login!Addresses /\ Ids # Login!Existing
        /\ accounts' = [accounts EXCEPT ![Login!Fresh] =
               [email |-> Login!AddressOf(r), link |-> [p \in Providers |-> Nobody]]]
        /\ UNCHANGED <<moved, unlinked, caught>>
        BY <1>1, <1>3, RequestFacts DEF RequestsFit, Login!Create
  <2>2. /\ Login!Existing \subseteq Login!Existing'
        /\ \A b \in Login!Existing : accounts'[b] = accounts[b]
        /\ \A i \in Identities : Login!Linked(i)' = Login!Linked(i)
        BY <1>1, <2>1, RowIsAdded
  <2> QED
      BY <2>1, <2>2 DEF RowsKeep
<1>4. CASE Login!Link(r) /\ ~UNCHANGED <<accounts, unlinked>>
  <2> DEFINE a == acct[r]  i == WhoOf[r]
  <2>1. /\ r \in Tabs /\ a \in Login!Existing /\ i \in Identities
        /\ ProviderOf[i] \in Providers
        BY <1>1, <1>4, RequestFacts, LoginParameters
           DEF RequestsFit, Login!Link, OnAccount, Login!Parameters
  <2>2. /\ accounts' = [accounts EXCEPT ![a].link[ProviderOf[i]] = i]
        /\ unlinked' = unlinked \cup ({accounts[a].link[ProviderOf[i]]} \ {i, Nobody})
        /\ UNCHANGED <<moved, caught>>
        BY <1>4 DEF Login!Link
  <2> HIDE DEF a, i
  <2>3. /\ Login!Existing' = Login!Existing
        /\ \A b \in Login!Existing : accounts'[b].email = accounts[b].email
        /\ \A b \in Login!Existing : b # a => accounts'[b].link = accounts[b].link
        /\ accounts'[a].link = [accounts[a].link EXCEPT ![ProviderOf[i]] = i]
        /\ accounts[a].link \in [Providers -> Identities \cup {Nobody}]
        BY <1>1, <2>1, <2>2, LinkIsSet
  <2>4. /\ Nobody \notin Identities /\ \A j \in Identities : ProviderOf[j] \in Providers
        BY LoginParameters DEF Login!Parameters, Login!Addresses
  <2>5. ASSUME NEW b \in Login!Existing, NEW p \in Providers, accounts'[b].link[p] = Nobody
        PROVE  accounts[b].link[p] = Nobody
        BY <2>1, <2>3, <2>4, <2>5
  <2>6. ASSUME NEW j \in Identities, NEW b \in Login!Linked(j)
        PROVE  j \in unlinked' \/ b \in Login!Linked(j)'
    <3>1. CASE b = a
          BY <2>1, <2>2, <2>3, <2>4, <3>1 DEF Login!Linked
    <3>2. CASE b # a
          BY <2>3, <3>2 DEF Login!Linked
    <3> QED
        BY <3>1, <3>2
  <2> QED
      BY <2>2, <2>3, <2>5, <2>6 DEF RowsKeep
<1>5. ASSUME NEW e \in Login!Addresses, acct[r] \in Login!Existing,
             Login!SetEmail(acct[r], e), unlinked' = unlinked, caught \subseteq caught'
      PROVE  RowsKeep
  <2>1. /\ Login!Existing' = Login!Existing
        /\ accounts'[acct[r]].email = e
        /\ \A b \in Login!Existing : b # acct[r] => accounts'[b].email = accounts[b].email
        /\ \A b \in Login!Existing : accounts'[b].link = accounts[b].link
        /\ \A i : Login!Linked(i)' = Login!Linked(i)
        BY <1>1, <1>5, EmailIsSet
  <2>2. moved' = moved \cup ({accounts[acct[r]].email} \ {e})
        BY <1>5 DEF Login!SetEmail
  <2> QED
      BY <1>5, <2>1, <2>2 DEF RowsKeep
<1>6. CASE Login!WriteProfile(r) /\ ~UNCHANGED <<accounts, moved>>
  <2>1. acct[r] \in Login!Existing /\ Login!NextEmail(r) \in Login!Addresses
        BY <1>1, <1>6, RequestFacts DEF RequestsFit, Login!WriteProfile, OnAccount
  <2> QED
      BY <1>5, <1>6, <2>1 DEF Login!WriteProfile
<1>7. CASE Login!Delete(r)
  <2>1. acct[r] \in Login!Existing /\ acct[r] \in Login!Addresses
        BY <1>7, RequestFacts DEF Login!Delete, OnAccount, Login!Addresses
  <2> QED
      BY <1>5, <1>7, <2>1 DEF Login!Delete
<1>8. CASE \/ Login!Callback(r) \/ Login!FindById(r) \/ Login!FindByEmail(r) \/ Login!MintKey(r)
           \/ Login!Redeem(r) \/ Login!Authenticate(r) \/ Login!ReadProfile(r)
           \/ Login!FindOwner(r) \/ Login!Fault(r)
  <2>1. UNCHANGED <<accounts, moved, unlinked, caught>>
        BY <1>8 DEF Login!Callback, Login!FindById, Login!FindByEmail, Login!MintKey,
           Login!Redeem, Login!Authenticate, Login!ReadProfile, Login!FindOwner, Login!Fault,
           Login!history
  <2> QED
      BY <1>2, <2>1
<1>9. CASE Login!Create(r) /\ accounts' = accounts
       BY <1>2, <1>9 DEF Login!Create
<1>10. CASE Login!Link(r) /\ UNCHANGED <<accounts, unlinked>>
       BY <1>2, <1>10 DEF Login!Link
<1>11. CASE Login!WriteProfile(r) /\ UNCHANGED <<accounts, moved>>
       BY <1>2, <1>11 DEF Login!WriteProfile
<1> QED
    BY <1>3, <1>4, <1>6, <1>7, <1>8, <1>9, <1>10, <1>11 DEF Login!Step

\* Who comes to work on an account: a browser by the link or the e-mail of its
\* identity or with a new account, a sign-up with a new one, a call by a key.  All
\* others go on with the account they had.
Comes(r) ==
    \/ /\ r \in Tabs /\ signing'[r] = "key" /\ acct'[r] \in Login!Linked(WhoOf[r])
       /\ accounts' = accounts
    \/ /\ r \in Tabs /\ signing'[r] = "link"
       /\ acct'[r] \in Login!AtEmail(Login!AddressOf(r)) /\ accounts' = accounts
    \/ /\ r \in Tabs \cup SignUps /\ signing'[r] = (IF r \in Tabs THEN "link" ELSE "key")
       /\ acct'[r] \in Login!Existing' \ Login!Existing
       /\ accounts'[acct'[r]].email = Login!AddressOf(r)
    \/ /\ r \in Login!Calls /\ \E k \in keys : acct'[r] = k.account
       /\ accounts' = accounts

LEMMA WhoComes ==
    ASSUME LoginInv, NEW r \in Login!Requests, Login!Step(r) \/ Login!Fault(r)
    PROVE  /\ \A q \in Login!Requests \ {r} : signing'[q] = signing[q] /\ acct'[q] = acct[q]
           /\ r \in OnAccount' => \/ Comes(r)
                                  \/ r \in OnAccount /\ acct'[r] = acct[r]
           /\ Login!Working(r)' => \/ Comes(r)
                                   \/ Login!Working(r) /\ acct'[r] = acct[r]
                                   \/ acct'[r] = Nobody
<1> USE DEF Login!TypeOK, Login!Goto, Login!Throw, OnAccount, Login!Working, Login!Done
<1>1. Login!TypeOK /\ RequestsFit
      BY DEF LoginInv
<1>2. Tabs \cap (SignUps \cup Login!Calls) = {} /\ SignUps \cap Login!Calls = {}
      BY LoginParameters DEF Login!Parameters
<1>3. CASE Login!Callback(r) \/ Login!Redeem(r) \/ Login!MintKey(r)
      BY <1>1, <1>3 DEF Login!Callback, Login!Redeem, Login!MintKey
<1>4. CASE Login!FindById(r)
      BY <1>1, <1>4 DEF Login!FindById, Comes, RequestsFit, Login!Linked, Login!Existing
<1>5. CASE Login!FindByEmail(r)
      BY <1>1, <1>2, <1>5 DEF Login!FindByEmail, Comes, RequestsFit, Login!AtEmail, Login!Existing
<1>6. CASE Login!Create(r)
  <2>1. /\ r \in Tabs \cup SignUps /\ Login!AddressOf(r) \in Login!Addresses
        /\ signing[r] = "create"
        BY <1>1, <1>6, RequestFacts DEF RequestsFit, Login!Create
  <2>2. CASE Login!AtEmail(Login!AddressOf(r)) # {}
        BY <1>1, <1>6, <2>1, <2>2 DEF Login!Create
  <2>3. CASE Login!AtEmail(Login!AddressOf(r)) = {}
    <3>1. /\ Ids # Login!Existing
          /\ accounts' = [accounts EXCEPT ![Login!Fresh] =
                 [email |-> Login!AddressOf(r), link |-> [p \in Providers |-> Nobody]]]
          /\ acct' = [acct EXCEPT ![r] = Login!Fresh]
          /\ signing' = [signing EXCEPT ![r] = IF r \in Tabs THEN "link" ELSE "key"]
          BY <1>6, <2>3 DEF Login!Create
    <3>2. /\ Login!Fresh \in Login!Existing' \ Login!Existing
          /\ accounts'[Login!Fresh].email = Login!AddressOf(r)
          BY <1>1, <2>1, <3>1, RowIsAdded
    <3> QED
        BY <1>1, <2>1, <3>1, <3>2 DEF Comes
  <2> QED
      BY <2>2, <2>3
<1>7. CASE Login!Link(r)
      BY <1>1, <1>7 DEF Login!Link
<1>8. CASE Login!Authenticate(r)
      BY <1>1, <1>8 DEF Login!Authenticate, Comes
<1>9. CASE \/ Login!ReadProfile(r) \/ Login!FindOwner(r) \/ Login!WriteProfile(r)
           \/ Login!Delete(r) \/ Login!Fault(r)
      BY <1>1, <1>9 DEF Login!ReadProfile, Login!FindOwner, Login!WriteProfile, Login!Delete,
                        Login!Fault
<1> QED
    BY <1>3, <1>4, <1>5, <1>6, <1>7, <1>8, <1>9 DEF Login!Step

LEMMA AccountsAreThere ==
    ASSUME LoginInv, NEW r \in Login!Requests, Login!Step(r) \/ Login!Fault(r)
    PROVE  AboutAccounts'
<1>1. Login!TypeOK /\ AboutAccounts /\ Login!Existing \subseteq Login!Existing'
      BY RowsAreKept DEF LoginInv, RowsKeep
<1>2. ASSUME NEW q \in OnAccount'
      PROVE  acct'[q] \in Login!Existing'
  <2>1. q \in Login!Requests
        BY DEF OnAccount
  <2>2. CASE q # r
    <3>1. q \in OnAccount /\ acct'[q] = acct[q]
          BY <2>1, <2>2, WhoComes DEF OnAccount
    <3> QED
        BY <1>1, <3>1 DEF AboutAccounts
  <2>3. CASE q = r
    <3>1. CASE Comes(r)
          BY <1>1, <2>3, <3>1 DEF Comes, AboutAccounts, Login!Linked, Login!AtEmail
    <3>2. CASE r \in OnAccount /\ acct'[r] = acct[r]
          BY <1>1, <2>3, <3>2 DEF AboutAccounts
    <3> QED
        BY <2>3, <3>1, <3>2, WhoComes
  <2> QED
      BY <2>2, <2>3
<1>3. ASSUME NEW k \in keys'
      PROVE  k.account \in Login!Existing'
  <2>1. CASE Login!MintKey(r)
    <3>1. acct[r] \in Login!Existing
          BY <2>1, RequestFacts DEF Login!MintKey, OnAccount
    <3> QED
        BY <1>1, <2>1, <3>1 DEF Login!MintKey, AboutAccounts
  <2>2. CASE ~Login!MintKey(r)
    <3>1. keys' \subseteq keys
          BY <2>2 DEF Login!Step, Login!Callback, Login!FindById, Login!FindByEmail,
             Login!Create, Login!Link, Login!Redeem, Login!Authenticate, Login!ReadProfile,
             Login!FindOwner, Login!WriteProfile, Login!Delete, Login!Fault
    <3> QED
        BY <1>1, <3>1 DEF AboutAccounts
  <2> QED
      BY <2>1, <2>2
<1>4. gone' \subseteq Login!Existing'
  <2>1. CASE Login!Delete(r)
    <3>1. acct[r] \in Login!Existing
          BY <2>1, RequestFacts DEF Login!Delete, OnAccount
    <3> QED
        BY <1>1, <2>1, <3>1 DEF Login!Delete, AboutAccounts
  <2>2. CASE ~Login!Delete(r)
    <3>1. gone' = gone
          BY <2>2 DEF Login!Step, Login!Callback, Login!FindById, Login!FindByEmail,
             Login!Create, Login!Link, Login!MintKey, Login!Redeem, Login!Authenticate,
             Login!ReadProfile, Login!FindOwner, Login!WriteProfile, Login!Fault, Login!history
    <3> QED
        BY <1>1, <3>1 DEF AboutAccounts
  <2> QED
      BY <2>1, <2>2
<1> QED
    BY <1>2, <1>3, <1>4 DEF AboutAccounts

LEMMA ReadsStillFit ==
    ASSUME LoginInv, NEW r \in Login!Requests, Login!Step(r) \/ Login!Fault(r)
    PROVE  ReadsFit'
<1> USE DEF Login!TypeOK, Login!Goto, Login!Throw, ReadsFit
<1>1. Login!TypeOK /\ RequestsFit /\ ReadsFit
      BY DEF LoginInv
<1>2. CASE Login!ReadProfile(r)
  <2>1. /\ r \in Patches /\ acct[r] \in Login!Existing
        /\ accounts[acct[r]] \in Login!Rows
        BY <1>1, <1>2, RequestFacts DEF RequestsFit, Login!ReadProfile, OnAccount
  <2>2. /\ accounts[acct[r]].email \in Login!Addresses
        /\ accounts[acct[r]].email \in Ids => accounts[acct[r]].email = acct[r]
        BY <2>1 DEF LoginInv, OneOwner, Login!Rows
  <2> QED
      BY <1>1, <1>2, <2>1, <2>2 DEF Login!ReadProfile
<1>3. CASE ~Login!ReadProfile(r)
  <2>1. \A q \in Login!Requests \ {r} : signing'[q] = signing[q] /\ acct'[q] = acct[q]
        BY WhoComes
  <2>2. readEmail' = readEmail
        BY <1>3 DEF Login!Step, Login!Callback, Login!FindById, Login!FindByEmail,
           Login!Create, Login!Link, Login!MintKey, Login!Redeem, Login!Authenticate,
           Login!FindOwner, Login!WriteProfile, Login!Delete, Login!Fault
  <2>3. signing'[r] \in {"owner", "write"} =>
            signing[r] \in {"owner", "write"} /\ acct'[r] = acct[r]
    <3>1. CASE \/ Login!Callback(r) \/ Login!FindById(r) \/ Login!FindByEmail(r)
               \/ Login!Create(r) \/ Login!Link(r)
          BY <1>1, <3>1 DEF Login!Callback, Login!FindById, Login!FindByEmail,
                            Login!Create, Login!Link
    <3>2. CASE \/ Login!MintKey(r) \/ Login!Redeem(r) \/ Login!Authenticate(r)
               \/ Login!FindOwner(r) \/ Login!WriteProfile(r) \/ Login!Delete(r)
               \/ Login!Fault(r)
          BY <1>1, <3>2 DEF Login!MintKey, Login!Redeem, Login!Authenticate,
             Login!FindOwner, Login!WriteProfile, Login!Delete, Login!Fault
    <3> QED
        BY <1>3, <3>1, <3>2 DEF Login!Step
  <2>4. Patches \subseteq Login!Requests
        BY DEF Login!Requests, Login!Calls
  <2> QED
      BY <1>1, <2>1, <2>2, <2>3, <2>4
<1> QED
    BY <1>2, <1>3

\* An e-mail that nobody else has is set, and an account that is new has none of
\* the others.
LEMMA EmailStaysOwned ==
    ASSUME LoginInv, NEW a \in Login!Existing, NEW e \in Login!Addresses,
           Login!SetEmail(a, e), Login!AtEmail(e) \subseteq {a}, e \in Ids => e = a
    PROVE  OneOwner'
<1>1. /\ Login!Existing' = Login!Existing
      /\ accounts'[a].email = e
      /\ \A b \in Login!Existing : b # a => accounts'[b].email = accounts[b].email
      /\ \A i : Login!Linked(i)' = Login!Linked(i)
      BY EmailIsSet DEF LoginInv
<1>2. ASSUME NEW b \in Login!Existing, NEW c \in Login!Existing,
             accounts'[b].email = accounts'[c].email
      PROVE  b = c
      BY <1>1, <1>2 DEF LoginInv, OneOwner, Login!AtEmail
<1>3. ASSUME NEW b \in Login!Existing, accounts'[b].email \in Ids
      PROVE  accounts'[b].email = b
      BY <1>1, <1>3 DEF LoginInv, OneOwner
<1> QED
    BY <1>1, <1>2, <1>3 DEF LoginInv, OneOwner

LEMMA OwnersStay ==
    ASSUME LoginInv, NEW r \in Login!Requests, Login!Step(r) \/ Login!Fault(r)
    PROVE  OneOwner'
<1>1. Login!TypeOK /\ RequestsFit /\ OneOwner
      BY DEF LoginInv
<1>2. CASE UNCHANGED accounts
      BY <1>1, <1>2 DEF OneOwner, Login!Existing, Login!Linked
<1>3. CASE Login!Create(r) /\ accounts' # accounts
  <2> DEFINE e == Login!AddressOf(r)
  <2>1. /\ e \in Login!Addresses /\ e \notin Ids /\ Ids # Login!Existing
        /\ Login!AtEmail(e) = {}
        /\ accounts' = [accounts EXCEPT ![Login!Fresh] =
               [email |-> e, link |-> [p \in Providers |-> Nobody]]]
        BY <1>1, <1>3, RequestFacts DEF RequestsFit, Login!Create
  <2> HIDE DEF e
  <2>2. /\ Login!Existing' = Login!Existing \cup {Login!Fresh}
        /\ accounts'[Login!Fresh].email = e
        /\ \A b \in Login!Existing : accounts'[b] = accounts[b]
        /\ \A i \in Identities : Login!Linked(i)' = Login!Linked(i)
        BY <1>1, <2>1, RowIsAdded
  <2>3. \A b \in Login!Existing : accounts[b].email # e
        BY <2>1 DEF Login!AtEmail
  <2> QED
      BY <1>1, <2>1, <2>2, <2>3 DEF OneOwner
<1>4. CASE Login!Link(r) /\ accounts' # accounts
  <2> DEFINE a == acct[r]  i == WhoOf[r]
  <2>1. /\ r \in Tabs /\ a \in Login!Existing /\ i \in Identities
        /\ ProviderOf[i] \in Providers
        BY <1>1, <1>4, RequestFacts, LoginParameters
           DEF RequestsFit, Login!Link, OnAccount, Login!Parameters
  <2>2. /\ accounts' = [accounts EXCEPT ![a].link[ProviderOf[i]] = i]
        /\ Login!Linked(i) \subseteq {a}
        BY <1>4 DEF Login!Link
  <2> HIDE DEF a, i
  <2>3. /\ Login!Existing' = Login!Existing
        /\ \A b \in Login!Existing : accounts'[b].email = accounts[b].email
        /\ \A b \in Login!Existing : b # a => accounts'[b].link = accounts[b].link
        /\ accounts'[a].link = [accounts[a].link EXCEPT ![ProviderOf[i]] = i]
        /\ accounts[a].link \in [Providers -> Identities \cup {Nobody}]
        BY <1>1, <2>1, <2>2, LinkIsSet
  <2>4. \A j \in Identities : ProviderOf[j] \in Providers
        BY LoginParameters DEF Login!Parameters
  <2>5. ASSUME NEW j \in Identities, j # i
        PROVE  Login!Linked(j)' \subseteq Login!Linked(j)
    <3>1. ASSUME NEW b \in Login!Linked(j)' PROVE b \in Login!Linked(j)
      <4>1. CASE b = a
            BY <2>1, <2>3, <2>4, <2>5, <3>1, <4>1 DEF Login!Linked
      <4>2. CASE b # a
            BY <2>3, <3>1, <4>2 DEF Login!Linked
      <4> QED
          BY <4>1, <4>2
    <3> QED
        BY <3>1
  <2>6. Login!Linked(i)' \subseteq {a}
        BY <2>2, <2>3 DEF Login!Linked
  <2>7. \A j \in Identities : \A b, c \in Login!Linked(j)' : b = c
        BY <1>1, <2>5, <2>6 DEF OneOwner
  <2> QED
      BY <1>1, <2>3, <2>7 DEF OneOwner
<1>5. CASE Login!WriteProfile(r) /\ accounts' # accounts
  <2>1. /\ acct[r] \in Login!Existing /\ Login!NextEmail(r) \in Login!Addresses
        /\ Login!NextEmail(r) \in Ids => Login!NextEmail(r) = acct[r]
        BY <1>1, <1>5, RequestFacts DEF RequestsFit, Login!WriteProfile, OnAccount
  <2>2. /\ Login!SetEmail(acct[r], Login!NextEmail(r))
        /\ Login!AtEmail(Login!NextEmail(r)) \subseteq {acct[r]}
        BY <1>5 DEF Login!WriteProfile
  <2> QED
      BY <2>1, <2>2, EmailStaysOwned
<1>6. CASE Login!Delete(r)
  <2>1. acct[r] \in Login!Existing /\ acct[r] \in Login!Addresses /\ acct[r] \in Ids
        BY <1>6, RequestFacts DEF Login!Delete, OnAccount, Login!Addresses
  <2>2. Login!SetEmail(acct[r], acct[r]) /\ Login!AtEmail(acct[r]) \subseteq {acct[r]}
        BY <1>1, <1>6, <2>1 DEF Login!Delete, OneOwner, Login!AtEmail
  <2> QED
      BY <2>1, <2>2, EmailStaysOwned
<1>7. CASE \/ Login!Callback(r) \/ Login!FindById(r) \/ Login!FindByEmail(r) \/ Login!MintKey(r)
           \/ Login!Redeem(r) \/ Login!Authenticate(r) \/ Login!ReadProfile(r)
           \/ Login!FindOwner(r) \/ Login!Fault(r)
  <2>1. UNCHANGED accounts
        BY <1>7 DEF Login!Callback, Login!FindById, Login!FindByEmail, Login!MintKey,
           Login!Redeem, Login!Authenticate, Login!ReadProfile, Login!FindOwner, Login!Fault
  <2> QED
      BY <1>2, <2>1
<1> QED
    BY <1>2, <1>3, <1>4, <1>5, <1>6, <1>7 DEF Login!Step

\* An account is linked by the browser that signs in to it, and to no other
\* identity.
LEMMA WhoLinks ==
    ASSUME LoginInv, NEW r \in Login!Requests, Login!Step(r) \/ Login!Fault(r)
    PROVE  /\ \A i \in Identities : \A a \in Login!Linked(i)' \ Login!Linked(i) :
                  r \in Tabs /\ signing[r] = "link" /\ i = WhoOf[r] /\ a = acct[r]
           /\ signing[r] = "link" /\ signing'[r] \in {"key", "code", "in"} =>
                  acct[r] \in Login!Linked(WhoOf[r])'
<1>1. Login!TypeOK /\ RequestsFit
      BY DEF LoginInv
<1>2. CASE Login!Link(r) /\ Login!Linked(WhoOf[r]) \subseteq {acct[r]}
  <2> DEFINE a == acct[r]  i == WhoOf[r]
  <2>1. /\ r \in Tabs /\ signing[r] = "link" /\ a \in Login!Existing /\ i \in Identities
        /\ \A j \in Identities : ProviderOf[j] \in Providers
        BY <1>1, <1>2, RequestFacts, LoginParameters
           DEF RequestsFit, Login!Link, OnAccount, Login!Parameters
  <2>2. accounts' = [accounts EXCEPT ![a].link[ProviderOf[i]] = i]
        BY <1>2 DEF Login!Link
  <2>3. /\ Login!Existing' = Login!Existing
        /\ \A b \in Login!Existing : b # a => accounts'[b].link = accounts[b].link
        /\ accounts'[a].link = [accounts[a].link EXCEPT ![ProviderOf[i]] = i]
        /\ accounts[a].link \in [Providers -> Identities \cup {Nobody}]
    <3> HIDE DEF a, i
    <3> QED
        BY <1>1, <2>1, <2>2, LinkIsSet
  <2>4. a \in Login!Linked(i)'
        BY <2>1, <2>3 DEF Login!Linked
  <2>5. ASSUME NEW j \in Identities, NEW b \in Login!Linked(j)', b \notin Login!Linked(j)
        PROVE  j = i /\ b = a
    <3>1. b = a
          BY <2>3, <2>5 DEF Login!Linked
    <3>2. j = i
          BY <2>1, <2>3, <2>5, <3>1 DEF Login!Linked
    <3> QED
        BY <3>1, <3>2
  <2> QED
      BY <2>1, <2>4, <2>5
<1>3. CASE Login!Link(r) /\ ~(Login!Linked(WhoOf[r]) \subseteq {acct[r]})
  <2>1. accounts' = accounts /\ signing'[r] \in {"idle", "failed"}
        BY <1>1, <1>3 DEF Login!Link, Login!Throw, Login!Goto, Login!TypeOK
  <2> QED
      BY <2>1 DEF Login!Linked, Login!Existing
<1>4. CASE ~Login!Link(r)
  <2>1. ~(signing[r] = "link" /\ signing'[r] \in {"key", "code", "in"})
        BY <1>1, <1>4 DEF Login!Step, Login!Callback, Login!FindById, Login!FindByEmail,
           Login!Create, Login!MintKey, Login!Redeem, Login!Authenticate, Login!ReadProfile,
           Login!FindOwner, Login!WriteProfile, Login!Delete, Login!Fault, Login!Throw,
           Login!Goto, Login!TypeOK
  <2>2. \A i \in Identities : Login!Linked(i)' = Login!Linked(i)
    <3>1. CASE UNCHANGED accounts
          BY <3>1 DEF Login!Linked, Login!Existing
    <3>2. CASE Login!Create(r) /\ accounts' # accounts
      <4>1. /\ Login!AddressOf(r) \in Login!Addresses /\ Ids # Login!Existing
            /\ accounts' = [accounts EXCEPT ![Login!Fresh] =
                   [email |-> Login!AddressOf(r), link |-> [p \in Providers |-> Nobody]]]
            BY <1>1, <3>2, RequestFacts DEF RequestsFit, Login!Create
      <4> QED
          BY <1>1, <4>1, RowIsAdded
    <3>3. CASE Login!WriteProfile(r) /\ accounts' # accounts
      <4>1. acct[r] \in Login!Existing /\ Login!NextEmail(r) \in Login!Addresses
            BY <1>1, <3>3, RequestFacts DEF RequestsFit, Login!WriteProfile, OnAccount
      <4>2. Login!SetEmail(acct[r], Login!NextEmail(r))
            BY <3>3 DEF Login!WriteProfile
      <4> QED
          BY <1>1, <4>1, <4>2, EmailIsSet
    <3>4. CASE Login!Delete(r)
      <4>1. acct[r] \in Login!Existing /\ acct[r] \in Login!Addresses
            BY <3>4, RequestFacts DEF Login!Delete, OnAccount, Login!Addresses
      <4>2. Login!SetEmail(acct[r], acct[r])
            BY <3>4 DEF Login!Delete
      <4> QED
          BY <1>1, <4>1, <4>2, EmailIsSet
    <3>5. CASE ~(Login!Create(r) \/ Login!WriteProfile(r) \/ Login!Delete(r))
      <4>1. UNCHANGED accounts
            BY <1>4, <3>5 DEF Login!Step, Login!Callback, Login!FindById, Login!FindByEmail,
               Login!MintKey, Login!Redeem, Login!Authenticate, Login!ReadProfile,
               Login!FindOwner, Login!Fault
      <4> QED
          BY <3>1, <4>1
    <3> QED
        BY <3>1, <3>2, <3>3, <3>4, <3>5
  <2> QED
      BY <2>1, <2>2
<1> QED
    BY <1>2, <1>3, <1>4

LEMMA AccountStaysTheSame ==
    ASSUME LoginInv, NEW r \in Login!Requests, Login!Step(r) \/ Login!Fault(r)
    PROVE  SameAccount'
<1> DEFINE HeldNow(a, i) == Brings(i) \in moved \/ accounts[a].email = Brings(i)
           HeldNext(a, i) == Brings(i) \in moved' \/ accounts'[a].email = Brings(i)
<1>1. /\ Login!TypeOK /\ RequestsFit /\ AboutAccounts /\ SameAccount
      /\ RowsKeep
      BY RowsAreKept DEF LoginInv
<1>2. ASSUME NEW a \in Login!Existing, NEW i, HeldNow(a, i)
      PROVE  HeldNext(a, i)
      BY <1>1, <1>2 DEF RowsKeep
<1>3. /\ Tabs \subseteq Login!Requests /\ WhoOf \in [Tabs -> Identities]
      /\ Tabs \cap (SignUps \cup Login!Calls) = {}
      BY LoginParameters DEF Login!Parameters, Login!Requests
<1>4. ASSUME NEW i \in Identities, NEW a \in Login!Linked(i)
      PROVE  a \in Login!Existing /\ HeldNow(a, i)
      BY <1>1 DEF SameAccount, Login!Linked
<1>5. ASSUME NEW t \in Tabs, signing[t] \in {"link", "key", "code", "in"}
      PROVE  acct[t] \in Login!Existing /\ HeldNow(acct[t], WhoOf[t])
      BY <1>1, <1>3, <1>5 DEF SameAccount, AboutAccounts, OnAccount, SigningIn
<1>6. ASSUME NEW i \in Identities, NEW a \in Login!Linked(i)'
      PROVE  HeldNext(a, i)
  <2>1. CASE a \in Login!Linked(i)
        BY <1>2, <1>4, <2>1
  <2>2. CASE a \notin Login!Linked(i)
    <3>1. r \in Tabs /\ signing[r] = "link" /\ i = WhoOf[r] /\ a = acct[r]
          BY <2>2, WhoLinks
    <3> QED
        BY <1>2, <1>5, <3>1
  <2> QED
      BY <2>1, <2>2
<1>7. ASSUME NEW t \in Tabs, signing'[t] \in {"link", "key", "code", "in"}
      PROVE  HeldNext(acct'[t], WhoOf[t])
  <2>1. CASE signing[t] \in {"link", "key", "code", "in"} /\ acct'[t] = acct[t]
        BY <1>2, <1>5, <2>1
  <2>2. CASE t = r /\ Comes(r)
    <3>1. CASE acct'[r] \in Login!Linked(WhoOf[r])
          BY <1>2, <1>3, <1>4, <2>2, <3>1
    <3>2. CASE acct'[r] \in Login!AtEmail(Login!AddressOf(r)) /\ accounts' = accounts
          BY <1>3, <2>2, <3>2, RequestFacts DEF Login!AtEmail
    <3>3. CASE accounts'[acct'[r]].email = Login!AddressOf(r)
          BY <1>3, <2>2, <3>3, RequestFacts
    <3> QED
        BY <1>3, <2>2, <3>1, <3>2, <3>3 DEF Comes
  <2>3. CASE t = r /\ r \in OnAccount /\ acct'[r] = acct[r]
    <3>1. signing[r] \in {"link", "key", "code", "in"}
          BY <1>1, <1>3, <2>3, LoginParameters
             DEF RequestsFit, OnAccount, Login!Parameters, Login!Calls
    <3> QED
        BY <2>1, <2>3, <3>1
  <2> QED
      BY <1>3, <1>7, <2>1, <2>2, <2>3, WhoComes DEF OnAccount
<1>8. ASSUME NEW t \in Tabs, signing'[t] \in {"key", "code", "in"}
      PROVE  WhoOf[t] \in unlinked' \/ acct'[t] \in Login!Linked(WhoOf[t])'
  <2>1. CASE signing[t] \in {"key", "code", "in"} /\ acct'[t] = acct[t]
        BY <1>1, <1>3, <2>1 DEF SameAccount, SigningIn, RowsKeep
  <2>2. CASE t = r /\ Comes(r)
        BY <1>3, <1>8, <2>2 DEF Comes, Login!Linked, Login!Existing
  <2>3. CASE t = r /\ r \in OnAccount /\ acct'[r] = acct[r]
    <3>1. signing[r] \in {"link", "key", "code", "in"}
          BY <1>1, <1>3, <2>3, LoginParameters
             DEF RequestsFit, OnAccount, Login!Parameters, Login!Calls
    <3> QED
        BY <1>8, <2>1, <2>3, <3>1, WhoLinks
  <2> QED
      BY <1>3, <1>8, <2>1, <2>2, <2>3, WhoComes DEF OnAccount
<1> QED
    BY <1>6, <1>7, <1>8 DEF SameAccount, SigningIn

LEMMA NobodyComesBack ==
    ASSUME LoginInv, NEW r \in Login!Requests, Login!Step(r) \/ Login!Fault(r)
    PROVE  NobodyReturns'
<1> SUFFICES ASSUME NEW a \in gone' \ caught',
                    \A p \in Providers : accounts'[a].link[p] = Nobody
             PROVE  /\ accounts'[a].email = a
                    /\ \A k \in keys' : k.account # a
                    /\ \A q \in Login!Requests : Login!Working(q)' => acct'[q] # a
    BY DEF NobodyReturns
<1>1. /\ Login!TypeOK /\ RequestsFit /\ AboutAccounts /\ NobodyReturns
      /\ RowsKeep
      BY RowsAreKept DEF LoginInv
<1>2. /\ Nobody \notin Identities /\ Nobody \notin Ids
      /\ \A i \in Identities : ProviderOf[i] \in Providers
      BY LoginParameters DEF Login!Parameters, Login!Addresses
<1>3. CASE Login!Delete(r) /\ acct[r] = a
  <2>1. a \in Login!Existing /\ a \in Login!Addresses /\ Login!SetEmail(a, a)
        BY <1>3, RequestFacts DEF Login!Delete, OnAccount, Login!Addresses
  <2>2. accounts'[a].email = a
        BY <1>1, <2>1, EmailIsSet
  <2>3. \A k \in keys' : k.account # a
        BY <1>3 DEF Login!Delete
  <2>4. ASSUME NEW q \in Login!Requests, Login!Working(q)', acct'[q] = a
        PROVE  FALSE
    <3>1. CASE q = r
          BY <1>1, <1>3, <2>4, <3>1 DEF Login!Delete, Login!Goto, Login!Working, Login!Done,
             Login!TypeOK
    <3>2. CASE q # r
      <4>1. Login!Working(q) /\ acct[q] = a
            BY <2>4, <3>2, WhoComes DEF Login!Working
      <4> QED
          BY <1>3, <3>2, <4>1 DEF Login!Delete
    <3> QED
        BY <3>1, <3>2
  <2> QED
      BY <2>2, <2>3, <2>4
<1>4. CASE ~(Login!Delete(r) /\ acct[r] = a)
  <2>1. a \in gone \ caught
    <3>1. a \in gone
          BY <1>4 DEF Login!Step, Login!Callback, Login!FindById, Login!FindByEmail,
             Login!Create, Login!Link, Login!MintKey, Login!Redeem, Login!Authenticate,
             Login!ReadProfile, Login!FindOwner, Login!WriteProfile, Login!Delete, Login!Fault,
             Login!history
    <3> QED
        BY <1>1, <3>1 DEF RowsKeep
  <2>2. /\ a \in Login!Existing /\ a \in Ids
        /\ \A p \in Providers : accounts[a].link[p] = Nobody
        BY <1>1, <2>1 DEF RowsKeep, AboutAccounts, Login!Existing
  <2>3. /\ accounts[a].email = a
        /\ \A k \in keys : k.account # a
        /\ \A q \in Login!Requests : Login!Working(q) => acct[q] # a
        BY <1>1, <2>1, <2>2 DEF NobodyReturns
  <2>4. \A q \in Login!Requests : Login!Working(q)' => acct'[q] # a
    <3>1. ASSUME Comes(r) PROVE acct'[r] # a
      <4>1. CASE r \in Tabs /\ acct'[r] \in Login!Linked(WhoOf[r])
        <5>1. WhoOf[r] \in Identities
              BY <4>1, RequestFacts
        <5>2. a \notin Login!Linked(WhoOf[r])
              BY <1>2, <2>2, <5>1 DEF Login!Linked
        <5> QED
            BY <4>1, <5>2
      <4>2. CASE r \in Tabs /\ acct'[r] \in Login!AtEmail(Login!AddressOf(r))
            BY <2>2, <2>3, <4>2, RequestFacts DEF Login!AtEmail
      <4> QED
          BY <2>2, <2>3, <3>1, <4>1, <4>2 DEF Comes
    <3> QED
        BY <1>2, <2>2, <2>3, <3>1, WhoComes DEF Login!Working
  <2>5. \A k \in keys' : k.account # a
    <3>1. CASE Login!MintKey(r)
      <4>1. acct[r] # a
            BY <2>3, <3>1 DEF Login!MintKey, Login!Working, Login!Done
      <4> QED
          BY <2>3, <3>1, <4>1 DEF Login!MintKey
    <3>2. CASE ~Login!MintKey(r)
          BY <2>3, <3>2 DEF Login!Step, Login!Callback, Login!FindById, Login!FindByEmail,
             Login!Create, Login!Link, Login!Redeem, Login!Authenticate, Login!ReadProfile,
             Login!FindOwner, Login!WriteProfile, Login!Delete, Login!Fault
    <3> QED
        BY <3>1, <3>2
  \* An e-mail changes by a request at work on its account.
  <2>6. accounts'[a].email = a
    <3>1. CASE Login!WriteProfile(r) \/ Login!Delete(r)
      <4>1. acct[r] # a
            BY <2>3, <3>1 DEF Login!WriteProfile, Login!Delete, Login!Working, Login!Done
      <4> QED
          BY <1>1, <2>2, <2>3, <3>1, <4>1
             DEF Login!WriteProfile, Login!Delete, Login!SetEmail, Login!TypeOK
    <3>2. CASE Login!Create(r) /\ accounts' # accounts
      <4>1. /\ Login!AddressOf(r) \in Login!Addresses /\ Ids # Login!Existing
            /\ accounts' = [accounts EXCEPT ![Login!Fresh] =
                   [email |-> Login!AddressOf(r), link |-> [p \in Providers |-> Nobody]]]
            BY <1>1, <3>2, RequestFacts DEF RequestsFit, Login!Create
      <4> QED
          BY <1>1, <2>2, <2>3, <4>1, RowIsAdded
    <3>3. CASE Login!Link(r) /\ accounts' # accounts
      <4>1. /\ r \in Tabs /\ acct[r] \in Login!Existing /\ WhoOf[r] \in Identities
            BY <1>1, <3>3, RequestFacts DEF RequestsFit, Login!Link, OnAccount
      <4>2. accounts' = [accounts EXCEPT ![acct[r]].link[ProviderOf[WhoOf[r]]] = WhoOf[r]]
            BY <3>3 DEF Login!Link
      <4> QED
          BY <1>1, <2>2, <2>3, <4>1, <4>2, LinkIsSet
    <3>4. CASE UNCHANGED accounts
          BY <2>3, <3>4
    <3> QED
        BY <3>1, <3>2, <3>3, <3>4 DEF Login!Step, Login!Callback, Login!FindById,
           Login!FindByEmail, Login!MintKey, Login!Redeem, Login!Authenticate,
           Login!ReadProfile, Login!FindOwner, Login!Fault
  <2> QED
      BY <2>4, <2>5, <2>6
<1> QED
    BY <1>3, <1>4

LEMMA LoginStep == LoginInv /\ [Login!Next]_(Login!vars) => LoginInv'
<1> SUFFICES ASSUME LoginInv, [Login!Next]_(Login!vars) PROVE LoginInv'
    OBVIOUS
<1>1. Login!TypeOK' /\ RequestsFit'
      BY LoginTypes, LoginFits
<1>2. CASE UNCHANGED Login!vars
  <2>1. AboutAccounts' /\ ReadsFit'
        BY <1>2 DEF Login!vars, LoginInv, AboutAccounts, ReadsFit, Login!Existing, OnAccount
  <2>2. OneOwner'
        BY <1>2 DEF Login!vars, LoginInv, OneOwner, Login!Existing, Login!Linked
  <2>3. SameAccount'
        BY <1>2 DEF Login!vars, LoginInv, SameAccount, Login!Existing, Login!Linked, Brings,
                    SigningIn
  <2>4. NobodyReturns'
        BY <1>2 DEF Login!vars, LoginInv, NobodyReturns, Login!Working
  <2> QED
      BY <1>1, <2>1, <2>2, <2>3, <2>4 DEF LoginInv
<1>3. ASSUME NEW r \in Login!Requests, Login!Step(r) \/ Login!Fault(r)
      PROVE  LoginInv'
  <2>1. AboutAccounts' /\ ReadsFit' /\ OneOwner'
        BY <1>3, AccountsAreThere, ReadsStillFit, OwnersStay
  <2>2. SameAccount' /\ NobodyReturns'
        BY <1>3, AccountStaysTheSame, NobodyComesBack
  <2> QED
      BY <1>1, <2>1, <2>2 DEF LoginInv
<1> QED
    BY <1>2, <1>3 DEF Login!Next

\* The inductive invariant of the accounts.
THEOREM LoginSpecInv == LoginSpec => []LoginInv
<1>1. Login!Init => LoginInv
      BY LoginInitially
<1>2. LoginInv /\ [Login!Next]_(Login!vars) => LoginInv'
      BY LoginStep
<1> QED
    BY <1>1, <1>2, PTL DEF LoginSpec, Login!Spec

\* The variables keep their types.
THEOREM LoginTypeCorrect == LoginSpec => []LoginTypeOK
<1>1. LoginInv => LoginTypeOK
      BY DEF LoginInv, LoginTypeOK
<1> QED
    BY <1>1, LoginSpecInv, PTL

\* However sign-ins overlap and fail, an identity gets into one account unless its
\* link went to another, and so do two of one address unless it was given up.
THEOREM NobodyIsSplit == LoginSpec => []NotSplit
<1>1. ASSUME LoginInv PROVE NotSplit
  <2> SUFFICES ASSUME NEW t \in Tabs, NEW u \in Tabs,
                      signing[t] = "in", signing[u] = "in",
                      \/ WhoOf[t] = WhoOf[u] /\ WhoOf[t] \notin unlinked
                      \/ /\ Login!AddressOf(t) = Login!AddressOf(u)
                         /\ Login!AddressOf(t) \notin moved
               PROVE  acct[t] = acct[u]
      BY DEF NotSplit, Login!NotSplit
  <2>1. t \in SigningIn /\ u \in SigningIn /\ t \in Login!Requests /\ u \in Login!Requests
        BY DEF SigningIn, Login!Requests
  <2>2. CASE WhoOf[t] = WhoOf[u] /\ WhoOf[t] \notin unlinked
    <3>1. WhoOf[t] \in Identities
          BY <1>1, <2>1, RequestFacts
    <3>2. acct[t] \in Login!Linked(WhoOf[t]) /\ acct[u] \in Login!Linked(WhoOf[t])
          BY <1>1, <2>1, <2>2 DEF LoginInv, SameAccount
    <3> QED
        BY <1>1, <3>1, <3>2 DEF LoginInv, OneOwner
  <2>3. CASE Login!AddressOf(t) = Login!AddressOf(u) /\ Login!AddressOf(t) \notin moved
    <3>1. /\ Login!AddressOf(t) = Brings(WhoOf[t]) /\ Login!AddressOf(u) = Brings(WhoOf[u])
          /\ acct[t] \in Login!Existing /\ acct[u] \in Login!Existing
          BY <1>1, <2>1, RequestFacts DEF OnAccount
    <3>2. accounts[acct[t]].email = accounts[acct[u]].email
          BY <1>1, <2>1, <2>3, <3>1 DEF LoginInv, SameAccount
    <3> QED
        BY <1>1, <3>1, <3>2 DEF LoginInv, OneOwner
  <2> QED
      BY <2>2, <2>3
<1> QED
    BY <1>1, LoginSpecInv, PTL

\* A deleted account has neither key nor e-mail, unless an identity is linked to it
\* or a request was at work on it when it was deleted.
THEOREM DeletionsStand == LoginSpec => []DeletionStands
<1>1. LoginInv => DeletionStands
      BY DEF LoginInv, NobodyReturns, DeletionStands, Login!DeletionStands
<1> QED
    BY <1>1, LoginSpecInv, PTL
=============================================================================
