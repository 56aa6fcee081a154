-------------------------- MODULE CompensationProofs -------------------------
(***************************************************************************)
(* Theorems about Compensation, for every set of entries and of sweeps.    *)
(* That no entry is settled twice rests on ~LostAcks: a grant whose commit *)
(* is not acknowledged is granted again.                                   *)
(* The second half is about Scrapes: which of them get an entry.           *)
(***************************************************************************)
EXTENDS Compensation, Scrapes, FiniteSetTheorems, TLAPS

\* A sweep that grants or reverts has claimed an entry, and no other has.
ClaimsExclusive ==
    /\ \A w \in Sweepers : pc[w] \in {"granting", "reverting"} <=> claimed[w] # None
    /\ \A v, w \in Sweepers : claimed[v] = claimed[w] /\ claimed[w] # None => v = w

\* A claimed entry says credited and, acks lost aside, has not been granted.
ClaimedNotGranted ==
    \A w \in Sweepers : claimed[w] # None =>
        status[claimed[w]] = "credited" /\ (~LostAcks => grants[claimed[w]] = 0)

\* Lost acks aside, a granted entry was granted once and says so.
GrantedSaysSo ==
    ~LostAcks =>
        \A e \in Entries : grants[e] = 0 \/ (grants[e] = 1 /\ status[e] = "credited")

IInv == /\ TypeOK
        /\ ClaimsExclusive
        /\ ClaimedNotGranted
        /\ GrantedSaysSo

USE DEF Statuses, Goto, Fault

-----------------------------------------------------------------------------
(* Type correctness *)

LEMMA InitTypeOK == Init => TypeOK
BY FaultsAssumption DEF Init, TypeOK

\* born only ever gets the size of a finite set plus one.
LEMMA BornIsNat == 1 + Cardinality({f \in Entries : status[f] # "none"}) \in Nat
<1>1. IsFiniteSet({f \in Entries : status[f] # "none"})
      BY EntriesAssumption, FS_Subset
<1> QED
      BY <1>1, FS_CardinalityType

LEMMA UpdatesTyped ==
    ASSUME TypeOK, NEW e \in Entries
    PROVE  /\ Claimed(e) \in [Entries -> Statuses]
           /\ Reverted(e) \in [Entries -> Statuses]
           /\ Granted(e) \in [Entries -> Nat]
BY DEF TypeOK, Claimed, Reverted, Granted

LEMMA NextTypeOK == TypeOK /\ ClaimsExclusive /\ [Next]_vars => TypeOK'
<1> SUFFICES ASSUME TypeOK, ClaimsExclusive, [Next]_vars
             PROVE  TypeOK'
    OBVIOUS
<1> USE EntriesAssumption, FaultsAssumption DEF TypeOK
<1>1. ASSUME NEW e \in Entries, Record(e)
      PROVE  TypeOK'
      BY <1>1, BornIsNat DEF Record
<1>2. ASSUME NEW e \in Entries, Resolve(e)
      PROVE  TypeOK'
      BY <1>2 DEF Resolve
<1>3. ASSUME NEW w \in Sweepers, Sweep(w)
      PROVE  TypeOK'
  <2>1. CASE ListOwed(w) \/ SweepDone(w)
    <3>1. OwedPage \subseteq Entries
          BY DEF OwedPage, Owed
    <3> QED
          BY <2>1, <3>1 DEF ListOwed, SweepDone
  <2>2. ASSUME NEW e \in Entries, ClaimWon(w, e) \/ ClaimMissed(w, e) \/ ClaimThrows(w, e)
        PROVE  TypeOK'
    <3>1. todo' \in [Sweepers -> SUBSET Entries]
          BY <2>2 DEF ClaimWon, ClaimMissed, ClaimThrows, Reach
    <3>2. status' \in [Entries -> Statuses]
          BY <2>2, UpdatesTyped DEF ClaimWon, ClaimMissed, ClaimThrows
    <3> QED
          BY <2>2, <3>1, <3>2 DEF ClaimWon, ClaimMissed, ClaimThrows
  <2>3. CASE Grant(w) \/ GrantThrows(w) \/ Revert(w) \/ RevertThrows(w)
    <3>1. claimed[w] \in Entries
          BY <2>3 DEF ClaimsExclusive, Grant, GrantThrows, Revert, RevertThrows
    <3>2. /\ Reverted(claimed[w]) \in [Entries -> Statuses]
          /\ Granted(claimed[w]) \in [Entries -> Nat]
          BY <3>1, UpdatesTyped
    <3> QED
          BY <2>3, <3>1, <3>2 DEF Grant, GrantThrows, Revert, RevertThrows, LetGo
  <2> QED
        BY <1>3, <2>1, <2>2, <2>3 DEF Sweep
<1>4. CASE Crash
      BY <1>4 DEF Crash
<1>5. CASE UNCHANGED vars
      BY <1>5 DEF vars
<1> QED
      BY <1>1, <1>2, <1>3, <1>4, <1>5 DEF Next

-----------------------------------------------------------------------------
(* The inductive invariant *)

LEMMA InitIInv == Init => IInv
BY InitTypeOK DEF Init, IInv, ClaimsExclusive, ClaimedNotGranted, GrantedSaysSo

\* Nobody has claimed an entry that does not say credited.
LEMMA OwedUnclaimed ==
    ASSUME IInv, NEW e \in Entries, status[e] # "credited", NEW w \in Sweepers
    PROVE  claimed[w] # e
BY EntriesAssumption DEF IInv, ClaimedNotGranted

LEMMA NextIInv == IInv /\ [Next]_vars => IInv'
<1> SUFFICES ASSUME IInv, [Next]_vars
             PROVE  IInv'
    OBVIOUS
<1> USE EntriesAssumption
        DEF IInv, TypeOK, ClaimsExclusive, ClaimedNotGranted, GrantedSaysSo
<1>0. TypeOK'
      BY NextTypeOK
<1>1. ASSUME NEW e \in Entries, Record(e) \/ Resolve(e)
      PROVE  IInv'
  <2>1. /\ status[e] # "credited"
        /\ \A f \in Entries \ {e} : status'[f] = status[f]
        /\ UNCHANGED <<pc, claimed, grants>>
        BY <1>1 DEF Record, Resolve
  <2>2. \A w \in Sweepers : claimed[w] # e
        BY <2>1, OwedUnclaimed
  <2> QED
        BY <1>0, <2>1, <2>2
<1>2. ASSUME NEW w \in Sweepers, Sweep(w)
      PROVE  IInv'
  <2>1. CASE ListOwed(w) \/ SweepDone(w)
        BY <1>0, <2>1 DEF ListOwed, SweepDone
  <2>2. ASSUME NEW e \in Entries, ClaimWon(w, e)
        PROVE  IInv'
    <3>1. /\ status[e] = "owed" /\ pc[w] = "next"
          /\ status' = [status EXCEPT ![e] = "credited"]
          /\ claimed' = [claimed EXCEPT ![w] = e]
          /\ pc' = [pc EXCEPT ![w] = "granting"]
          /\ UNCHANGED grants
          BY <2>2 DEF ClaimWon, Reach, Claimed
    <3>2. (~LostAcks => grants[e] = 0) /\ \A v \in Sweepers : claimed[v] # e
          BY <3>1, OwedUnclaimed
    <3> QED
          BY <1>0, <3>1, <3>2
  <2>3. ASSUME NEW e \in Entries, ClaimMissed(w, e)
        PROVE  IInv'
        BY <1>0, <2>3 DEF ClaimMissed
  <2>4. ASSUME NEW e \in Entries, ClaimThrows(w, e)
        PROVE  IInv'
    <3>1. /\ UNCHANGED <<pc, claimed, grants>>
          /\ \/ UNCHANGED status
             \/ status[e] = "owed" /\ status' = [status EXCEPT ![e] = "credited"]
          BY <2>4 DEF ClaimThrows, Claimed
    <3> QED
          BY <1>0, <3>1
  <2>5. CASE Grant(w)
    <3>1. /\ pc[w] = "granting"
          /\ grants' = [grants EXCEPT ![claimed[w]] = grants[claimed[w]] + 1]
          /\ claimed' = [claimed EXCEPT ![w] = None]
          /\ pc' = [pc EXCEPT ![w] = "next"]
          /\ UNCHANGED status
          BY <2>5 DEF Grant, Granted, LetGo
    <3>2. /\ claimed[w] \in Entries
          /\ status[claimed[w]] = "credited"
          /\ ~LostAcks => grants[claimed[w]] = 0
          BY <3>1
    <3>3. \A v \in Sweepers \ {w} : claimed[v] # claimed[w]
          BY <3>2
    <3> QED
          BY <1>0, <3>1, <3>2, <3>3
  <2>6. CASE GrantThrows(w)
    <3>1. /\ pc[w] = "granting" /\ pc' = [pc EXCEPT ![w] = "reverting"]
          /\ UNCHANGED <<status, claimed>>
          /\ ~LostAcks => UNCHANGED grants
          BY <2>6 DEF GrantThrows
    <3> QED
          BY <1>0, <3>1
  <2>7. CASE Revert(w) \/ RevertThrows(w)
    <3>1. /\ pc[w] = "reverting"
          /\ \/ status' = Reverted(claimed[w])
             \/ UNCHANGED status
          /\ claimed' = [claimed EXCEPT ![w] = None]
          /\ pc' = [pc EXCEPT ![w] = "next"]
          /\ UNCHANGED grants
          BY <2>7 DEF Revert, RevertThrows, LetGo
    <3>2. claimed[w] \in Entries /\ (~LostAcks => grants[claimed[w]] = 0)
          BY <3>1
    <3>3. \A v \in Sweepers \ {w} : claimed[v] # claimed[w]
          BY <3>2
    <3>4. \A f \in Entries : f = claimed[w] \/ status'[f] = status[f]
          BY <3>1, <3>2 DEF Reverted
    <3> QED
          BY <1>0, <3>1, <3>2, <3>3, <3>4
  <2> QED
        BY <1>2, <2>1, <2>2, <2>3, <2>4, <2>5, <2>6, <2>7 DEF Sweep
<1>3. CASE Crash
      BY <1>0, <1>3 DEF Crash
<1>4. CASE UNCHANGED vars
      BY <1>0, <1>4 DEF vars
<1> QED
      BY <1>1, <1>2, <1>3, <1>4 DEF Next

LEMMA SpecIInv == Spec => []IInv
<1>1. Init => IInv
      BY InitIInv
<1>2. IInv /\ [Next]_vars => IInv'
      BY NextIInv
<1> QED
      BY <1>1, <1>2, PTL DEF Spec

\* The variables of Compensation keep their types.
THEOREM TypeCorrect == Spec => []TypeOK
<1>1. IInv => TypeOK
      BY DEF IInv
<1> QED
      BY <1>1, SpecIInv, PTL

LEMMA NextCredited == IInv /\ CreditedIsGranted /\ [Next]_vars => CreditedIsGranted'
<1> SUFFICES ASSUME IInv, CreditedIsGranted, [Next]_vars,
                    NEW e \in Entries, status'[e] = "credited"
             PROVE  grants'[e] > 0 \/ InHand(e)' \/ e \in lost'
    BY DEF CreditedIsGranted
<1> USE EntriesAssumption DEF IInv, TypeOK, InHand
<1>0. status[e] = "credited" => grants[e] > 0 \/ InHand(e) \/ e \in lost
      BY DEF CreditedIsGranted
<1>1. ASSUME NEW f \in Entries, Record(f) \/ Resolve(f)
      PROVE  grants'[e] > 0 \/ InHand(e)' \/ e \in lost'
  <2>1. status[e] = "credited" /\ UNCHANGED <<claimed, grants, lost>>
        BY <1>1 DEF Record, Resolve
  <2> QED
        BY <1>0, <2>1
<1>2. ASSUME NEW w \in Sweepers, Sweep(w)
      PROVE  grants'[e] > 0 \/ InHand(e)' \/ e \in lost'
  <2>1. CASE ListOwed(w) \/ SweepDone(w) \/ \E f \in Entries : ClaimMissed(w, f)
        BY <1>0, <2>1 DEF ListOwed, SweepDone, ClaimMissed
  <2>2. ASSUME NEW f \in Entries, ClaimWon(w, f)
        PROVE  grants'[e] > 0 \/ InHand(e)' \/ e \in lost'
    <3>1. /\ pc[w] = "next"
          /\ claimed' = [claimed EXCEPT ![w] = f]
          /\ UNCHANGED <<grants, lost>>
          /\ e = f \/ status[e] = "credited"
          BY <2>2 DEF ClaimWon, Reach, Claimed
    <3>2. claimed[w] = None
          BY <3>1 DEF ClaimsExclusive
    <3> QED
          BY <1>0, <3>1, <3>2
  <2>3. ASSUME NEW f \in Entries, ClaimThrows(w, f)
        PROVE  grants'[e] > 0 \/ InHand(e)' \/ e \in lost'
        BY <1>0, <2>3 DEF ClaimThrows, Claimed
  <2>4. CASE Grant(w)
    <3>1. /\ claimed[w] \in Entries
          /\ grants' = [grants EXCEPT ![claimed[w]] = grants[claimed[w]] + 1]
          /\ claimed' = [claimed EXCEPT ![w] = None]
          /\ UNCHANGED <<status, lost>>
          BY <2>4 DEF Grant, Granted, LetGo, ClaimsExclusive
    <3>2. grants'[e] >= grants[e] /\ (e = claimed[w] => grants'[e] > 0)
          BY <3>1
    <3> QED
          BY <1>0, <3>1, <3>2
  <2>5. CASE GrantThrows(w)
    <3>1. /\ claimed[w] \in Entries
          /\ UNCHANGED <<status, claimed, lost>>
          /\ grants' = grants \/ grants' = [grants EXCEPT ![claimed[w]] = grants[claimed[w]] + 1]
          BY <2>5 DEF GrantThrows, Granted, ClaimsExclusive
    <3>2. grants'[e] >= grants[e]
          BY <3>1
    <3> QED
          BY <1>0, <3>1, <3>2
  <2>6. CASE Revert(w) \/ RevertThrows(w)
    <3>1. /\ claimed[w] \in Entries
          /\ claimed' = [claimed EXCEPT ![w] = None]
          /\ UNCHANGED grants
          /\ \/ status' = Reverted(claimed[w]) /\ UNCHANGED lost
             \/ UNCHANGED status /\ lost' = lost \cup {claimed[w]}
          BY <2>6 DEF Revert, RevertThrows, LetGo, ClaimsExclusive
    <3>2. status[claimed[w]] = "credited"
          BY <3>1 DEF ClaimedNotGranted
    <3>3. CASE e = claimed[w]
          BY <3>1, <3>2, <3>3 DEF Reverted
    <3>4. CASE e # claimed[w]
          BY <1>0, <3>1, <3>2, <3>4 DEF Reverted
    <3> QED
          BY <3>3, <3>4
  <2> QED
        BY <1>2, <2>1, <2>2, <2>3, <2>4, <2>5, <2>6 DEF Sweep
<1>3. CASE Crash
      BY <1>0, <1>3 DEF Crash
<1>4. CASE UNCHANGED vars
      BY <1>0, <1>4 DEF vars
<1> QED
      BY <1>1, <1>2, <1>3, <1>4 DEF Next

\* An entry that says credited was granted, is in a sweep's hands, or was hit by
\* a fault: whatever the interleaving, and with lost acks too.
THEOREM CreditedEntriesGranted == Spec => []CreditedIsGranted
<1>1. Init => CreditedIsGranted
      BY DEF Init, CreditedIsGranted
<1>2. IInv /\ CreditedIsGranted /\ [Next]_vars => CreditedIsGranted'
      BY NextCredited
<1> QED
      BY <1>1, <1>2, SpecIInv, PTL DEF Spec

\* An entry is granted at most once, and never beside a refund or a waiver,
\* however sweeps, operators, faults and restarts interleave.
THEOREM NeverADoubleGrant == ~LostAcks => (Spec => []GrantedAtMostOnce)
<1>1. ASSUME ~LostAcks PROVE IInv => GrantedAtMostOnce
      BY <1>1 DEF IInv, GrantedSaysSo, GrantedAtMostOnce
<1>2. ASSUME ~LostAcks PROVE Spec => []GrantedAtMostOnce
      BY <1>1, <1>2, SpecIInv, PTL
<1> QED
      BY <1>2

-----------------------------------------------------------------------------
(* Compensation implements MakeWhole *)

Settlements == [e \in Entries |-> Settlement(e)]

\* A step that leaves every entry's settlement alone is a stutter of MakeWhole.
LEMMA Stutter ==
    ASSUME \A e \in Entries : Settlement(e)' = Settlement(e)
    PROVE  Settlements' = Settlements
BY DEF Settlements

\* A step that moves one entry's settlement is a step of MakeWhole.
LEMMA Settles ==
    ASSUME NEW e \in Entries,
           \A f \in Entries \ {e} : Settlement(f)' = Settlement(f),
           \/ Settlement(e) = "none" /\ Settlement(e)' = "owed"
           \/ /\ Settlement(e) = "owed"
              /\ Settlement(e)' \in {"granted", "cash_refunded", "waived"}
    PROVE  Promise!Next
<1>1. Settlements' = [Settlements EXCEPT ![e] = Settlement(e)']
      BY DEF Settlements
<1>2. Settlements[e] = Settlement(e)
      BY DEF Settlements
<1>3. Promise!Owe(e) \/ Promise!Settle(e)
      BY <1>1, <1>2 DEF Promise!Owe, Promise!Settle, Promise!Move, Settlements
<1> QED
      BY <1>3 DEF Promise!Next

LEMMA NextSettles ==
    ~LostAcks /\ IInv /\ [Next]_vars => [Promise!Next]_Settlements
<1> SUFFICES ASSUME ~LostAcks, IInv, [Next]_vars
             PROVE  Promise!Next \/ Settlements' = Settlements
    OBVIOUS
<1> USE DEF IInv, TypeOK
<1>0. \A e \in Entries : status[e] # "credited" => grants[e] = 0
      BY DEF GrantedSaysSo
<1>1. ASSUME NEW e \in Entries, Record(e) \/ Resolve(e)
      PROVE  Promise!Next
  <2>1. /\ \/ status[e] = "none" /\ status'[e] = "owed"
           \/ status[e] = "owed" /\ status'[e] \in {"cash_refunded", "waived"}
        /\ \A f \in Entries \ {e} : status'[f] = status[f]
        /\ UNCHANGED grants
        BY <1>1 DEF Record, Resolve
  <2>2. Settlement(e) = status[e] /\ Settlement(e)' = status'[e]
        BY <1>0, <2>1 DEF Settlement
  <2>3. \A f \in Entries \ {e} : Settlement(f)' = Settlement(f)
        BY <2>1 DEF Settlement
  <2> QED
        BY <2>1, <2>2, <2>3, Settles
<1>2. ASSUME NEW w \in Sweepers, Sweep(w)
      PROVE  Promise!Next \/ Settlements' = Settlements
  <2>1. CASE UNCHANGED <<status, grants>>
    <3>1. \A e \in Entries : Settlement(e)' = Settlement(e)
          BY <2>1 DEF Settlement
    <3> QED
          BY <3>1, Stutter
  <2>2. ASSUME NEW e \in Entries, status' = Claimed(e), UNCHANGED grants
        PROVE  Settlements' = Settlements
    <3>1. \A f \in Entries : Settlement(f)' = Settlement(f)
          BY <1>0, <2>2 DEF Settlement, Claimed
    <3> QED
          BY <3>1, Stutter
  <2>3. ASSUME claimed[w] \in Entries, status' = Reverted(claimed[w]), UNCHANGED grants
        PROVE  Settlements' = Settlements
    <3>1. grants[claimed[w]] = 0
          BY <2>3, EntriesAssumption DEF ClaimedNotGranted
    <3>2. \A f \in Entries : Settlement(f)' = Settlement(f)
          BY <2>3, <3>1 DEF Settlement, Reverted
    <3> QED
          BY <3>2, Stutter
  <2>4. CASE Grant(w)
    <3>1. PICK e \in Entries : e = claimed[w]
          BY <2>4 DEF Grant, ClaimsExclusive
    <3>2. /\ grants' = [grants EXCEPT ![e] = grants[e] + 1]
          /\ UNCHANGED status
          BY <2>4, <3>1 DEF Grant, Granted
    <3>3. grants[e] = 0 /\ status[e] = "credited"
          BY <3>1, EntriesAssumption DEF ClaimedNotGranted
    <3>4. Settlement(e) = "owed" /\ Settlement(e)' = "granted"
          BY <3>2, <3>3 DEF Settlement
    <3>5. \A f \in Entries \ {e} : Settlement(f)' = Settlement(f)
          BY <3>2 DEF Settlement
    <3> QED
          BY <3>4, <3>5, Settles
  <2>5. CASE Revert(w) \/ RevertThrows(w)
    <3>1. /\ claimed[w] \in Entries
          /\ status' = Reverted(claimed[w]) \/ UNCHANGED status
          /\ UNCHANGED grants
          BY <2>5 DEF Revert, RevertThrows, ClaimsExclusive
    <3> QED
          BY <2>1, <2>3, <3>1
  <2>6. ASSUME NEW e \in Entries, ClaimWon(w, e) \/ ClaimMissed(w, e) \/ ClaimThrows(w, e)
        PROVE  Settlements' = Settlements
    <3>1. /\ status' = Claimed(e) \/ UNCHANGED status
          /\ UNCHANGED grants
          BY <2>6 DEF ClaimWon, ClaimMissed, ClaimThrows
    <3>2. CASE UNCHANGED <<status, grants>>
      <4>1. \A f \in Entries : Settlement(f)' = Settlement(f)
            BY <3>2 DEF Settlement
      <4> QED
            BY <4>1, Stutter
    <3> QED
          BY <2>2, <3>1, <3>2
  <2>7. CASE ListOwed(w) \/ SweepDone(w) \/ GrantThrows(w)
        BY <2>1, <2>7 DEF ListOwed, SweepDone, GrantThrows
  <2> QED
        BY <1>2, <2>4, <2>5, <2>6, <2>7 DEF Sweep
<1>3. CASE Crash \/ UNCHANGED vars
  <2>1. \A e \in Entries : Settlement(e)' = Settlement(e)
        BY <1>3 DEF Crash, vars, Settlement
  <2> QED
        BY <2>1, Stutter
<1> QED
      BY <1>1, <1>2, <1>3 DEF Next

\* Every obligation is settled at most once and stays settled the way it was:
\* the ledger implements MakeWhole.
THEOREM ImplementsMakeWhole == ~LostAcks => (Spec => SettledOnce)
<1>1. Init => Settlements = [e \in Entries |-> "none"]
      BY DEF Init, Settlements, Settlement
<1>2. ASSUME ~LostAcks PROVE Spec => SettledOnce
  <2>1. Init => Promise!Init
        BY <1>1 DEF Promise!Init, Settlements
  <2>2. IInv /\ [Next]_vars => [Promise!Next]_Settlements
        BY <1>2, NextSettles
  <2> QED
        BY <2>1, <2>2, SpecIInv, PTL DEF Spec, SettledOnce, Promise!Spec, Settlements
<1> QED
      BY <1>2
-----------------------------------------------------------------------------
(***************************************************************************)
(* Scrapes: who owes to whom when a scrape fails, and what a page that     *)
(* is served from the cache has cost, for any number of scrapes and URLs.  *)
(* Nothing below depends on the sweeps above.                              *)
(***************************************************************************)
\* The stages of a scrape that has nothing left to do but to answer or to fail.
Past == {"reply", "cached", "answered", "owing", "failed"}

\* A scrape has not met its price before it is settled or billed, and has once it
\* has settled or its page is put; none is settled before it is asked to be.
PricesFit ==
    \A c \in Scrape!Scrapes :
        /\ scraping[c] \in {"idle", "quota"} => c \notin settled
        /\ c \notin settled
           /\ scraping[c] \in Scrape!Stages \ ({"put"} \cup Past \cup Scrape!Done)
               => paid[c] = 0 /\ c \notin waived
        /\ c \in settled \/ scraping[c] = "put" => Scrape!MetPrice(c)

\* Only a scrape that has settled and failed has an entry in the ledger, and one,
\* unless the record of it failed.  A record over MCP is the last step.
EntriesFit ==
    \A c \in Scrape!Scrapes :
        /\ c \notin dropped =>
               owed[c] = IF c \in settled /\ scraping[c] = "failed" THEN 1 ELSE 0
        /\ c \in dropped =>
               /\ c \in settled
               /\ \/ scraping[c] = "owing" /\ c \in RestScrapes /\ owed[c] <= 1
                  \/ scraping[c] = "failed" /\ c \in RestScrapes /\ owed[c] <= 2
                  \/ scraping[c] = "failed" /\ owed[c] <= 1
        /\ scraping[c] = "notok" => c \in RestScrapes

\* A scrape that is past its payment, which it has met, and stays so.
PaidAndPast(c) == scraping[c] \in Past /\ Scrape!MetPrice(c)

\* What stands in the cache was put there by a scrape that has met its price.
RowsStand ==
    \A u \in Urls : cache[u] # NoScrape => PaidAndPast(cache[u].by)

\* Who was answered from the cache got a row that stood when it looked.
HitsStand ==
    \A c \in Scrape!Scrapes : hit[c] # NoScrape =>
        /\ scraping[c] \in Past
        /\ PaidAndPast(hit[c].by)
        /\ began[c] - hit[c].stored < TTL

ScrapeInv ==
    Scrape!TypeOK /\ PricesFit /\ EntriesFit /\ RowsStand /\ HitsStand

LEMMA ScrapeInitially ==
    Scrape!Init => ScrapeInv
<1> SUFFICES ASSUME Scrape!Init PROVE ScrapeInv
    OBVIOUS
<1>1. Scrape!TypeOK
      BY ScrapeParameters DEF Scrape!Parameters, Scrape!Init, Scrape!TypeOK, Scrape!Stages
<1> QED
    BY <1>1 DEF Scrape!Init, ScrapeInv, PricesFit, EntriesFit, RowsStand, HitsStand, Past

LEMMA ScrapeTypes ==
    ASSUME ScrapeInv, [Scrape!Next]_(Scrape!vars)
    PROVE  Scrape!TypeOK'
<1> USE DEF ScrapeInv, Scrape!TypeOK, Scrape!Goto, Scrape!Charged, Scrape!Throw
<1>1. ASSUME NEW c \in Scrape!Scrapes, Scrape!Gate(c) \/ Scrape!PreCharge(c)
      PROVE  Scrape!TypeOK'
  <2>1. paid' \in [Scrape!Scrapes -> Nat] /\ waived' \subseteq Scrape!Scrapes
        BY <1>1 DEF Scrape!Gate, Scrape!PreCharge
  <2> QED
      BY <1>1, <2>1 DEF Scrape!Gate, Scrape!PreCharge, Scrape!Stages, Scrape!Done
<1>2. ASSUME NEW c \in Scrape!Scrapes, Scrape!Look(c)
      PROVE  Scrape!TypeOK'
  <2>1. UrlOf[c] \in Urls
        BY ScrapeParameters DEF Scrape!Parameters
  <2>2. hit' \in [Scrape!Scrapes -> Scrape!Rows \cup {NoScrape}]
        BY <1>2, <2>1 DEF Scrape!Look, Scrape!LiveRow
  <2>3. scraping' \in [Scrape!Scrapes -> Scrape!Stages]
        BY <1>2 DEF Scrape!Look, Scrape!Stages, Scrape!Done
  <2> QED
      BY <1>2, <2>2, <2>3 DEF Scrape!Look
<1>3. ASSUME NEW c \in Scrape!Scrapes,
             Scrape!CheckKey(c) \/ Scrape!Authorize(c) \/ Scrape!Fetch(c) \/ Scrape!Reply(c)
      PROVE  Scrape!TypeOK'
      BY <1>3 DEF Scrape!CheckKey, Scrape!Authorize, Scrape!Fetch, Scrape!Reply,
                  Scrape!Stages, Scrape!Done
<1>4. ASSUME NEW c \in Scrape!Scrapes, Scrape!Bill(c)
      PROVE  Scrape!TypeOK'
  <2>1. paid' \in [Scrape!Scrapes -> Nat] /\ waived' \subseteq Scrape!Scrapes
        BY <1>4 DEF Scrape!Bill
  <2> QED
      BY <1>4, <2>1 DEF Scrape!Bill, Scrape!Stages, Scrape!Done
<1>5. ASSUME NEW c \in Scrape!Scrapes, Scrape!Put(c)
      PROVE  Scrape!TypeOK'
      BY <1>5 DEF Scrape!Put, Scrape!Stages, Scrape!Done, Scrape!Rows
<1>6. CASE Scrape!Tick
      BY <1>6, ScrapeParameters DEF Scrape!Tick, Scrape!Parameters
<1>7. CASE UNCHANGED Scrape!vars
      BY <1>7 DEF Scrape!vars
<1>8. ASSUME NEW c \in Scrape!Scrapes, Scrape!Owe(c)
      PROVE  Scrape!TypeOK'
  <2>1. owed' \in [Scrape!Scrapes -> Nat] /\ dropped' \subseteq Scrape!Scrapes
        BY <1>8 DEF Scrape!Owe, Scrape!Record, Scrape!LoseRecord
  <2>2. scraping' \in [Scrape!Scrapes -> Scrape!Stages]
        BY <1>8 DEF Scrape!Owe, Scrape!Record, Scrape!LoseRecord, Scrape!Stages, Scrape!Done
  <2> QED
      BY <1>8, <2>1, <2>2 DEF Scrape!Owe
<1> QED
    BY <1>1, <1>2, <1>3, <1>4, <1>5, <1>6, <1>7, <1>8 DEF Scrape!Next, Scrape!Step

\* The prices of one scrape: the others are not touched by its steps.
LEMMA ScrapePrices ==
    ASSUME ScrapeInv, [Scrape!Next]_(Scrape!vars)
    PROVE  PricesFit'
<1> USE DEF ScrapeInv, Scrape!TypeOK, PricesFit, Past, Scrape!MetPrice,
            Scrape!Goto, Scrape!Throw, Scrape!Stages, Scrape!Done
<1>1. ASSUME NEW c \in Scrape!Scrapes, Scrape!Gate(c)
      PROVE  PricesFit'
  <2>1. scraping[c] = "idle" /\ c \notin settled /\ paid[c] = 0
        BY <1>1 DEF Scrape!Gate
  <2> QED
      BY <1>1, <2>1 DEF Scrape!Gate, Scrape!Charged
<1>2. ASSUME NEW c \in Scrape!Scrapes, Scrape!PreCharge(c)
      PROVE  PricesFit'
  <2>1. scraping[c] = "quota" /\ c \notin settled /\ paid[c] = 0
        BY <1>2 DEF Scrape!PreCharge
  <2> QED
      BY <1>2, <2>1 DEF Scrape!PreCharge, Scrape!Charged
<1>3. ASSUME NEW c \in Scrape!Scrapes, Scrape!Bill(c)
      PROVE  PricesFit'
      BY <1>3 DEF Scrape!Bill, Scrape!Charged
<1>4. ASSUME NEW c \in Scrape!Scrapes, Scrape!Look(c)
      PROVE  PricesFit'
      BY <1>4 DEF Scrape!Look
<1>5. ASSUME NEW c \in Scrape!Scrapes,
             \/ Scrape!CheckKey(c) \/ Scrape!Authorize(c) \/ Scrape!Fetch(c)
             \/ Scrape!Put(c) \/ Scrape!Reply(c)
      PROVE  PricesFit'
      BY <1>5 DEF Scrape!CheckKey, Scrape!Authorize, Scrape!Fetch, Scrape!Put, Scrape!Reply
<1>6. ASSUME NEW c \in Scrape!Scrapes, Scrape!Owe(c)
      PROVE  PricesFit'
      BY <1>6 DEF Scrape!Owe, Scrape!Record, Scrape!LoseRecord
<1>7. CASE Scrape!Tick \/ UNCHANGED Scrape!vars
      BY <1>7 DEF Scrape!Tick, Scrape!vars
<1> QED
    BY <1>1, <1>2, <1>3, <1>4, <1>5, <1>6, <1>7 DEF Scrape!Next, Scrape!Step

\* A step but Owe leads from a stage that is not "failed" to one that is not, and
\* touches no entry; it settles nobody that has a record that failed.
LEMMA StepsOweNothing ==
    ASSUME ScrapeInv, NEW c \in Scrape!Scrapes, Scrape!Step(c), ~Scrape!Owe(c)
    PROVE  /\ owed' = owed /\ dropped' = dropped
           /\ \E stage \in Scrape!Stages \ {"failed"} :
                  /\ scraping' = [scraping EXCEPT ![c] = stage]
                  /\ stage = "notok" => c \in RestScrapes
           /\ settled' = settled \/ settled' = settled \cup {c}
           /\ scraping[c] # "failed" /\ c \notin dropped
<1>1. ASSUME scraping[c] \in {"owing", "failed"} PROVE FALSE
      BY <1>1 DEF Scrape!Step, Scrape!Gate, Scrape!Look, Scrape!PreCharge, Scrape!CheckKey,
                  Scrape!Authorize, Scrape!Fetch, Scrape!Bill, Scrape!Put, Scrape!Reply
<1>2. c \notin dropped
      BY <1>1 DEF ScrapeInv, EntriesFit
<1>3. owed' = owed /\ dropped' = dropped
      BY DEF Scrape!Step, Scrape!Gate, Scrape!Look, Scrape!PreCharge, Scrape!CheckKey,
             Scrape!Authorize, Scrape!Fetch, Scrape!Bill, Scrape!Put, Scrape!Reply
<1>4. settled' = settled \/ settled' = settled \cup {c}
      BY DEF Scrape!Step, Scrape!Gate, Scrape!Look, Scrape!PreCharge, Scrape!CheckKey,
             Scrape!Authorize, Scrape!Fetch, Scrape!Bill, Scrape!Put, Scrape!Reply
<1>5. \E stage \in Scrape!Stages \ {"failed"} :
          /\ scraping' = [scraping EXCEPT ![c] = stage]
          /\ stage = "notok" => c \in RestScrapes
  <2> USE DEF Scrape!Goto, Scrape!Throw, Scrape!Stages, Scrape!Done
  <2>1. CASE Scrape!Gate(c) \/ Scrape!PreCharge(c) \/ Scrape!CheckKey(c) \/ Scrape!Authorize(c)
        BY <2>1 DEF Scrape!Gate, Scrape!PreCharge, Scrape!CheckKey, Scrape!Authorize
  <2>2. CASE Scrape!Look(c)
        BY <2>2 DEF Scrape!Look
  <2>3. CASE Scrape!Fetch(c) \/ Scrape!Bill(c)
        BY <2>3 DEF Scrape!Fetch, Scrape!Bill
  <2>4. CASE Scrape!Put(c) \/ Scrape!Reply(c)
        BY <2>4 DEF Scrape!Put, Scrape!Reply
  <2> QED
      BY <2>1, <2>2, <2>3, <2>4 DEF Scrape!Step
<1> QED
    BY <1>1, <1>2, <1>3, <1>4, <1>5

LEMMA ScrapeEntries ==
    ASSUME ScrapeInv, [Scrape!Next]_(Scrape!vars)
    PROVE  EntriesFit'
<1> USE DEF ScrapeInv, Scrape!TypeOK, EntriesFit
<1>1. ASSUME NEW c \in Scrape!Scrapes, Scrape!Step(c), ~Scrape!Owe(c)
      PROVE  EntriesFit'
  <2>1. PICK stage \in Scrape!Stages \ {"failed"} :
            /\ scraping' = [scraping EXCEPT ![c] = stage]
            /\ stage = "notok" => c \in RestScrapes
        BY <1>1, StepsOweNothing
  <2>2. /\ owed' = owed /\ dropped' = dropped
        /\ settled' = settled \/ settled' = settled \cup {c}
        /\ scraping[c] # "failed" /\ c \notin dropped
        BY <1>1, StepsOweNothing
  <2> QED
      BY <2>1, <2>2
<1>2. ASSUME NEW c \in Scrape!Scrapes, Scrape!Owe(c)
      PROVE  EntriesFit'
  <2>1. /\ scraping[c] \in {"notok", "owing"} /\ settled' = settled
        /\ scraping[c] = "notok" => c \in RestScrapes
        BY <1>2 DEF Scrape!Owe
  <2>2. ASSUME NEW d \in Scrape!Scrapes, d # c
        PROVE  /\ owed'[d] = owed[d] /\ scraping'[d] = scraping[d]
               /\ d \in dropped' <=> d \in dropped
        BY <1>2, <2>2 DEF Scrape!Owe, Scrape!Record, Scrape!LoseRecord, Scrape!Goto
  <2>3. CASE Scrape!Record(c)
    <3>1. /\ scraping'[c] = "failed" /\ dropped' = dropped
          /\ owed'[c] = IF c \in settled THEN owed[c] + 1 ELSE owed[c]
          BY <2>3 DEF Scrape!Record, Scrape!Goto
    <3> QED
        BY <2>1, <2>2, <3>1
  <2>4. CASE Scrape!LoseRecord(c)
    <3>1. /\ scraping'[c] = IF scraping[c] = "notok" THEN "owing" ELSE "failed"
          /\ owed'[c] \in {owed[c], owed[c] + 1} /\ c \in dropped' /\ c \in settled
          BY <2>4 DEF Scrape!LoseRecord, Scrape!Goto
    <3>2. owed[c] \in Nat /\ (c \notin dropped => owed[c] = 0)
          BY <2>1
    <3> QED
        BY <2>1, <2>2, <3>1, <3>2
  <2> QED
      BY <1>2, <2>3, <2>4 DEF Scrape!Owe
<1>3. CASE Scrape!Tick \/ UNCHANGED Scrape!vars
      BY <1>3 DEF Scrape!Tick, Scrape!vars
<1> QED
    BY <1>1, <1>2, <1>3 DEF Scrape!Next

\* No step leads out of the last stages, and none of a scrape that is in one of
\* them changes its price.
LEMMA PastStands ==
    ASSUME ScrapeInv, NEW c \in Scrape!Scrapes, Scrape!Step(c)
    PROVE  \A d \in Scrape!Scrapes :
               /\ scraping[d] \in Past => scraping'[d] \in Past
               /\ PaidAndPast(d) => PaidAndPast(d)'
<1> USE DEF ScrapeInv, Scrape!TypeOK, Past
<1>1. CASE scraping[c] \in Past
  <2>1. UNCHANGED <<paid, waived>>
        BY <1>1 DEF Scrape!Step, Scrape!Gate, Scrape!Look, Scrape!PreCharge, Scrape!CheckKey,
               Scrape!Authorize, Scrape!Fetch, Scrape!Bill, Scrape!Put, Scrape!Reply, Scrape!Owe
  <2>2. \E stage \in Past : scraping' = [scraping EXCEPT ![c] = stage]
        BY <1>1 DEF Scrape!Step, Scrape!Gate, Scrape!Look, Scrape!PreCharge, Scrape!CheckKey,
               Scrape!Authorize, Scrape!Fetch, Scrape!Bill, Scrape!Put, Scrape!Reply, Scrape!Owe,
               Scrape!Record, Scrape!LoseRecord, Scrape!Goto, Scrape!Throw
  <2> QED
      BY <1>1, <2>1, <2>2 DEF PaidAndPast, Scrape!MetPrice
<1>2. CASE scraping[c] \notin Past
  <2>1. ASSUME NEW d \in Scrape!Scrapes, d # c
        PROVE  /\ paid'[d] = paid[d] /\ (d \in waived => d \in waived')
               /\ scraping'[d] = scraping[d]
    <3>1. paid'[d] = paid[d] /\ (d \in waived => d \in waived')
          BY <2>1 DEF Scrape!Step, Scrape!Gate, Scrape!Look, Scrape!PreCharge, Scrape!CheckKey,
                 Scrape!Authorize, Scrape!Fetch, Scrape!Bill, Scrape!Put, Scrape!Reply, Scrape!Owe,
                 Scrape!Charged
    <3>2. \E stage : scraping' = [scraping EXCEPT ![c] = stage]
          BY DEF Scrape!Step, Scrape!Gate, Scrape!Look, Scrape!PreCharge, Scrape!CheckKey,
                 Scrape!Authorize, Scrape!Fetch, Scrape!Bill, Scrape!Put, Scrape!Reply, Scrape!Owe,
                 Scrape!Record, Scrape!LoseRecord, Scrape!Goto, Scrape!Throw
    <3> QED
        BY <2>1, <3>1, <3>2
  <2> QED
      BY <1>2, <2>1 DEF PaidAndPast, Scrape!MetPrice
<1> QED
    BY <1>1, <1>2

\* None but Put writes to the cache, and none but Look reads it.
LEMMA ScrapeRows ==
    ASSUME ScrapeInv, [Scrape!Next]_(Scrape!vars)
    PROVE  RowsStand' /\ HitsStand'
<1> USE DEF ScrapeInv, Scrape!TypeOK, RowsStand, HitsStand
<1>1. \A c \in Scrape!Scrapes : hit[c] # NoScrape => hit[c].by \in Scrape!Scrapes
      BY DEF Scrape!Rows
<1>2. \A u \in Urls : cache[u] # NoScrape => cache[u].by \in Scrape!Scrapes
      BY DEF Scrape!Rows
<1>3. ASSUME NEW c \in Scrape!Scrapes, Scrape!Step(c), UNCHANGED <<cache, hit, began>>
      PROVE  RowsStand' /\ HitsStand'
  <2>1. RowsStand'
        BY <1>2, <1>3, PastStands DEF PaidAndPast, Scrape!MetPrice
  <2>2. HitsStand'
        BY <1>1, <1>3, PastStands DEF PaidAndPast, Scrape!MetPrice
  <2> QED
      BY <2>1, <2>2
<1>4. ASSUME NEW c \in Scrape!Scrapes, Scrape!Look(c)
      PROVE  RowsStand' /\ HitsStand'
  <2>1. \A d \in Scrape!Scrapes :
            /\ scraping[d] \in Past => scraping'[d] \in Past
            /\ PaidAndPast(d) => PaidAndPast(d)'
        BY <1>4, PastStands DEF Scrape!Step
  <2>2. scraping[c] \notin Past /\ hit[c] = NoScrape
        BY <1>4 DEF Scrape!Look, Past
  <2>3. RowsStand'
        BY <1>2, <1>4, <2>1 DEF Scrape!Look, PaidAndPast, Scrape!MetPrice
  <2>4. CASE UNCHANGED hit
    <3>1. ASSUME NEW d \in Scrape!Scrapes, hit'[d] # NoScrape
          PROVE  d # c /\ began'[d] = began[d]
          BY <1>4, <2>2, <2>4, <3>1 DEF Scrape!Look
    <3> QED
        BY <1>1, <2>1, <2>3, <2>4, <3>1 DEF PaidAndPast, Scrape!MetPrice
  <2>5. CASE /\ Scrape!LiveRow(UrlOf[c]) # NoScrape
             /\ hit' = [hit EXCEPT ![c] = Scrape!LiveRow(UrlOf[c])]
             /\ Scrape!Goto(c, IF c \in RestScrapes THEN "cached" ELSE "reply")
    <3> DEFINE row == cache[UrlOf[c]]
    <3>1. UrlOf[c] \in Urls
          BY ScrapeParameters DEF Scrape!Parameters
    <3>2. row # NoScrape /\ row.stored + TTL > now /\ Scrape!LiveRow(UrlOf[c]) = row
          BY <2>5 DEF Scrape!LiveRow
    <3>3. row \in Scrape!Rows /\ PaidAndPast(row.by)
          BY <3>1, <3>2
    <3>4. row.stored \in Int /\ now \in Int /\ TTL \in Int
          BY <3>3, ScrapeParameters DEF Scrape!Rows, Scrape!Parameters
    <3>5. hit'[c] = row /\ began'[c] = now /\ scraping'[c] \in Past
          BY <1>4, <2>5, <3>2 DEF Scrape!Look, Scrape!Goto, Past
    <3>6. PaidAndPast(row.by)' /\ began'[c] - row.stored < TTL
      <4>1. row.by \in Scrape!Scrapes
            BY <3>3 DEF Scrape!Rows
      <4>2. began'[c] - row.stored < TTL
            BY <3>2, <3>4, <3>5
      <4>3. row' = row
            BY <1>4 DEF Scrape!Look
      <4> QED
          BY <2>1, <3>3, <4>1, <4>2, <4>3 DEF PaidAndPast, Scrape!MetPrice
    <3>7. ASSUME NEW d \in Scrape!Scrapes, d # c
          PROVE  hit'[d] = hit[d] /\ began'[d] = began[d]
          BY <1>4, <2>5, <3>7 DEF Scrape!Look
    <3>8. ASSUME NEW d \in Scrape!Scrapes, hit'[d] # NoScrape
          PROVE  /\ scraping'[d] \in Past
                 /\ scraping'[hit'[d].by] \in Past
                 /\ paid'[hit'[d].by] = 1 \/ hit'[d].by \in waived'
                 /\ began'[d] - hit'[d].stored < TTL
      <4>1. CASE d = c
            BY <1>4, <3>5, <3>6, <4>1 DEF PaidAndPast, Scrape!MetPrice, Scrape!Look
      <4>2. CASE d # c
            BY <1>1, <2>1, <3>7, <3>8, <4>2 DEF PaidAndPast, Scrape!MetPrice
      <4> QED
          BY <4>1, <4>2
    <3> QED
        BY <2>3, <3>8 DEF PaidAndPast, Scrape!MetPrice
  <2> QED
      BY <1>4, <2>4, <2>5 DEF Scrape!Look
<1>5. ASSUME NEW c \in Scrape!Scrapes, Scrape!Put(c)
      PROVE  RowsStand' /\ HitsStand'
  <2>1. \A d \in Scrape!Scrapes :
            /\ scraping[d] \in Past => scraping'[d] \in Past
            /\ PaidAndPast(d) => PaidAndPast(d)'
        BY <1>5, PastStands DEF Scrape!Step
  <2>2. UNCHANGED <<hit, began, paid, waived>> /\ scraping[c] = "put"
        BY <1>5 DEF Scrape!Put
  <2>3. HitsStand'
        BY <1>1, <2>1, <2>2 DEF PaidAndPast, Scrape!MetPrice
  <2>4. scraping'[c] \in Past /\ (paid'[c] = 1 \/ c \in waived')
        BY <1>5, <2>2 DEF Scrape!Put, Scrape!Goto, Past, PricesFit, Scrape!MetPrice
  <2>5. ASSUME NEW u \in Urls, cache'[u] # NoScrape
        PROVE  /\ scraping'[cache'[u].by] \in Past
               /\ paid'[cache'[u].by] = 1 \/ cache'[u].by \in waived'
    <3>1. CASE cache'[u] = cache[u]
          BY <1>2, <2>1, <2>5, <3>1 DEF PaidAndPast, Scrape!MetPrice
    <3>2. CASE cache'[u] = [by |-> c, stored |-> now]
          BY <2>4, <3>2
    <3> QED
        BY <1>5, <3>1, <3>2 DEF Scrape!Put
  <2> QED
      BY <2>3, <2>5 DEF PaidAndPast, Scrape!MetPrice
<1>6. CASE Scrape!Tick \/ UNCHANGED Scrape!vars
      BY <1>6 DEF Scrape!Tick, Scrape!vars, PaidAndPast, Scrape!MetPrice
<1>7. ASSUME NEW c \in Scrape!Scrapes, Scrape!Step(c)
      PROVE  Scrape!Look(c) \/ Scrape!Put(c) \/ UNCHANGED <<cache, hit, began>>
      BY <1>7 DEF Scrape!Step, Scrape!Gate, Scrape!PreCharge, Scrape!CheckKey,
                  Scrape!Authorize, Scrape!Fetch, Scrape!Bill, Scrape!Reply, Scrape!Owe
<1> QED
    BY <1>3, <1>4, <1>5, <1>6, <1>7 DEF Scrape!Next

LEMMA ScrapeSpecInv ==
    ScrapeSpec => []ScrapeInv
<1>1. Scrape!Init => ScrapeInv
      BY ScrapeInitially
<1>2. ScrapeInv /\ [Scrape!Next]_(Scrape!vars) => ScrapeInv'
      BY ScrapeTypes, ScrapePrices, ScrapeEntries, ScrapeRows DEF ScrapeInv
<1> QED
    BY <1>1, <1>2, PTL DEF ScrapeSpec, Scrape!Spec

\* The types of ScrapeCache hold.
THEOREM ScrapeTypeCorrect == ScrapeSpec => []ScrapeTypeOK
<1>1. ScrapeInv => ScrapeTypeOK
      BY DEF ScrapeInv, ScrapeTypeOK
<1> QED
    BY <1>1, ScrapeSpecInv, PTL

\* Whatever is served from the cache has been paid for by who stored it, and is
\* younger than its lifetime when it is looked up: a row is only put by a scrape
\* that has met its price, and is only found while it lives.
THEOREM HitsAreRecent == ScrapeSpec => []HitIsRecent
<1>1. ScrapeInv => HitIsRecent
  <2> SUFFICES ASSUME ScrapeInv, NEW c \in Scrape!Scrapes, hit[c] # NoScrape
               PROVE  Scrape!MetPrice(hit[c].by) /\ began[c] - hit[c].stored < TTL
      BY DEF HitIsRecent, Scrape!HitIsRecent
  <2>1. hit[c].by \in Scrape!Scrapes
        BY DEF ScrapeInv, Scrape!TypeOK, Scrape!Rows
  <2> QED
      BY <2>1 DEF ScrapeInv, HitsStand, PaidAndPast
<1> QED
    BY <1>1, ScrapeSpecInv, PTL

\* A scrape that has paid and failed is owed its price once, whichever step threw,
\* unless a record of the debt failed or seemed to; nobody else is owed anything.
THEOREM FailedScrapesAreOwed == ScrapeSpec => []FailedScrapeIsOwed
<1>1. ScrapeInv => FailedScrapeIsOwed
  <2> SUFFICES ASSUME ScrapeInv, NEW c \in Scrape!Scrapes
               PROVE  /\ scraping[c] \in Scrape!Done /\ c \notin dropped
                             => owed[c] = IF c \in settled /\ scraping[c] = "failed" THEN 1 ELSE 0
                      /\ owed[c] > 0 => c \in settled /\ scraping[c] \in {"owing", "failed"}
                      /\ owed[c] <= IF c \in RestScrapes THEN 2 ELSE 1
      BY DEF FailedScrapeIsOwed, Scrape!FailedScrapeIsOwed
  <2>1. owed[c] \in Nat
        BY DEF ScrapeInv, Scrape!TypeOK
  <2> QED
      BY <2>1 DEF ScrapeInv, EntriesFit
<1> QED
    BY <1>1, ScrapeSpecInv, PTL
=============================================================================
