------------------------ MODULE IdempotentCallsProofs ------------------------
(***************************************************************************)
(* Theorems about IdempotentCalls, for every set of requests and every     *)
(* value of the time bounds.  The exclusion of two workers, the refinement *)
(* of IdempotentKey and the single charge hold until a stale claim is      *)
(* taken from a request at work; that a valid stored result stands and     *)
(* that an ended request leaves no claim hold after that too.              *)
(*                                                                         *)
(* The second half is about PlanSales, the plans sold through PAI'D.       *)
(***************************************************************************)
EXTENDS IdempotentCalls, PlanSales, FiniteSetTheorems, TLAPS

\* The row a working request holds is the one it wrote, and is as old as the
\* request's own reading of the clock.
HolderOwnsRow ==
    \A r \in Holders : /\ row # None
                       /\ claimant = r
                       /\ row.created_at = stamp[r]

WorkersHold ==
    \A r \in Requests :
        /\ pc[r] \in {"working", "completing"} => held[r]
        /\ pc[r] = "summary" => ~held[r]

\* The row carries the arguments of the request that wrote it, and a completed
\* row the result of a request with these arguments.
RowMatchesArgs ==
    row # None =>
        /\ claimant \in Requests
        /\ row.hash = ArgsOf[claimant]
        /\ Completed => row.response \in Requests /\ ArgsOf[row.response] = row.hash

\* Until its completion has been tried, a worker's row is pending.
WorkersPend ==
    \A r \in Requests : held[r] /\ pc[r] \in {"working", "completing"} => Pending

IInv == /\ TypeOK
        /\ WorkersHold
        /\ Undisturbed => HolderOwnsRow /\ RowMatchesArgs /\ WorkersPend
        /\ ReplayMatchesArgs

USE DEF Rows, Steps, Ended, Goto

-----------------------------------------------------------------------------
(* Type correctness *)

LEMMA InitTypeOK == Init => TypeOK
BY RequestsAssumption, TimeAssumption, BoundAssumption DEF Init, TypeOK

LEMMA NextTypeOK == TypeOK /\ [Next]_vars => TypeOK'
<1> SUFFICES ASSUME TypeOK, [Next]_vars
             PROVE  TypeOK'
    OBVIOUS
<1> USE RequestsAssumption, ArgsAssumption, TimeAssumption, BoundAssumption DEF TypeOK, Displace, Holders
<1>1. ASSUME NEW r \in Requests, Handle(r)
      PROVE  TypeOK'
  <2>1. CASE Replay(r)
        BY <2>1 DEF Replay, Cached, Completed
  <2>2. CASE Miss(r)
        BY <2>2 DEF Miss
  <2>3. CASE ClaimWon(r)
        BY <2>3 DEF ClaimWon
  <2>4. CASE ClaimLost(r)
        BY <2>4 DEF ClaimLost
  <2>5. CASE ToolSucceeds(r) \/ ToolFails(r) \/ UnknownTool(r) \/ Summarise(r)
        BY <2>5 DEF ToolSucceeds, ToolFails, UnknownTool, Summarise
  <2>6. Stored(r) \in Rows \cup {None}
        BY DEF Stored, Pending
  <2>7. Released \in Rows \cup {None}
        BY DEF Released, Pending
  <2>8. CASE Complete(r) \/ CompleteFails(r)
        BY <2>6, <2>8 DEF Complete, CompleteFails
  <2>9. CASE Release(r) \/ ReleaseFails(r)
        BY <2>7, <2>9 DEF Release, ReleaseFails
  <2> QED
        BY <1>1, <2>1, <2>2, <2>3, <2>4, <2>5, <2>8, <2>9 DEF Handle
<1>2. CASE Tick
      BY <1>2 DEF Tick
<1>3. CASE Crash
      BY <1>3 DEF Crash
<1>4. CASE Prune
      BY <1>4 DEF Prune
<1>5. CASE UNCHANGED vars
      BY <1>5 DEF vars
<1> QED
      BY <1>1, <1>2, <1>3, <1>4, <1>5 DEF Next

\* The variables of IdempotentCalls keep their types.
THEOREM TypeCorrect == Spec => []TypeOK
<1>1. Init => TypeOK
      BY InitTypeOK
<1>2. TypeOK /\ [Next]_vars => TypeOK'
      BY NextTypeOK
<1> QED
      BY <1>1, <1>2, PTL DEF Spec

-----------------------------------------------------------------------------
(* At most one worker *)

LEMMA InitIInv == Init => IInv
BY InitTypeOK, RequestsAssumption
DEF Init, IInv, HolderOwnsRow, WorkersHold, RowMatchesArgs, WorkersPend, ReplayMatchesArgs,
    Holders

\* Who wins the claim beside a holder has overtaken it: the row is the holder's,
\* and only a row that is past its window can be claimed.
LEMMA NoClaimBesideHolder ==
    ASSUME IInv, Undisturbed, NEW r \in Requests, Claimable(r),
           Displace(stamp[r]), Undisturbed'
    PROVE  Holders = {}
<1>1. SUFFICES ASSUME NEW h \in Holders
               PROVE  FALSE
      OBVIOUS
<1>2. row # None /\ row.created_at = stamp[h]
      BY <1>1 DEF IInv, HolderOwnsRow
<1>3. row.created_at < stamp[r] - StaleAfter
      BY <1>2 DEF Claimable
<1>4. stamp[r] \in Int /\ stamp[h] \in Int /\ StaleAfter \in Int
      BY <1>1, TimeAssumption DEF IInv, TypeOK, Holders
<1>5. stamp[r] - stamp[h] > StaleAfter
      BY <1>2, <1>3, <1>4
<1> QED
      BY <1>1, <1>5 DEF Displace, Undisturbed

\* A row that is old enough to be pruned is nobody's, or is taken from its holder.
LEMMA NoPruneBesideHolder ==
    ASSUME IInv, Undisturbed, row.created_at < clock - Ttl,
           Displace(clock), Undisturbed'
    PROVE  Holders = {}
<1>1. SUFFICES ASSUME NEW h \in Holders
               PROVE  FALSE
      OBVIOUS
<1>2. row.created_at = stamp[h]
      BY <1>1 DEF IInv, HolderOwnsRow
<1>3. stamp[h] \in Int /\ clock \in Int /\ StaleAfter \in Int /\ Ttl \in Int
      BY <1>1, TimeAssumption DEF IInv, TypeOK, Holders
<1>4. clock - stamp[h] > StaleAfter
      BY <1>2, <1>3, TimeAssumption
<1> QED
      BY <1>1, <1>4 DEF Displace, Undisturbed

\* What has been taken from a worker stays on record.
LEMMA DisturbedStays == [Next]_vars => (Undisturbed' => Undisturbed)
BY DEF Undisturbed, Displace, Next, Handle, vars, Replay, Miss, ClaimWon, ClaimLost,
   ToolSucceeds, ToolFails, UnknownTool, Complete, CompleteFails, Summarise, Release,
   ReleaseFails, Tick, Crash, Prune

LEMMA NextWorkersHold == TypeOK /\ WorkersHold /\ [Next]_vars => WorkersHold'
<1> SUFFICES ASSUME TypeOK, WorkersHold, [Next]_vars
             PROVE  WorkersHold'
    OBVIOUS
<1> USE DEF TypeOK, WorkersHold
<1>1. ASSUME NEW r \in Requests, Handle(r)
      PROVE  WorkersHold'
  <2>1. CASE Replay(r) \/ Miss(r) \/ ClaimWon(r) \/ ClaimLost(r)
        BY <2>1 DEF Replay, Miss, ClaimWon, ClaimLost
  <2>2. CASE ToolSucceeds(r) \/ ToolFails(r) \/ UnknownTool(r) \/ Summarise(r)
        BY <2>2 DEF ToolSucceeds, ToolFails, UnknownTool, Summarise
  <2>3. CASE Complete(r) \/ CompleteFails(r) \/ Release(r) \/ ReleaseFails(r)
        BY <2>3 DEF Complete, CompleteFails, Release, ReleaseFails
  <2> QED
        BY <1>1, <2>1, <2>2, <2>3 DEF Handle
<1>2. CASE Tick \/ Crash \/ Prune \/ UNCHANGED vars
      BY <1>2 DEF Tick, Crash, Prune, vars
<1> QED
      BY <1>1, <1>2 DEF Next

LEMMA NextIInv == IInv /\ [Next]_vars => IInv'
<1> SUFFICES ASSUME IInv, [Next]_vars
             PROVE  IInv'
    OBVIOUS
<1>0. TypeOK' /\ WorkersHold'
      BY NextTypeOK, NextWorkersHold DEF IInv
<1> SUFFICES ASSUME Undisturbed, Undisturbed'
             PROVE  HolderOwnsRow' /\ RowMatchesArgs' /\ WorkersPend' /\ ReplayMatchesArgs'
    BY <1>0, DisturbedStays DEF IInv, ReplayMatchesArgs
<1>9. HolderOwnsRow /\ RowMatchesArgs /\ WorkersPend
      BY DEF IInv
<1> USE RequestsAssumption, RowsAssumption, ArgsAssumption, TimeAssumption
        DEF IInv, TypeOK, HolderOwnsRow, WorkersHold, RowMatchesArgs, WorkersPend,
            ReplayMatchesArgs, Holders, Completed, Pending
<1>1. ASSUME NEW r \in Requests, Handle(r)
      PROVE  HolderOwnsRow' /\ RowMatchesArgs' /\ WorkersPend' /\ ReplayMatchesArgs'
  <2>1. CASE Replay(r)
        BY <1>0, <1>9, <2>1 DEF Replay, Cached
  <2>2. CASE Miss(r)
        BY <1>0, <1>9, <2>2 DEF Miss
  <2>3. CASE ClaimWon(r)
    <3>1. Holders = {}
          BY <2>3, NoClaimBesideHolder DEF ClaimWon
    <3>2. /\ row' = [hash |-> ArgsOf[r], status |-> "pending",
                     response |-> None, created_at |-> stamp[r]]
          /\ claimant' = r /\ held' = [held EXCEPT ![r] = TRUE]
          /\ pc' = [pc EXCEPT ![r] = "working"]
          /\ UNCHANGED <<stamp, replayed>>
          BY <2>3 DEF ClaimWon
    <3>3. Holders' = {r}
          BY <3>1, <3>2
    <3>4. row' # None
          BY <1>0, <3>2
    <3> QED
          BY <1>0, <1>9, <3>2, <3>3, <3>4
  <2>4. CASE ClaimLost(r)
        BY <1>0, <1>9, <2>4 DEF ClaimLost
  <2>5. CASE ToolSucceeds(r) \/ ToolFails(r) \/ UnknownTool(r) \/ Summarise(r)
    <3>1. /\ UNCHANGED <<row, stamp, held, replayed, claimant>>
          /\ pc[r] \in {"working", "summary"}
          /\ \E step \in {"completing", "releasing", "rejected", "succeeded"} :
                pc' = [pc EXCEPT ![r] = step] /\ (step = "completing" => pc[r] = "working")
          BY <2>5 DEF ToolSucceeds, ToolFails, UnknownTool, Summarise
    <3>2. Holders' \subseteq Holders
          BY <1>9, <3>1
    <3>3. WorkersPend'
          BY <1>9, <3>1
    <3> QED
          BY <1>0, <1>9, <3>1, <3>2, <3>3
  <2>6. CASE Complete(r) \/ CompleteFails(r)
    <3>1. /\ r \in Holders
          /\ row' \in {row, Stored(r)}
          /\ UNCHANGED <<stamp, replayed, claimant>>
          /\ \A q \in Requests \ {r} : pc'[q] = pc[q] /\ held'[q] = held[q]
          /\ pc'[r] = "releasing" \/ (pc'[r] = "summary" /\ ~held'[r])
          BY <1>9, <2>6 DEF Complete, CompleteFails
    <3>2. row # None /\ claimant = r /\ row.hash = ArgsOf[r]
          BY <1>9, <3>1
    <3>3. /\ row' # None
          /\ row'.hash = row.hash
          /\ row'.created_at = row.created_at
          /\ row' = row \/ row'.response = r
      <4>1. row \in Rows
            BY <3>2
      <4>2. Stored(r) \in Rows /\ Stored(r).hash = row.hash
            /\ Stored(r).created_at = row.created_at
            /\ (Stored(r) = row \/ Stored(r).response = r)
            BY <4>1 DEF Stored
      <4> QED
            BY <3>1, <3>2, <4>1, <4>2
    <3>4. Holders' \subseteq Holders
          BY <3>1
    <3>5. HolderOwnsRow'
          BY <1>9, <3>1, <3>3, <3>4
    <3>6. RowMatchesArgs'
          BY <1>9, <3>1, <3>2, <3>3
    <3>7. WorkersPend'
      <4>1. SUFFICES ASSUME NEW q \in Requests, held'[q], pc'[q] \in {"working", "completing"}
                     PROVE  FALSE
            OBVIOUS
      <4>2. q # r /\ q \in Holders
            BY <3>1, <4>1
      <4> QED
            BY <1>9, <3>1, <4>2
    <3> QED
          BY <1>0, <1>9, <3>1, <3>5, <3>6, <3>7
  <2>7. CASE Release(r) \/ ReleaseFails(r)
    <3>1. /\ row' = row \/ (r \in Holders /\ row' = None)
          /\ UNCHANGED <<stamp, replayed, claimant>>
          /\ \A q \in Requests \ {r} : pc'[q] = pc[q] /\ held'[q] = held[q]
          /\ pc'[r] = "failed"
          BY <2>7 DEF Release, ReleaseFails, Released
    <3>2. r \notin Holders'
          BY <3>1
    <3>3. \A h \in Holders' : h \in Holders /\ row' = row
          BY <1>9, <3>1, <3>2
    <3>4. WorkersPend'
          BY <1>9, <3>1, <3>3
    <3> QED
          BY <1>0, <1>9, <3>1, <3>2, <3>3, <3>4
  <2> QED
        BY <1>1, <2>1, <2>2, <2>3, <2>4, <2>5, <2>6, <2>7 DEF Handle
<1>2. CASE Tick
      BY <1>0, <1>9, <1>2 DEF Tick
<1>3. CASE Crash
      BY <1>0, <1>9, <1>3 DEF Crash
<1>4. CASE Prune
  <2>1. /\ row' = None
        /\ UNCHANGED <<pc, stamp, held, replayed, claimant>>
        BY <1>4 DEF Prune
  <2>2. Holders = {}
        BY <1>4, NoPruneBesideHolder DEF Prune
  <2> QED
        BY <1>0, <1>9, <2>1, <2>2
<1>5. CASE UNCHANGED vars
      BY <1>0, <1>9, <1>5 DEF vars
<1> QED
      BY <1>1, <1>2, <1>3, <1>4, <1>5 DEF Next

LEMMA Inductive == Spec => []IInv
BY InitIInv, NextIInv, PTL DEF Spec

\* At most one request works for the key, however slow calls are and whatever fails
\* and restarts, until a stale claim is taken from a request at work.
THEOREM AtMostOneWorker == Spec => []OneWorker
<1>1. IInv => OneWorker
      BY DEF IInv, HolderOwnsRow, OneWorker
<1> QED
      BY <1>1, Inductive, PTL

\* Until then a replayed response is always the response to the same tool and
\* arguments.
THEOREM ReplaysMatch == Spec => []ReplayMatchesArgs
<1>1. IInv => ReplayMatchesArgs
      BY DEF IInv
<1> QED
      BY <1>1, Inductive, PTL

-----------------------------------------------------------------------------
(* A valid stored result stands, with slow calls and faults too *)

LEMMA CachedRowKept == TypeOK /\ [Next]_vars => (Cached => row' = row)
<1> SUFFICES ASSUME TypeOK, [Next]_vars, Cached
             PROVE  row' = row
    OBVIOUS
<1>1. row # None /\ row.status = "completed" /\ clock - row.created_at <= Ttl
      BY DEF Cached, Completed
<1>2. ASSUME NEW r \in Requests, Handle(r)
      PROVE  row' = row
  <2>1. ~Pending /\ ~Claimable(r)
        BY <1>1 DEF Pending, Claimable
  <2>2. Stored(r) = row /\ Released = row
        BY <2>1 DEF Stored, Released
  <2> QED
        BY <1>2, <2>1, <2>2
        DEF Handle, Replay, Miss, ClaimWon, ClaimLost, ToolSucceeds, ToolFails,
            UnknownTool, Complete, CompleteFails, Summarise, Release, ReleaseFails
<1>3. ~Prune
      BY <1>1, TimeAssumption DEF Prune, TypeOK
<1> QED
      BY <1>2, <1>3 DEF Next, Tick, Crash, vars

\* No step replaces or deletes a stored result that is still valid.
THEOREM ValidResultStands == Spec => StoredResultStands
<1>1. Init => TypeOK
      BY InitTypeOK
<1>2. TypeOK /\ [Next]_vars => TypeOK'
      BY NextTypeOK
<1>3. TypeOK /\ [Next]_vars => [Cached => row' = row]_vars
      BY CachedRowKept
<1> QED
      BY <1>1, <1>2, <1>3, PTL DEF Spec, StoredResultStands

-----------------------------------------------------------------------------
(* Whoever has ended has let go of the key *)

\* A pending row belongs to a request that still holds the claim, or died with it,
\* or is one of those that may leave it behind.
PendingHasOwner ==
    Pending => /\ claimant \in Requests
               /\ \/ claimant \in Holders
                  \/ pc[claimant] = "dead"
                  \/ claimant \in DbFaults
                  \/ ArgsOf[claimant] \in UnknownArgs

LEMMA NextOwner ==
    TypeOK /\ PendingHasOwner /\ [Next]_vars => PendingHasOwner'
<1> SUFFICES ASSUME TypeOK, PendingHasOwner, [Next]_vars
             PROVE  PendingHasOwner'
    OBVIOUS
<1> USE DEF TypeOK, PendingHasOwner, Pending, Holders
<1>1. ASSUME NEW r \in Requests, Handle(r)
      PROVE  PendingHasOwner'
  <2>1. CASE Replay(r) \/ Miss(r) \/ ClaimLost(r)
        BY <2>1 DEF Replay, Miss, ClaimLost
  <2>2. CASE ClaimWon(r)
        BY <2>2 DEF ClaimWon
  <2>3. CASE ToolSucceeds(r) \/ ToolFails(r)
        BY <2>3 DEF ToolSucceeds, ToolFails
  <2>4. CASE Complete(r)
        BY <2>4 DEF Complete, Stored
  <2>5. CASE Summarise(r)
        BY <2>5 DEF Summarise
  <2>6. CASE Release(r)
        BY <2>6 DEF Release, Released
  <2>7. CASE UnknownTool(r)
        BY <2>7 DEF UnknownTool
  <2>8. CASE CompleteFails(r)
        BY <2>8 DEF CompleteFails, Stored
  <2>9. CASE ReleaseFails(r)
        BY <2>9 DEF ReleaseFails, Released
  <2> QED
        BY <1>1, <2>1, <2>2, <2>3, <2>4, <2>5, <2>6, <2>7, <2>8, <2>9 DEF Handle
<1>2. CASE Tick
      BY <1>2 DEF Tick
<1>3. CASE Crash
      BY <1>3 DEF Crash
<1>4. CASE Prune
      BY <1>4 DEF Prune
<1>5. CASE UNCHANGED vars
      BY <1>5 DEF vars
<1> QED
      BY <1>1, <1>2, <1>3, <1>4, <1>5 DEF Next

\* A request that has ended has let go of the key, however slow calls are and
\* whoever took its claim over, unless a statement of its own failed or dispatch
\* does not know its tool.
THEOREM NobodyLeavesAClaim == Spec => []EndedLeavesNoClaim
<1>1. PendingHasOwner => EndedLeavesNoClaim
      BY DEF PendingHasOwner, EndedLeavesNoClaim, Holders
<1>2. Init => TypeOK /\ PendingHasOwner
      BY InitTypeOK DEF Init, PendingHasOwner, Pending
<1>3. TypeOK /\ PendingHasOwner /\ [Next]_vars => TypeOK' /\ PendingHasOwner'
      BY NextTypeOK, NextOwner
<1> QED
      BY <1>1, <1>2, <1>3, PTL DEF Spec

-----------------------------------------------------------------------------
(* The protocol implements IdempotentKey *)

\* Who works and what is stored, as the refinement mapping has it.
Worker == IF Pending /\ claimant \in Holders THEN claimant ELSE None
Result == IF Completed THEN row.response ELSE None
Broken == ~Undisturbed

\* The ways a step moves worker and result.
LEMMA Begins ==
    ASSUME Undisturbed, Undisturbed',
           Worker = None, Result = None, Worker' \in Requests, Result' = None
    PROVE  Promise!Next
BY DEF Promise!Next, Promise!Begin, Worker, Result

LEMMA Finishes ==
    ASSUME Undisturbed, Undisturbed', Worker # None, Worker' = None, Result' = Worker
    PROVE  Promise!Next
BY DEF Promise!Next, Promise!Finish, Worker, Result

LEMMA Abandons ==
    ASSUME Undisturbed, Undisturbed', Worker' \in {Worker, None}, Result' = Result
    PROVE  Promise!Next \/ UNCHANGED <<Worker, Result, Broken>>
BY DEF Promise!Next, Promise!Abandon, Worker, Result, Broken

LEMMA Forgets ==
    ASSUME Undisturbed, Undisturbed', Worker' = Worker, Result' \in {Result, None}
    PROVE  Promise!Next \/ UNCHANGED <<Worker, Result, Broken>>
BY DEF Promise!Next, Promise!Forget, Worker, Result, Broken

LEMMA Breaks ==
    ASSUME TypeOK', ~Undisturbed'
    PROVE  Promise!Next
<1>1. Worker' \in Requests \cup {None} /\ Result' \in Requests \cup {None}
      BY DEF TypeOK, Rows, Worker, Result, Completed, Holders
<1> QED
    BY <1>1 DEF Promise!Next, Promise!Break, Worker, Result

LEMMA NextPromise ==
    IInv /\ [Next]_vars => Promise!Next \/ UNCHANGED <<Worker, Result, Broken>>
<1> SUFFICES ASSUME IInv, [Next]_vars
             PROVE  Promise!Next \/ UNCHANGED <<Worker, Result, Broken>>
    OBVIOUS
<1>0. CASE ~Undisturbed'
      BY <1>0, NextIInv, Breaks DEF IInv
<1> SUFFICES ASSUME Undisturbed, Undisturbed'
             PROVE  Promise!Next \/ UNCHANGED <<Worker, Result, Broken>>
    BY <1>0, DisturbedStays
<1>9. HolderOwnsRow /\ WorkersPend
      BY DEF IInv
<1> USE RequestsAssumption DEF IInv, TypeOK, Pending, Completed
<1>1. ASSUME NEW r \in Requests, Handle(r)
      PROVE  Promise!Next \/ UNCHANGED <<Worker, Result, Broken>>
  <2>1. CASE Replay(r) \/ Miss(r) \/ ClaimLost(r) \/ ToolSucceeds(r) \/ ToolFails(r)
             \/ UnknownTool(r) \/ Summarise(r)
    <3>1. UNCHANGED <<row, claimant>>
          BY <2>1 DEF Replay, Miss, ClaimLost, ToolSucceeds, ToolFails, UnknownTool, Summarise
    <3>2. Holders' \subseteq Holders
          BY <2>1 DEF Replay, Miss, ClaimLost, ToolSucceeds, ToolFails, UnknownTool,
                      Summarise, Holders, WorkersHold
    <3>3. Worker' \in {Worker, None} /\ Result' = Result
          BY <3>1, <3>2 DEF Worker, Result
    <3> QED
          BY <3>3, Abandons
  <2>2. CASE ClaimWon(r)
    <3>1. Holders = {} /\ ~Completed
          BY <2>2, NoClaimBesideHolder DEF ClaimWon, Claimable
    <3>2. row'.status = "pending" /\ row' # None /\ claimant' = r /\ r \in Holders'
      <4>1. row'.status = "pending" /\ row' \in Rows
            BY <2>2, ArgsAssumption DEF ClaimWon
      <4>2. claimant' = r /\ held'[r] /\ pc'[r] = "working"
            BY <2>2 DEF ClaimWon
      <4> QED
            BY <4>1, <4>2, RowsAssumption DEF Holders
    <3>3. Worker = None /\ Result = None /\ Worker' = r /\ Result' = None
          BY <3>1, <3>2 DEF Worker, Result
    <3> QED
          BY <3>3, Begins
  <2>3. CASE Complete(r) \/ CompleteFails(r)
    <3>1. /\ r \in Holders /\ claimant = r /\ Pending
          /\ row' \in {row, Stored(r)} /\ claimant' = claimant
          /\ row' = row => r \in Holders'
          BY <1>9, <2>3 DEF Complete, CompleteFails, Holders, WorkersHold, WorkersPend,
                      HolderOwnsRow, Stored
    <3>2. row \in Rows
          BY <3>1
    <3>3. Stored(r) \in Rows /\ Stored(r).status = "completed" /\ Stored(r).response = r
          BY <3>1, <3>2 DEF Stored, Rows
    <3>4. Worker = r /\ Result = None
          BY <3>1 DEF Worker, Result
    <3>5. CASE row' = row
      <4>1. Worker' = Worker /\ Result' = Result
            BY <3>1, <3>5 DEF Worker, Result
      <4> QED
            BY <4>1, Abandons
    <3>6. CASE row' = Stored(r)
      <4>1. Worker' = None /\ Result' = r
            BY <3>3, <3>6, RowsAssumption DEF Worker, Result
      <4> QED
            BY <3>4, <4>1, Finishes
    <3> QED
          BY <3>1, <3>5, <3>6
  <2>4. CASE Release(r) \/ ReleaseFails(r)
    <3>1. /\ row' = row \/ (Pending /\ row' = None)
          /\ claimant' = claimant
          /\ Holders' \subseteq Holders
          BY <2>4 DEF Release, ReleaseFails, Released, Holders
    <3>2. Worker' \in {Worker, None} /\ Result' = Result
          BY <3>1 DEF Worker, Result
    <3> QED
          BY <3>2, Abandons
  <2> QED
        BY <1>1, <2>1, <2>2, <2>3, <2>4 DEF Handle
<1>2. CASE Tick \/ Crash \/ UNCHANGED vars
  <2>1. UNCHANGED <<row, claimant>> /\ Holders' \subseteq Holders
        /\ (Holders' = Holders \/ Holders' = {})
        BY <1>2 DEF Tick, Crash, vars, Holders
  <2>2. Worker' \in {Worker, None} /\ Result' = Result
        BY <2>1 DEF Worker, Result
  <2> QED
        BY <2>2, Abandons
<1>3. CASE Prune
  <2>1. Holders = {} /\ Holders' = Holders /\ row' = None
        BY <1>3, NoPruneBesideHolder DEF Prune, Holders
  <2>2. Worker' = Worker /\ Result' \in {Result, None}
        BY <2>1 DEF Worker, Result
  <2> QED
        BY <2>2, Forgets
<1> QED
      BY <1>1, <1>2, <1>3 DEF Next

\* The claim protocol implements IdempotentKey, however slow calls are and whatever
\* fails, dies or is pruned, until a stale claim is taken from a request at work.
THEOREM ImplementsIdempotentKey == Spec => KeepsPromise
<1>1. Init => Promise!Init
      BY RequestsAssumption DEF Init, Promise!Init, Pending, Completed, Undisturbed
<1>2. IInv /\ [Next]_vars => [Promise!Next]_(Promise!vars)
      BY NextPromise DEF Promise!vars, Worker, Result, Broken
<1> QED
      BY <1>1, <1>2, Inductive, PTL DEF Spec, KeepsPromise, Promise!Spec

-----------------------------------------------------------------------------
(* One charge per key and TTL *)

\* Runs whose success the process has lived to store, and whose statements succeed.
Charged == {q \in worked \ DbFaults : pc[q] # "dead"}

\* Its result is the one the row stores, or has expired.
StoredFor(q) == Completed /\ row.response = q /\ row.created_at = stamp[q]
Expired(q) == clock - stamp[q] > Ttl

ChargedRuns ==
    Undisturbed => \A q \in Charged :
        \/ pc[q] = "completing" /\ held[q]
        \/ StoredFor(q)
        \/ Expired(q)

WorkedIsPast == \A q \in worked : pc[q] \notin {"idle", "claiming", "working"}

ChargeInv == ChargedRuns /\ WorkedIsPast

LEMMA NextWorkedIsPast == TypeOK /\ WorkedIsPast /\ [Next]_vars => WorkedIsPast'
BY DEF TypeOK, WorkedIsPast, Next, Handle, vars, Replay, Miss, ClaimWon, ClaimLost,
   ToolSucceeds, ToolFails, UnknownTool, Complete, CompleteFails, Summarise, Release,
   ReleaseFails, Tick, Crash, Prune

\* A step of one request that runs no tool, and takes no stored result away.
LEMMA QuietStep ==
    ASSUME IInv, ChargeInv, Undisturbed, NEW r \in Requests,
           UNCHANGED <<clock, worked>>,
           Completed => row' = row,
           \A q \in Requests \ {r} : pc'[q] = pc[q] /\ held'[q] = held[q] /\ stamp'[q] = stamp[q],
           stamp'[r] = stamp[r] \/ r \notin worked,
           pc[r] # "dead",
           held[r] /\ r \notin DbFaults => pc[r] # "completing"
    PROVE  ChargedRuns'
<1> USE DEF IInv, TypeOK
<1>1. SUFFICES ASSUME NEW q \in Charged'
               PROVE  \/ pc'[q] = "completing" /\ held'[q]
                      \/ StoredFor(q)'
                      \/ Expired(q)'
      BY DEF ChargedRuns
<1>2. q \in Charged /\ stamp'[q] = stamp[q]
      BY <1>1 DEF Charged
<1>3. CASE pc[q] = "completing" /\ held[q]
      BY <1>2, <1>3 DEF Charged
<1>4. CASE StoredFor(q)
      BY <1>2, <1>4 DEF StoredFor, Completed
<1>5. CASE Expired(q)
      BY <1>2, <1>5 DEF Expired
<1> QED
      BY <1>2, <1>3, <1>4, <1>5 DEF ChargeInv, ChargedRuns

\* While a worker's row is pending, every other charged run has expired.
LEMMA OthersExpired ==
    ASSUME IInv, ChargeInv, Undisturbed, NEW r \in Holders, Pending,
           NEW q \in Charged, q # r
    PROVE  Expired(q)
<1>1. ~(pc[q] = "completing" /\ held[q])
      BY DEF IInv, HolderOwnsRow, Holders, Charged, TypeOK
<1> QED
    BY <1>1 DEF ChargeInv, ChargedRuns, StoredFor, Completed, Pending

LEMMA ClaimCharge ==
    ASSUME IInv, ChargeInv, Undisturbed, Undisturbed', NEW r \in Requests, ClaimWon(r)
    PROVE  ChargedRuns'
<1>1. /\ UNCHANGED <<clock, worked, stamp>>
      /\ pc[r] = "claiming"
      /\ \A q \in Requests \ {r} : pc'[q] = pc[q] /\ held'[q] = held[q]
      /\ ~Completed
      BY DEF ClaimWon, Claimable, Pending, Completed, IInv, TypeOK
<1> QED
    BY <1>1, QuietStep

\* The tool succeeds for a worker: every earlier run has expired.
LEMMA WorkCharge ==
    ASSUME IInv, ChargeInv, Undisturbed, NEW r \in Requests, ToolSucceeds(r)
    PROVE  ChargedRuns'
<1>1. /\ UNCHANGED <<row, clock, stamp, held>>
      /\ pc[r] = "working" /\ pc' = [pc EXCEPT ![r] = "completing"]
      /\ worked' = worked \cup {r}
      BY DEF ToolSucceeds
<1>2. r \in Holders /\ Pending
      BY <1>1 DEF IInv, WorkersHold, WorkersPend, Holders
<1>3. SUFFICES ASSUME NEW q \in Charged', q # r
               PROVE  Expired(q)'
      BY <1>1, <1>2 DEF ChargedRuns, Holders, IInv, TypeOK
<1>4. q \in Charged
      BY <1>1, <1>3 DEF Charged, IInv, TypeOK
<1> QED
    BY <1>1, <1>2, <1>3, <1>4, OthersExpired DEF Expired

\* The result is stored, whether or not the request learns of it.
LEMMA CompleteCharge ==
    ASSUME IInv, ChargeInv, Undisturbed, NEW r \in Requests,
           Complete(r) \/ CompleteFails(r), row' = Stored(r)
    PROVE  ChargedRuns'
<1> USE DEF IInv, TypeOK
<1>1. /\ UNCHANGED <<clock, stamp, worked>>
      /\ pc[r] = "completing" /\ pc'[r] \in {"summary", "releasing"}
      /\ \A q \in Requests \ {r} : pc'[q] = pc[q] /\ held'[q] = held[q]
      BY DEF Complete, CompleteFails
<1>2. r \in Holders /\ Pending /\ row \in Rows /\ row.created_at = stamp[r]
      BY <1>1 DEF WorkersHold, WorkersPend, Holders, Pending, HolderOwnsRow
<1>3. Stored(r) \in Rows /\ Stored(r).status = "completed" /\ Stored(r).response = r
      /\ Stored(r).created_at = row.created_at
      BY <1>2 DEF Stored, Rows
<1>4. StoredFor(r)'
      BY <1>1, <1>2, <1>3, RowsAssumption DEF Completed, StoredFor
<1>5. SUFFICES ASSUME NEW q \in Charged', q # r
               PROVE  Expired(q)'
      BY <1>4 DEF ChargedRuns
<1>6. q \in Charged
      BY <1>1, <1>5 DEF Charged
<1> QED
    BY <1>1, <1>2, <1>5, <1>6, OthersExpired DEF Expired

\* What is pruned has expired.
LEMMA PruneCharge ==
    ASSUME IInv, ChargeInv, Undisturbed, Undisturbed', Prune
    PROVE  ChargedRuns'
<1> USE TimeAssumption DEF IInv, TypeOK
<1>1. /\ row # None /\ row.created_at < clock - Ttl
      /\ UNCHANGED <<clock, pc, stamp, held, worked>>
      BY DEF Prune
<1>2. Holders = {} /\ Charged' = Charged
      BY <1>1, NoPruneBesideHolder DEF Prune, Charged
<1>3. ASSUME NEW q \in Charged
      PROVE  Expired(q)
  <2>1. StoredFor(q) \/ Expired(q)
        BY <1>2 DEF ChargeInv, ChargedRuns, Charged, Holders
  <2>2. StoredFor(q) => clock - stamp[q] > Ttl
        BY <1>1 DEF StoredFor, Charged
  <2> QED
        BY <2>1, <2>2 DEF Expired
<1> QED
    BY <1>1, <1>2, <1>3 DEF ChargedRuns, Expired

LEMMA NextCharge ==
    ASSUME IInv, ChargeInv, [Next]_vars
    PROVE  ChargeInv'
<1>0. WorkedIsPast'
      BY NextWorkedIsPast DEF IInv, ChargeInv
<1> SUFFICES ASSUME Undisturbed, Undisturbed'
             PROVE  ChargedRuns'
    BY <1>0, DisturbedStays DEF ChargeInv, ChargedRuns
<1> USE DEF IInv, TypeOK
<1>1. ASSUME NEW r \in Requests, Handle(r)
      PROVE  ChargedRuns'
  <2>1. CASE Miss(r)
        BY <2>1, QuietStep DEF Miss, ChargeInv, WorkedIsPast
  <2>2. CASE Replay(r) \/ ClaimLost(r) \/ ToolFails(r) \/ UnknownTool(r) \/ Summarise(r)
        BY <2>2, QuietStep DEF Replay, ClaimLost, ToolFails, UnknownTool, Summarise
  <2>3. CASE Release(r) \/ ReleaseFails(r)
        BY <2>3, QuietStep DEF Release, ReleaseFails, Released, Pending, Completed
  <2>4. CASE ClaimWon(r)
        BY <2>4, ClaimCharge
  <2>5. CASE ToolSucceeds(r)
        BY <2>5, WorkCharge
  <2>6. CASE Complete(r)
        BY <2>6, CompleteCharge DEF Complete
  <2>7. CASE CompleteFails(r)
    <3>1. CASE row' = row
          BY <2>7, <3>1, QuietStep DEF CompleteFails
    <3>2. CASE row' = Stored(r)
          BY <2>7, <3>2, CompleteCharge
    <3> QED
          BY <2>7, <3>1, <3>2 DEF CompleteFails
  <2> QED
        BY <1>1, <2>1, <2>2, <2>3, <2>4, <2>5, <2>6, <2>7 DEF Handle
<1>2. CASE Tick
  <2>1. /\ clock' = clock + 1 /\ UNCHANGED <<row, pc, stamp, held, worked>>
        BY <1>2 DEF Tick
  <2>2. Charged' = Charged /\ Charged \subseteq Requests
        BY <2>1 DEF Charged
  <2>3. \A q \in Charged : (Expired(q) => Expired(q)') /\ (StoredFor(q) => StoredFor(q)')
        BY <2>1, <2>2, TimeAssumption DEF Expired, StoredFor, Completed
  <2> QED
        BY <2>1, <2>2, <2>3 DEF ChargeInv, ChargedRuns
<1>3. CASE Crash
  <2>1. /\ UNCHANGED <<row, clock, stamp, worked>>
        /\ \A q \in Requests : pc'[q] = IF pc[q] \in Steps \ {"idle"} THEN "dead" ELSE pc[q]
        BY <1>3 DEF Crash
  <2>2. \A q \in Charged' : q \in Charged /\ pc[q] # "completing"
        BY <2>1 DEF Charged
  <2> QED
        BY <2>1, <2>2 DEF ChargeInv, ChargedRuns, StoredFor, Expired, Completed
<1>4. CASE Prune
      BY <1>4, PruneCharge
<1>5. CASE UNCHANGED vars
      BY <1>5 DEF vars, ChargeInv, ChargedRuns, StoredFor, Expired, Charged, Completed
<1> QED
      BY <1>1, <1>2, <1>3, <1>4, <1>5 DEF Next

\* "Retries with the same key return the stored result and never re-charge": until
\* a stale claim is taken from a request at work, of two successful runs of a key
\* one has expired, or the process died before it had stored its result, or one of
\* its statements failed.
THEOREM NeverChargedTwice == Spec => []ChargedOnce
<1>1. IInv /\ ChargeInv => ChargedOnce
  <2> SUFFICES ASSUME IInv, ChargeInv, Undisturbed, NEW q \in Charged, NEW r \in Charged,
                      ~Expired(q), ~Expired(r)
               PROVE  q = r
      BY DEF ChargedOnce, Charged, Expired
  <2>1. ASSUME NEW h \in Charged, pc[h] = "completing", held[h]
        PROVE  h \in Holders /\ Pending
        BY <2>1 DEF IInv, TypeOK, WorkersPend, Holders, Charged
  <2>2. CASE \E h \in {q, r} : pc[h] = "completing" /\ held[h]
        BY <2>1, <2>2, OthersExpired
  <2>3. CASE \A h \in {q, r} : ~(pc[h] = "completing" /\ held[h])
        BY <2>3 DEF ChargeInv, ChargedRuns, StoredFor
  <2> QED
      BY <2>2, <2>3
<1>2. Init => ChargeInv
      BY DEF Init, ChargeInv, ChargedRuns, WorkedIsPast, Charged
<1>3. IInv /\ ChargeInv /\ [Next]_vars => ChargeInv'
      BY NextCharge
<1> QED
    BY <1>1, <1>2, <1>3, Inductive, PTL DEF Spec

-----------------------------------------------------------------------------
(***************************************************************************)
(* PlanSales: that the log of an account's moves is whole, for any number  *)
(* of deliveries side by side, of sessions, replays and failures.  Nothing *)
(* below depends on the claims above.                                      *)
(***************************************************************************)

\* The deliveries that have moved the tier and not logged it yet, and how many of
\* them moved it away from a tier, and to it.
Unlogged == {w \in Workers : delivering[w] \in {"programs", "log"}}
Leaving(t) == {w \in Unlogged : seen[w] = t}
Entering(t) == {w \in Unlogged : Sale!TargetTier(doing[w]) = t}

\* A delivery at work handles an event, and one that moves the tier moves it to
\* another than it has read.
DeliveriesFit ==
    \A w \in Workers :
        /\ delivering[w] # "idle" => doing[w] \in Sale!Events
        /\ delivering[w] \in {"cas", "programs", "log"} =>
               seen[w] # Sale!TargetTier(doing[w])

\* Every move is in the log or in the hands of a delivery.
MovesBalance ==
    ~torn => \A t \in Sale!Tiers :
        Sale!From(t) + Cardinality(Leaving(t)) + Sale!Is(t, tier)
            = Sale!To(t) + Cardinality(Entering(t)) + Sale!Is(t, "free")

\* A paid account has its programs or is about to be granted them.
ProgramsFollow ==
    torn \/ tier = "free" \/ programs \/ \E w \in Workers : delivering[w] = "programs"

SaleInv ==
    /\ Sale!TypeOK
    /\ DeliveriesFit
    /\ IsFiniteSet(Unlogged)
    /\ MovesBalance
    /\ ProgramsFollow

LEMMA SaleInitially == Sale!Init => SaleInv
<1> SUFFICES ASSUME Sale!Init PROVE SaleInv
    OBVIOUS
<1>1. Sale!TypeOK
  <2>1. 0 \in 0..MaxFaults
        BY SaleParameters DEF Sale!Parameters
  <2>2. stage \in [Sessions -> {"none", "open", "pending", "succeeded"}] /\ url \subseteq Sessions
        BY SaleParameters DEF Sale!Parameters, Sale!Init
  <2> QED
      BY <2>1, <2>2 DEF Sale!Init, Sale!TypeOK, Sale!Tiers
<1>2. Unlogged = {}
      BY DEF Sale!Init, Unlogged
<1>3. /\ IsFiniteSet(Unlogged)
      /\ \A t \in Sale!Tiers : Cardinality(Leaving(t)) = 0 /\ Cardinality(Entering(t)) = 0
  <2>1. \A t \in Sale!Tiers : Leaving(t) = {} /\ Entering(t) = {}
        BY <1>2 DEF Leaving, Entering
  <2> QED
      BY <1>2, <2>1, FS_EmptySet
<1>4. \A m : Sale!Logged(m) = 0
      BY DEF Sale!Init, Sale!Logged
<1>5. MovesBalance
      BY <1>3, <1>4 DEF Sale!Init, MovesBalance, Sale!From, Sale!To
<1> QED
    BY <1>1, <1>3, <1>5 DEF Sale!Init, SaleInv, DeliveriesFit, ProgramsFollow

\* An event of PAI'D asks for a tier there is.
LEMMA TargetIsTier ==
    ASSUME NEW e \in Sale!Events
    PROVE  Sale!TargetTier(e) \in Sale!Tiers
BY DEF Sale!TargetTier, Sale!TierOf, Sale!Tiers

LEMMA SaleTypes ==
    ASSUME SaleInv, [Sale!Next]_(Sale!vars)
    PROVE  Sale!TypeOK'
<1> USE DEF Sale!TypeOK, Sale!Goto, Sale!Forget, Sale!Done, Sale!locals, Sale!account,
            Sale!purchases, Sale!outside
<1>1. Sale!TypeOK /\ DeliveriesFit
      BY DEF SaleInv
<1>2. MaxFaults \in Nat /\ (\A s \in Sessions : PlanOf[s] \in Sale!Plans)
      BY SaleParameters DEF Sale!Parameters
<1>3. ASSUME NEW w \in Workers, delivering[w] # "idle"
      PROVE  /\ doing[w] \in Sale!Events
             /\ Sale!TargetTier(doing[w]) \in Sale!Tiers
             /\ doing[w].session \in Sessions
      BY <1>1, <1>3, TargetIsTier DEF DeliveriesFit, Sale!Events
<1>4. CASE Sale!SignUp
      BY <1>1, <1>4 DEF Sale!SignUp
<1>5. ASSUME NEW s \in Sessions,
             \/ Sale!OpenSession(s) \/ Sale!RecordPending(s) \/ Sale!Answer(s)
             \/ Sale!BuyerPays(s) \/ Sale!BuyerCancels(s)
      PROVE  Sale!TypeOK'
      BY <1>1, <1>5 DEF Sale!OpenSession, Sale!RecordPending, Sale!Answer, Sale!BuyerPays,
                        Sale!BuyerCancels
<1>6. ASSUME NEW w \in Workers, NEW e \in Sale!Events, Sale!Deliver(w, e)
      PROVE  Sale!TypeOK'
  <2>1. faults' \in 0..MaxFaults
        BY <1>1, <1>2, <1>6 DEF Sale!Deliver
  <2> QED
      BY <1>1, <1>6, <2>1 DEF Sale!Deliver
<1>7. ASSUME NEW w \in Workers, Sale!Unknown(w) \/ Sale!ReadAccount(w) \/ Sale!MoveLost(w)
      PROVE  Sale!TypeOK'
      BY <1>1, <1>7 DEF Sale!Unknown, Sale!ReadAccount, Sale!MoveLost, Sale!Tiers
<1>8. ASSUME NEW w \in Workers, Sale!MoveTier(w) \/ Sale!GrantPrograms(w)
      PROVE  Sale!TypeOK'
      BY <1>1, <1>3, <1>8 DEF Sale!MoveTier, Sale!GrantPrograms
<1>9. ASSUME NEW w \in Workers, Sale!LogTierChange(w)
      PROVE  Sale!TypeOK'
  <2>1. audit' \in [Sale!Moves -> Nat]
    <3> DEFINE m == <<seen[w], Sale!TargetTier(doing[w])>>
    <3>1. audit' = [audit EXCEPT ![m] = @ + 1]
          BY <1>9 DEF Sale!LogTierChange
    <3>2. ASSUME m \in Sale!Moves
          PROVE  audit[m] + 1 \in Nat
          BY <1>1, <3>2
    <3> HIDE DEF m
    <3> QED
        BY <1>1, <3>1, <3>2
  <2> QED
      BY <1>1, <1>9, <2>1 DEF Sale!LogTierChange
<1>10. ASSUME NEW w \in Workers, Sale!SetPlan(w)
       PROVE  Sale!TypeOK'
  <2>1. delivering[w] # "idle" /\ doing[w] \in Sale!Events
        BY <1>3, <1>10 DEF Sale!SetPlan
  <2>2. plan' \in Sale!Plans \cup {NoPlan}
        BY <1>1, <1>2, <1>3, <1>10, <2>1 DEF Sale!SetPlan, Sale!MarketedPlan
  <2> QED
      BY <1>1, <1>10, <2>1, <2>2 DEF Sale!SetPlan, Sale!Tiers
<1>11. ASSUME NEW w \in Workers, Sale!Mark(w) \/ Sale!MarkNothing(w) \/ Sale!Receipt(w)
       PROVE  Sale!TypeOK'
  <2>1. delivering[w] # "idle" /\ doing[w] \in Sale!Events /\ doing[w].session \in Sessions
        BY <1>3, <1>11 DEF Sale!Mark, Sale!MarkNothing, Sale!Receipt
  <2> QED
      BY <1>1, <1>11, <2>1 DEF Sale!Mark, Sale!MarkNothing, Sale!Receipt, Sale!Tiers
<1>12. ASSUME NEW w \in Workers, Sale!BookkeepingFails(w) \/ Sale!Fail(w)
       PROVE  Sale!TypeOK'
  <2>1. delivering[w] # "idle" /\ doing[w] \in Sale!Events
        BY <1>3, <1>12 DEF Sale!BookkeepingFails, Sale!Fail
  <2>2. faults' \in 0..MaxFaults
        BY <1>1, <1>2, <1>12 DEF Sale!BookkeepingFails, Sale!Fail, Sale!Faulted
  <2>3. torn' \in BOOLEAN
        BY <1>1, <1>12 DEF Sale!BookkeepingFails, Sale!Fail, Sale!Faulted
  <2> QED
      BY <1>1, <1>12, <2>1, <2>2, <2>3 DEF Sale!BookkeepingFails, Sale!Fail, Sale!Faulted, Sale!Tiers
<1>13. CASE UNCHANGED Sale!vars
      BY <1>1, <1>13 DEF Sale!vars
<1> QED
    BY <1>4, <1>5, <1>6, <1>7, <1>8, <1>9, <1>10, <1>11, <1>12, <1>13
       DEF Sale!Next, Sale!Step

LEMMA SaleFits ==
    ASSUME SaleInv, [Sale!Next]_(Sale!vars)
    PROVE  DeliveriesFit'
<1> USE DEF DeliveriesFit, Sale!TypeOK, Sale!Goto, Sale!Forget, Sale!Done, Sale!locals
<1>1. Sale!TypeOK /\ DeliveriesFit
      BY DEF SaleInv
<1>2. CASE \/ Sale!SignUp \/ UNCHANGED Sale!vars
           \/ \E s \in Sessions :
                \/ Sale!OpenSession(s) \/ Sale!RecordPending(s) \/ Sale!Answer(s)
                \/ Sale!BuyerPays(s) \/ Sale!BuyerCancels(s)
  <2>1. UNCHANGED Sale!locals
        BY <1>2 DEF Sale!SignUp, Sale!vars, Sale!OpenSession, Sale!RecordPending, Sale!Answer,
                    Sale!BuyerPays, Sale!BuyerCancels
  <2> QED
      BY <1>1, <2>1
<1>3. ASSUME NEW w \in Workers, NEW e \in Sale!Events, Sale!Deliver(w, e)
      PROVE  DeliveriesFit'
      BY <1>1, <1>3 DEF Sale!Deliver
<1>4. ASSUME NEW w \in Workers, Sale!ReadAccount(w)
      PROVE  DeliveriesFit'
      BY <1>1, <1>4 DEF Sale!ReadAccount
<1>5. ASSUME NEW w \in Workers, Sale!Step(w), ~Sale!ReadAccount(w)
      PROVE  DeliveriesFit'
  <2>1. CASE \/ Sale!Unknown(w) \/ Sale!MoveTier(w) \/ Sale!MoveLost(w)
             \/ Sale!GrantPrograms(w) \/ Sale!LogTierChange(w)
        BY <1>1, <2>1 DEF Sale!Unknown, Sale!MoveTier, Sale!MoveLost, Sale!GrantPrograms,
                          Sale!LogTierChange
  <2>2. CASE \/ Sale!SetPlan(w) \/ Sale!Mark(w) \/ Sale!MarkNothing(w) \/ Sale!Receipt(w)
        BY <1>1, <2>2 DEF Sale!SetPlan, Sale!Mark, Sale!MarkNothing, Sale!Receipt
  <2> QED
      BY <1>5, <2>1, <2>2 DEF Sale!Step
<1>6. ASSUME NEW w \in Workers, Sale!BookkeepingFails(w) \/ Sale!Fail(w)
      PROVE  DeliveriesFit'
      BY <1>1, <1>6 DEF Sale!BookkeepingFails, Sale!Fail
<1> QED
    BY <1>2, <1>3, <1>4, <1>5, <1>6 DEF Sale!Next

\* A count moves with the deliveries it counts.
LEMMA OneMoreUnlogged ==
    ASSUME NEW w \in Workers, IsFiniteSet(Unlogged), w \notin Unlogged,
           Unlogged' = Unlogged \cup {w}, seen' = seen, doing' = doing
    PROVE  /\ IsFiniteSet(Unlogged')
           /\ \A t : /\ Cardinality(Leaving(t)') = Cardinality(Leaving(t)) + Sale!Is(t, seen[w])
                     /\ Cardinality(Entering(t)')
                            = Cardinality(Entering(t)) + Sale!Is(t, Sale!TargetTier(doing[w]))
<1>1. IsFiniteSet(Unlogged')
      BY FS_AddElement
<1>2. ASSUME NEW t
      PROVE  Cardinality(Leaving(t)') = Cardinality(Leaving(t)) + Sale!Is(t, seen[w])
  <2>1. IsFiniteSet(Leaving(t)) /\ Cardinality(Leaving(t)) \in Nat /\ w \notin Leaving(t)
        BY FS_Subset, FS_CardinalityType DEF Leaving
  <2>2. Leaving(t)' = IF seen[w] = t THEN Leaving(t) \cup {w} ELSE Leaving(t)
        BY DEF Leaving
  <2>3. Cardinality(Leaving(t) \cup {w}) = Cardinality(Leaving(t)) + 1
        BY <2>1, FS_AddElement
  <2> QED
      BY <2>1, <2>2, <2>3 DEF Sale!Is
<1>3. ASSUME NEW t
      PROVE  Cardinality(Entering(t)')
                 = Cardinality(Entering(t)) + Sale!Is(t, Sale!TargetTier(doing[w]))
  <2>1. IsFiniteSet(Entering(t)) /\ Cardinality(Entering(t)) \in Nat /\ w \notin Entering(t)
        BY FS_Subset, FS_CardinalityType DEF Entering
  <2>2. Entering(t)' = IF Sale!TargetTier(doing[w]) = t THEN Entering(t) \cup {w}
                                                        ELSE Entering(t)
        BY DEF Entering
  <2>3. Cardinality(Entering(t) \cup {w}) = Cardinality(Entering(t)) + 1
        BY <2>1, FS_AddElement
  <2> QED
      BY <2>1, <2>2, <2>3 DEF Sale!Is
<1> QED
    BY <1>1, <1>2, <1>3

LEMMA OneLessUnlogged ==
    ASSUME NEW w \in Unlogged, IsFiniteSet(Unlogged),
           Unlogged' = Unlogged \ {w},
           \A v \in Unlogged' : seen'[v] = seen[v] /\ doing'[v] = doing[v]
    PROVE  /\ IsFiniteSet(Unlogged')
           /\ \A t : /\ Cardinality(Leaving(t)) = Cardinality(Leaving(t)') + Sale!Is(t, seen[w])
                     /\ Cardinality(Entering(t))
                            = Cardinality(Entering(t)') + Sale!Is(t, Sale!TargetTier(doing[w]))
<1>1. IsFiniteSet(Unlogged')
      BY FS_RemoveElement
<1>2. ASSUME NEW t
      PROVE  Cardinality(Leaving(t)) = Cardinality(Leaving(t)') + Sale!Is(t, seen[w])
  <2>1. IsFiniteSet(Leaving(t)') /\ Cardinality(Leaving(t)') \in Nat /\ w \notin Leaving(t)'
        BY <1>1, FS_Subset, FS_CardinalityType DEF Leaving
  <2>2. Leaving(t) = IF seen[w] = t THEN Leaving(t)' \cup {w} ELSE Leaving(t)'
        BY DEF Leaving
  <2>3. Cardinality(Leaving(t)' \cup {w}) = Cardinality(Leaving(t)') + 1
        BY <2>1, FS_AddElement
  <2> QED
      BY <2>1, <2>2, <2>3 DEF Sale!Is
<1>3. ASSUME NEW t
      PROVE  Cardinality(Entering(t))
                 = Cardinality(Entering(t)') + Sale!Is(t, Sale!TargetTier(doing[w]))
  <2>1. IsFiniteSet(Entering(t)') /\ Cardinality(Entering(t)') \in Nat /\ w \notin Entering(t)'
        BY <1>1, FS_Subset, FS_CardinalityType DEF Entering
  <2>2. Entering(t) = IF Sale!TargetTier(doing[w]) = t THEN Entering(t)' \cup {w}
                                                       ELSE Entering(t)'
        BY DEF Entering
  <2>3. Cardinality(Entering(t)' \cup {w}) = Cardinality(Entering(t)') + 1
        BY <2>1, FS_AddElement
  <2> QED
      BY <2>1, <2>2, <2>3 DEF Sale!Is
<1> QED
    BY <1>1, <1>2, <1>3

\* A move that is logged counts once from the tier it left and once to the other.
LEMMA LogCounts ==
    ASSUME audit \in [Sale!Moves -> Nat],
           NEW a \in Sale!Tiers, NEW b \in Sale!Tiers, a # b,
           audit' = [audit EXCEPT ![<<a, b>>] = @ + 1]
    PROVE  \A t \in Sale!Tiers : /\ Sale!From(t) \in Nat /\ Sale!To(t) \in Nat
                                 /\ Sale!From(t)' = Sale!From(t) + Sale!Is(t, a)
                                 /\ Sale!To(t)' = Sale!To(t) + Sale!Is(t, b)
<1>1. <<a, b>> \in Sale!Moves
      BY DEF Sale!Moves
<1>2. \A m : Sale!Logged(m) \in Nat
      BY DEF Sale!Logged
<1>3. Sale!Logged(<<a, b>>)' = Sale!Logged(<<a, b>>) + 1
      BY <1>1 DEF Sale!Logged
<1>4. ASSUME NEW c, NEW d, c # a \/ d # b
      PROVE  Sale!Logged(<<c, d>>)' = Sale!Logged(<<c, d>>)
  <2>1. <<c, d>> # <<a, b>>
        BY <1>4
  <2> QED
      BY <1>1, <2>1 DEF Sale!Logged
<1>5. ASSUME NEW t \in Sale!Tiers
      PROVE  /\ Sale!From(t) \in Nat /\ Sale!From(t)' = Sale!From(t) + Sale!Is(t, a)
  <2>1. CASE t = a
        BY <1>2, <1>3, <1>4, <2>1 DEF Sale!From, Sale!Is, Sale!Tiers
  <2>2. CASE t # a
        BY <1>2, <1>4, <2>2 DEF Sale!From, Sale!Is
  <2> QED
      BY <2>1, <2>2
<1>6. ASSUME NEW t \in Sale!Tiers
      PROVE  /\ Sale!To(t) \in Nat /\ Sale!To(t)' = Sale!To(t) + Sale!Is(t, b)
  <2>1. CASE t = b
        BY <1>2, <1>3, <1>4, <2>1 DEF Sale!To, Sale!Is, Sale!Tiers
  <2>2. CASE t # b
        BY <1>2, <1>4, <2>2 DEF Sale!To, Sale!Is
  <2> QED
      BY <2>1, <2>2
<1> QED
    BY <1>5, <1>6

\* What the log and the deliveries on the way to it say does not change.
SaleStill ==
    /\ Unlogged' = Unlogged
    /\ \A w \in Unlogged : seen'[w] = seen[w] /\ doing'[w] = doing[w]
    /\ UNCHANGED <<tier, audit, torn>>

LEMMA StillBalanced ==
    ASSUME SaleInv, SaleStill
    PROVE  IsFiniteSet(Unlogged)' /\ MovesBalance'
<1>1. \A t : Leaving(t)' = Leaving(t) /\ Entering(t)' = Entering(t)
      BY DEF SaleStill, Leaving, Entering
<1>2. \A t : Sale!From(t)' = Sale!From(t) /\ Sale!To(t)' = Sale!To(t)
      BY DEF SaleStill, Sale!From, Sale!To, Sale!Logged
<1>3. tier' = tier /\ torn' = torn /\ IsFiniteSet(Unlogged)'
      BY DEF SaleInv, SaleStill
<1> QED
    BY <1>1, <1>2, <1>3 DEF SaleInv, MovesBalance

LEMMA MoveBalances ==
    ASSUME SaleInv, NEW w \in Workers, Sale!MoveTier(w)
    PROVE  IsFiniteSet(Unlogged)' /\ MovesBalance'
<1> DEFINE a == seen[w]  b == Sale!TargetTier(doing[w])
<1>1. /\ Sale!TypeOK /\ IsFiniteSet(Unlogged)
      /\ doing[w] \in Sale!Events /\ delivering[w] = "cas"
      BY DEF SaleInv, DeliveriesFit, Sale!MoveTier
<1>2. w \notin Unlogged /\ Unlogged' = Unlogged \cup {w}
      BY <1>1 DEF Sale!MoveTier, Sale!Goto, Sale!TypeOK, Unlogged
<1>3. /\ seen' = seen /\ doing' = doing /\ audit' = audit /\ torn' = torn
      /\ tier = a /\ tier' = b
      BY DEF Sale!MoveTier, Sale!Goto, Sale!TierStands
<1>4. /\ IsFiniteSet(Unlogged')
      /\ \A t : /\ Cardinality(Leaving(t)') = Cardinality(Leaving(t)) + Sale!Is(t, a)
                /\ Cardinality(Entering(t)') = Cardinality(Entering(t)) + Sale!Is(t, b)
      BY <1>1, <1>2, <1>3, OneMoreUnlogged
<1>5. \A t : Sale!From(t)' = Sale!From(t) /\ Sale!To(t)' = Sale!To(t)
      BY <1>3 DEF Sale!From, Sale!To, Sale!Logged
<1>6. ASSUME ~torn, NEW t \in Sale!Tiers
      PROVE  Sale!From(t)' + Cardinality(Leaving(t)') + Sale!Is(t, b)
                 = Sale!To(t)' + Cardinality(Entering(t)') + Sale!Is(t, "free")
  <2>1. Sale!From(t) + Cardinality(Leaving(t)) + Sale!Is(t, a)
            = Sale!To(t) + Cardinality(Entering(t)) + Sale!Is(t, "free")
        BY <1>3, <1>6 DEF SaleInv, MovesBalance
  <2>2. /\ Sale!From(t) \in Nat /\ Sale!To(t) \in Nat
        /\ Cardinality(Leaving(t)) \in Nat /\ Cardinality(Entering(t)) \in Nat
    <3>1. Sale!From(t) \in Nat /\ Sale!To(t) \in Nat
          BY <1>1 DEF Sale!From, Sale!To, Sale!Logged, Sale!TypeOK
    <3>2. IsFiniteSet(Leaving(t)) /\ IsFiniteSet(Entering(t))
          BY <1>1, FS_Subset DEF Leaving, Entering
    <3> QED
        BY <3>1, <3>2, FS_CardinalityType
  <2>3. \A u \in {a, b, "free"} : Sale!Is(t, u) \in Nat
        BY DEF Sale!Is
  <2> QED
      BY <1>4, <1>5, <2>1, <2>2, <2>3
<1> HIDE DEF a, b
<1> QED
    BY <1>3, <1>4, <1>6 DEF MovesBalance, Sale!Is

LEMMA LogBalances ==
    ASSUME SaleInv, NEW w \in Workers, Sale!LogTierChange(w)
    PROVE  IsFiniteSet(Unlogged)' /\ MovesBalance'
<1> DEFINE a == seen[w]  b == Sale!TargetTier(doing[w])
<1>1. /\ Sale!TypeOK /\ IsFiniteSet(Unlogged)
      /\ doing[w] \in Sale!Events /\ delivering[w] = "log" /\ a # b
      BY DEF SaleInv, DeliveriesFit, Sale!LogTierChange
<1>2. w \in Unlogged /\ Unlogged' = Unlogged \ {w}
      BY <1>1 DEF Sale!LogTierChange, Sale!Goto, Sale!TypeOK, Unlogged
<1>3. /\ seen' = seen /\ doing' = doing /\ tier' = tier /\ torn' = torn
      /\ audit' = [audit EXCEPT ![<<a, b>>] = @ + 1]
      BY DEF Sale!LogTierChange, Sale!Goto
<1>4. /\ IsFiniteSet(Unlogged')
      /\ \A t : /\ Cardinality(Leaving(t)) = Cardinality(Leaving(t)') + Sale!Is(t, a)
                /\ Cardinality(Entering(t)) = Cardinality(Entering(t)') + Sale!Is(t, b)
      BY <1>1, <1>2, <1>3, OneLessUnlogged
<1>5. a \in Sale!Tiers /\ b \in Sale!Tiers /\ audit \in [Sale!Moves -> Nat]
      BY <1>1, TargetIsTier DEF Sale!TypeOK
<1>6. \A t \in Sale!Tiers : /\ Sale!From(t) \in Nat /\ Sale!To(t) \in Nat
                            /\ Sale!From(t)' = Sale!From(t) + Sale!Is(t, a)
                            /\ Sale!To(t)' = Sale!To(t) + Sale!Is(t, b)
  <2> HIDE DEF a, b
  <2> QED
      BY <1>1, <1>3, <1>5, LogCounts
<1>7. ASSUME ~torn, NEW t \in Sale!Tiers
      PROVE  Sale!From(t)' + Cardinality(Leaving(t)') + Sale!Is(t, tier)
                 = Sale!To(t)' + Cardinality(Entering(t)') + Sale!Is(t, "free")
  <2>1. Sale!From(t) + Cardinality(Leaving(t)) + Sale!Is(t, tier)
            = Sale!To(t) + Cardinality(Entering(t)) + Sale!Is(t, "free")
        BY <1>3, <1>7 DEF SaleInv, MovesBalance
  <2>2. Cardinality(Leaving(t)') \in Nat /\ Cardinality(Entering(t)') \in Nat
    <3>1. IsFiniteSet(Leaving(t)') /\ IsFiniteSet(Entering(t)')
          BY <1>4, FS_Subset DEF Leaving, Entering
    <3> QED
        BY <3>1, FS_CardinalityType
  <2>3. \A u : Sale!Is(t, u) \in Nat
        BY DEF Sale!Is
  <2> QED
      BY <1>4, <1>6, <2>1, <2>2, <2>3
<1> HIDE DEF a, b
<1> QED
    BY <1>3, <1>4, <1>7 DEF MovesBalance, Sale!Is

\* Every other step leaves the log as it is, or a delivery fails half way.
LEMMA OthersBalance ==
    ASSUME SaleInv, [Sale!Next]_(Sale!vars),
           ~ \E w \in Workers : Sale!MoveTier(w) \/ Sale!LogTierChange(w)
    PROVE  IsFiniteSet(Unlogged)' /\ MovesBalance'
<1> USE DEF Sale!TypeOK, Sale!Goto, Sale!Forget, Sale!Done, Sale!locals, Sale!account,
            Unlogged
<1>1. Sale!TypeOK /\ IsFiniteSet(Unlogged)
      BY DEF SaleInv
<1>2. CASE \/ Sale!SignUp \/ UNCHANGED Sale!vars
           \/ \E s \in Sessions :
                \/ Sale!OpenSession(s) \/ Sale!RecordPending(s) \/ Sale!Answer(s)
                \/ Sale!BuyerPays(s) \/ Sale!BuyerCancels(s)
  <2>1. SaleStill
        BY <1>2 DEF Sale!SignUp, Sale!vars, Sale!OpenSession, Sale!RecordPending, Sale!Answer,
                    Sale!BuyerPays, Sale!BuyerCancels, SaleStill
  <2> QED
      BY <2>1, StillBalanced
<1>3. ASSUME NEW w \in Workers, NEW e \in Sale!Events, Sale!Deliver(w, e)
      PROVE  IsFiniteSet(Unlogged)' /\ MovesBalance'
  <2>1. SaleStill
        BY <1>1, <1>3 DEF Sale!Deliver, SaleStill
  <2> QED
      BY <2>1, StillBalanced
<1>4. ASSUME NEW w \in Workers, Sale!Step(w)
      PROVE  IsFiniteSet(Unlogged)' /\ MovesBalance'
  <2>1. CASE \/ Sale!Unknown(w) \/ Sale!ReadAccount(w) \/ Sale!MoveLost(w)
             \/ Sale!GrantPrograms(w)
    <3>1. SaleStill
          BY <1>1, <2>1 DEF Sale!Unknown, Sale!ReadAccount, Sale!MoveLost, Sale!GrantPrograms,
                            SaleStill
    <3> QED
        BY <3>1, StillBalanced
  <2>2. CASE \/ Sale!SetPlan(w) \/ Sale!Mark(w) \/ Sale!MarkNothing(w) \/ Sale!Receipt(w)
    <3>1. SaleStill
          BY <1>1, <2>2 DEF Sale!SetPlan, Sale!Mark, Sale!MarkNothing, Sale!Receipt, SaleStill
    <3> QED
        BY <3>1, StillBalanced
  <2> QED
      BY <1>4, <2>1, <2>2 DEF Sale!Step
<1>5. ASSUME NEW w \in Workers, Sale!BookkeepingFails(w) \/ Sale!Fail(w), w \notin Unlogged
      PROVE  IsFiniteSet(Unlogged)' /\ MovesBalance'
  <2>1. SaleStill
        BY <1>1, <1>5 DEF Sale!BookkeepingFails, Sale!Fail, Sale!Faulted, SaleStill
  <2> QED
      BY <2>1, StillBalanced
<1>6. ASSUME NEW w \in Workers, Sale!BookkeepingFails(w) \/ Sale!Fail(w), w \in Unlogged
      PROVE  IsFiniteSet(Unlogged)' /\ MovesBalance'
  <2>1. torn' /\ Unlogged' = Unlogged \ {w}
        BY <1>1, <1>6 DEF Sale!BookkeepingFails, Sale!Fail, Sale!Faulted
  <2>2. IsFiniteSet(Unlogged \ {w})
        BY <1>1, FS_RemoveElement
  <2>3. IsFiniteSet(Unlogged)'
        BY <2>1, <2>2
  <2> QED
      BY <2>1, <2>3 DEF MovesBalance
<1> QED
    BY <1>2, <1>3, <1>4, <1>5, <1>6 DEF Sale!Next

LEMMA SalePrograms ==
    ASSUME SaleInv, [Sale!Next]_(Sale!vars)
    PROVE  ProgramsFollow'
<1> USE DEF Sale!TypeOK, Sale!Goto, Sale!Forget, Sale!Done, Sale!locals, Sale!account,
            ProgramsFollow
<1>1. Sale!TypeOK /\ ProgramsFollow
      BY DEF SaleInv
<1>2. CASE \/ Sale!SignUp \/ UNCHANGED Sale!vars
           \/ \E s \in Sessions :
                \/ Sale!OpenSession(s) \/ Sale!RecordPending(s) \/ Sale!Answer(s)
                \/ Sale!BuyerPays(s) \/ Sale!BuyerCancels(s)
      BY <1>1, <1>2 DEF Sale!SignUp, Sale!vars, Sale!OpenSession, Sale!RecordPending,
                        Sale!Answer, Sale!BuyerPays, Sale!BuyerCancels
<1>3. ASSUME NEW w \in Workers, NEW e \in Sale!Events, Sale!Deliver(w, e)
      PROVE  ProgramsFollow'
      BY <1>1, <1>3 DEF Sale!Deliver
<1>4. ASSUME NEW w \in Workers, Sale!Step(w)
      PROVE  ProgramsFollow'
  <2>1. CASE Sale!MoveTier(w)
        BY <1>1, <2>1 DEF Sale!MoveTier
  <2>2. CASE Sale!GrantPrograms(w)
        BY <2>2 DEF Sale!GrantPrograms
  <2>3. CASE Sale!Unknown(w) \/ Sale!ReadAccount(w) \/ Sale!MoveLost(w) \/ Sale!LogTierChange(w)
        BY <1>1, <2>3 DEF Sale!Unknown, Sale!ReadAccount, Sale!MoveLost, Sale!LogTierChange
  <2>4. CASE Sale!SetPlan(w) \/ Sale!Mark(w) \/ Sale!MarkNothing(w) \/ Sale!Receipt(w)
        BY <1>1, <2>4 DEF Sale!SetPlan, Sale!Mark, Sale!MarkNothing, Sale!Receipt
  <2> QED
      BY <1>4, <2>1, <2>2, <2>3, <2>4 DEF Sale!Step
<1>5. ASSUME NEW w \in Workers, Sale!BookkeepingFails(w) \/ Sale!Fail(w)
      PROVE  ProgramsFollow'
      BY <1>1, <1>5 DEF Sale!BookkeepingFails, Sale!Fail, Sale!Faulted
<1> QED
    BY <1>2, <1>3, <1>4, <1>5 DEF Sale!Next

LEMMA SaleStep == SaleInv /\ [Sale!Next]_(Sale!vars) => SaleInv'
<1> SUFFICES ASSUME SaleInv, [Sale!Next]_(Sale!vars) PROVE SaleInv'
    OBVIOUS
<1>1. IsFiniteSet(Unlogged)' /\ MovesBalance'
      BY MoveBalances, LogBalances, OthersBalance
<1> QED
    BY <1>1, SaleTypes, SaleFits, SalePrograms DEF SaleInv

\* The inductive invariant of the plan sales.
THEOREM SaleSpecInv == SaleSpec => []SaleInv
<1>1. Sale!Init => SaleInv
      BY SaleInitially
<1>2. SaleInv /\ [Sale!Next]_(Sale!vars) => SaleInv'
      BY SaleStep
<1> QED
    BY <1>1, <1>2, PTL DEF SaleSpec, Sale!Spec

\* The variables keep their types.
THEOREM SaleTypeCorrect == SaleSpec => []SaleTypeOK
<1>1. SaleInv => SaleTypeOK
      BY DEF SaleInv, SaleTypeOK
<1> QED
    BY <1>1, SaleSpecInv, PTL

\* With no delivery under way and none failed half way, the moves in tier_changes
\* lead from free to the account's tier, and a paid account has its programs.
THEOREM MovesStayWhole == SaleSpec => []MovesAreWhole
<1>1. ASSUME SaleInv PROVE MovesAreWhole
  <2> SUFFICES ASSUME Sale!Quiet, ~torn
               PROVE  /\ \A t \in Sale!Tiers :
                          Sale!From(t) + Sale!Is(t, tier) = Sale!To(t) + Sale!Is(t, "free")
                      /\ tier # "free" => programs
      BY DEF MovesAreWhole, Sale!MovesAreWhole
  <2>1. \A t : Leaving(t) = {} /\ Entering(t) = {}
        BY DEF Sale!Quiet, Unlogged, Leaving, Entering
  <2>2. ASSUME NEW t \in Sale!Tiers
        PROVE  Sale!From(t) + Sale!Is(t, tier) = Sale!To(t) + Sale!Is(t, "free")
    <3>1. Cardinality(Leaving(t)) = 0 /\ Cardinality(Entering(t)) = 0
          BY <2>1, FS_EmptySet
    <3>2. Sale!From(t) \in Nat /\ Sale!To(t) \in Nat
          BY <1>1 DEF SaleInv, Sale!From, Sale!To, Sale!Logged, Sale!TypeOK
    <3>3. Sale!From(t) + Cardinality(Leaving(t)) + Sale!Is(t, tier)
              = Sale!To(t) + Cardinality(Entering(t)) + Sale!Is(t, "free")
          BY <1>1 DEF SaleInv, MovesBalance
    <3> QED
        BY <3>1, <3>2, <3>3
  <2>3. tier # "free" => programs
        BY <1>1 DEF SaleInv, ProgramsFollow, Sale!Quiet
  <2> QED
      BY <2>2, <2>3
<1> QED
    BY <1>1, SaleSpecInv, PTL
\* A receipt is written for a session that succeeded, by the one delivery that
\* settled it.
BookedByOne ==
    /\ \A s \in Sessions : /\ receipts[s] <= 1
                           /\ receipts[s] > 0 => stage[s] = "succeeded"
    /\ \A v \in Workers : delivering[v] = "receipt" =>
           /\ stage[doing[v].session] = "succeeded" /\ receipts[doing[v].session] = 0
           /\ \A w \in Workers : delivering[w] = "receipt" /\ doing[w].session = doing[v].session
                                     => v = w

LEMMA BookingStaysWithOne ==
    ASSUME SaleInv, BookedByOne, [Sale!Next]_(Sale!vars)
    PROVE  BookedByOne'
<1> USE DEF Sale!TypeOK, Sale!Goto, Sale!Forget, Sale!Done, Sale!locals, Sale!account,
            Sale!purchases, Sale!outside, BookedByOne
<1>1. /\ Sale!TypeOK /\ BookedByOne
      /\ \A w \in Workers : delivering[w] # "idle" => doing[w].session \in Sessions
      BY DEF SaleInv, DeliveriesFit, Sale!Events
<1>2. CASE Sale!SignUp \/ UNCHANGED Sale!vars
      BY <1>1, <1>2 DEF Sale!SignUp, Sale!vars
<1>3. ASSUME NEW s \in Sessions,
             \/ Sale!OpenSession(s) \/ Sale!RecordPending(s) \/ Sale!Answer(s)
             \/ Sale!BuyerPays(s) \/ Sale!BuyerCancels(s)
      PROVE  BookedByOne'
      BY <1>1, <1>3 DEF Sale!OpenSession, Sale!RecordPending, Sale!Answer, Sale!BuyerPays,
                        Sale!BuyerCancels
<1>4. ASSUME NEW w \in Workers, NEW e \in Sale!Events, Sale!Deliver(w, e)
      PROVE  BookedByOne'
      BY <1>1, <1>4 DEF Sale!Deliver
<1>5. ASSUME NEW w \in Workers,
             \/ Sale!Unknown(w) \/ Sale!ReadAccount(w) \/ Sale!MoveTier(w) \/ Sale!MoveLost(w)
             \/ Sale!GrantPrograms(w) \/ Sale!LogTierChange(w)
      PROVE  BookedByOne'
      BY <1>1, <1>5 DEF Sale!Unknown, Sale!ReadAccount, Sale!MoveTier, Sale!MoveLost,
                        Sale!GrantPrograms, Sale!LogTierChange
<1>6. ASSUME NEW w \in Workers, Sale!SetPlan(w) \/ Sale!MarkNothing(w)
      PROVE  BookedByOne'
      BY <1>1, <1>6 DEF Sale!SetPlan, Sale!MarkNothing
<1>7. ASSUME NEW w \in Workers, Sale!Mark(w)
      PROVE  BookedByOne'
      BY <1>1, <1>7 DEF Sale!Mark, Sale!Settles
<1>8. ASSUME NEW w \in Workers, Sale!Receipt(w)
      PROVE  BookedByOne'
      BY <1>1, <1>8 DEF Sale!Receipt
<1>9. ASSUME NEW w \in Workers, Sale!BookkeepingFails(w) \/ Sale!Fail(w)
      PROVE  BookedByOne'
      BY <1>1, <1>9 DEF Sale!BookkeepingFails, Sale!Fail, Sale!Faulted
<1> QED
    BY <1>2, <1>3, <1>4, <1>5, <1>6, <1>7, <1>8, <1>9 DEF Sale!Next, Sale!Step

\* However often PAI'D delivers a checkout, and side by side, the revenue of its
\* session is booked once at most.
THEOREM SessionsBookedOnce == SaleSpec => [](\A s \in Sessions : receipts[s] <= 1)
<1>1. Sale!Init => BookedByOne
      BY DEF Sale!Init, BookedByOne
<1>2. SaleInv /\ BookedByOne /\ [Sale!Next]_(Sale!vars) => BookedByOne'
      BY BookingStaysWithOne
<1>3. BookedByOne => \A s \in Sessions : receipts[s] <= 1
      BY DEF BookedByOne
<1> QED
    BY <1>1, <1>2, <1>3, SaleSpecInv, PTL DEF SaleSpec, Sale!Spec
=============================================================================
