--------------------------- MODULE DisputesProofs ----------------------------
(***************************************************************************)
(* What holds of a dispute for any number of requests, accounts, events    *)
(* and failures: the types; that the ledger explains every state the row   *)
(* shows; that claims are not erased; that the row implements the          *)
(* lifecycle, keeps its owner and ends where Stripe has decided, until a   *)
(* request writes over another.                                            *)
(***************************************************************************)
EXTENDS Disputes, TLAPS

(* The graph *)

OpenStates == States \ TerminalStates

Closed(S) == \A u \in S : Transitions[u] \subseteq S

\* A state is reached from s if every closed set around s's successors has it.
LEMMA LaterDef ==
    ASSUME NEW s \in States
    PROVE  /\ Later[s] \subseteq States
           /\ \A t \in States : t \in Later[s]
                <=> \A S \in SUBSET States : Transitions[s] \subseteq S /\ Closed(S) => t \in S
BY DEF Later, Closed

LEMMA TransitionsDef ==
    /\ Transitions["needs_response"] = {"evidence_assembling", "accepted", "warning_closed"}
    /\ Transitions["evidence_assembling"] = {"evidence_submitted", "accepted"}
    /\ Transitions["evidence_submitted"] = {"under_review"}
    /\ Transitions["under_review"] = {"won", "lost", "warning_closed"}
    /\ \A s \in TerminalStates : Transitions[s] = {}
BY DEF Transitions, States, TerminalStates

LEMMA TransitionsInStates ==
    ASSUME NEW s \in States
    PROVE  Transitions[s] \subseteq States
BY TransitionsDef DEF States, TerminalStates

LEMMA StepIsLater ==
    ASSUME NEW s \in States
    PROVE  Transitions[s] \subseteq Later[s]
BY LaterDef, TransitionsInStates

LEMMA LaterTransitive ==
    ASSUME NEW s \in States, NEW t \in Later[s]
    PROVE  Later[t] \subseteq Later[s]
<1>1. t \in States
      BY LaterDef
<1> SUFFICES ASSUME NEW u \in Later[t],
                    NEW S \in SUBSET States, Transitions[s] \subseteq S, Closed(S)
             PROVE  u \in S
    BY <1>1, LaterDef
<1>2. t \in S
      BY LaterDef
<1>3. Transitions[t] \subseteq S
      BY <1>2 DEF Closed
<1> QED
    BY <1>1, <1>3, LaterDef

LEMMA TerminalIsLast ==
    ASSUME NEW s \in TerminalStates
    PROVE  Later[s] = {}
<1>1. s \in States /\ Transitions[s] = {}
      BY TransitionsDef DEF States
<1>2. Closed({}) /\ {} \in SUBSET States
      BY DEF Closed
<1> QED
    BY <1>1, <1>2, LaterDef

\* Once the evidence is in, a dispute can be won, lost or dropped, and not accepted.
LEMMA LaterThanEvidence ==
    ASSUME NEW s \in {"evidence_submitted", "under_review"}
    PROVE  Later[s] \subseteq {"under_review", "won", "lost", "warning_closed"}
<1> DEFINE S == {"under_review", "won", "lost", "warning_closed"}
<1>1. s \in States /\ S \in SUBSET States
      BY DEF States, TerminalStates
<1>2. Transitions[s] \subseteq S /\ Closed(S)
      BY TransitionsDef DEF Closed, TerminalStates
<1> QED
    BY <1>1, <1>2, LaterDef

\* Every outcome is reached from every open state, but for a refund once the
\* evidence is in.
LEMMA OutcomesAreLater ==
    ASSUME NEW s \in OpenStates
    PROVE  /\ {"won", "lost", "warning_closed"} \subseteq Later[s]
           /\ s \notin {"evidence_submitted", "under_review"} => "accepted" \in Later[s]
<1> USE DEF OpenStates, States, TerminalStates
<1>1. {"won", "lost", "warning_closed"} \subseteq Later["under_review"]
      BY TransitionsDef, StepIsLater
<1>2. {"won", "lost", "warning_closed"} \subseteq Later["evidence_submitted"]
      BY <1>1, TransitionsDef, StepIsLater, LaterTransitive
<1>3. {"won", "lost", "warning_closed", "accepted"} \subseteq Later["evidence_assembling"]
      BY <1>2, TransitionsDef, StepIsLater, LaterTransitive
<1>4. {"won", "lost", "warning_closed", "accepted"} \subseteq Later["needs_response"]
      BY <1>3, TransitionsDef, StepIsLater, LaterTransitive
<1> QED
    BY <1>1, <1>2, <1>3, <1>4

\* The first hop of a walk is an edge, and the rest of the walk leads on from it.
LEMMA NextHopIsStep ==
    ASSUME NEW s \in States, NEW t \in Later[s]
    PROVE  /\ NextHop(s, t) \in Transitions[s]
           /\ NextHop(s, t) = t \/ t \in Later[NextHop(s, t)]
<1>1. CASE t \in Transitions[s]
      BY <1>1 DEF NextHop
<1>2. CASE t \notin Transitions[s]
  <2> DEFINE S == Transitions[s] \cup {v \in States : \E u \in Transitions[s] : v \in Later[u]}
  <2>1. S \in SUBSET States /\ Transitions[s] \subseteq S
        BY TransitionsInStates
  <2>2. Closed(S)
    <3> SUFFICES ASSUME NEW v \in S, NEW w \in Transitions[v]
                 PROVE  w \in S
        BY DEF Closed
    <3>1. v \in States /\ w \in States
          BY TransitionsInStates
    <3>2. CASE v \in Transitions[s]
          BY <3>1, <3>2, StepIsLater
    <3>3. ASSUME NEW u \in Transitions[s], v \in Later[u]
          PROVE  w \in S
      <4>1. u \in States
            BY TransitionsInStates
      <4>2. w \in Later[u]
            BY <3>1, <3>3, <4>1, StepIsLater, LaterTransitive
      <4> QED
          BY <3>1, <4>2
    <3> QED
        BY <3>2, <3>3
  <2>3. \E u \in Transitions[s] : t \in Later[u]
        BY <1>2, <2>1, <2>2, LaterDef
  <2> QED
      BY <1>2, <2>3 DEF NextHop
<1> QED
    BY <1>1, <1>2

\* A walk ends in its target and passes open states only.
LEMMA NextHopIsOpenOrTarget ==
    ASSUME NEW s \in States, NEW t \in Later[s]
    PROVE  NextHop(s, t) \in OpenStates \cup {t}
BY NextHopIsStep, TransitionsInStates, TerminalIsLast DEF OpenStates

LEMMA NextHopIsLater ==
    ASSUME NEW s \in States, NEW t \in Later[s]
    PROVE  NextHop(s, t) \in Later[s] \cap States
BY NextHopIsStep, StepIsLater, TransitionsInStates

-----------------------------------------------------------------------------
(* Types, and what a request knows where it is *)

EventTypes == {"created", "updated", "closed"}
HoldsRecord == {"refresh", "claim", "walk", "submit", "report"}

WorkInv(h) ==
    /\ pc[h] = "idle" => doing[h] = NoWork
    /\ doing[h] \in Events => doing[h] \in sent
    /\ pc[h] = "read" => Kind(h) # "none"
    /\ pc[h] = "insert" => Kind(h) \in EventTypes /\ held[h] = NoRow
    /\ pc[h] \in {"refresh", "reread"} => Kind(h) = "updated"
    /\ pc[h] = "walk" => Kind(h) \in {"updated", "closed", "assemble"}
    /\ pc[h] \in {"claim", "submit", "report"} => Kind(h) = "assemble"
    /\ pc[h] = "reread" => row.state \in States
    /\ pc[h] \in HoldsRecord => /\ held[h].state \in States
                                /\ current[h] \in {held[h].state} \cup Later[held[h].state]
    /\ pc[h] \in {"refresh", "claim", "submit"} => current[h] = held[h].state

RowInv == row.state = "absent" => row = NoRow

IInv == TypeOK /\ RowInv /\ \A h \in Workers : WorkInv(h)

\* The part of TypeOK that Goto and Done are about.
LocalsTyped ==
    /\ pc \in [Workers -> Stages]
    /\ doing \in [Workers -> Events \cup Calls \cup {NoWork}]
    /\ held \in [Workers -> Records]
    /\ current \in [Workers -> States \cup {"absent"}]
    /\ acked \subseteq sent

RestTyped ==
    /\ row \in Records
    /\ ledger \subseteq States \X States
    /\ status \in StripeStatuses \cup {"none"}
    /\ sent \subseteq Events
    /\ faults \in 0..MaxFaults
    /\ opened \subseteq States
    /\ overlapped \in BOOLEAN

LEMMA TypeOKParts == TypeOK <=> LocalsTyped /\ RestTyped
BY DEF TypeOK, LocalsTyped, RestTyped

LEMMA AbsentIsNoState == "absent" \notin States /\ NoRow \in Records
BY DEF States, TerminalStates, NoRow, Records

LEMMA WorkIsTyped ==
    ASSUME TypeOK, NEW h \in Workers
    PROVE  /\ Kind(h) \in EventTypes => doing[h] \in Events /\ doing[h].status \in StripeStatuses
           /\ Kind(h) = "assemble" => doing[h] \in Calls /\ doing[h].by \in Accounts
           /\ Kind(h) \in EventTypes \cup {"assemble", "none"}
           /\ Kind(h) = "none" => doing[h] = NoWork
<1>1. doing[h] \in Events \cup Calls \cup {NoWork}
      BY DEF TypeOK
<1>2. CASE doing[h] \in Events
      BY <1>2 DEF Events, Kind, EventTypes
<1>3. CASE doing[h] \in Calls
      BY <1>3 DEF Calls, Kind, EventTypes
<1>4. CASE doing[h] = NoWork
      BY <1>4 DEF NoWork, Kind, EventTypes
<1> QED
    BY <1>1, <1>2, <1>3, <1>4

LEMMA MapIsState ==
    ASSUME NEW s \in StripeStatuses
    PROVE  MapStripeDisputeStatus(s) \in States
BY DEF StripeStatuses, MapStripeDisputeStatus, States, TerminalStates

LEMMA MergedTyped ==
    ASSUME row \in Records, NEW rec \in Records
    PROVE  /\ Merged(rec) \in Records
           /\ Merged(rec).state = rec.state
           /\ Merged(rec).account = Coalesce(rec.account, row.account)
           /\ Merged(rec).rep = (rec.rep \/ row.rep)
BY DEF Records, Merged, Coalesce

LEMMA GotoTyped ==
    ASSUME LocalsTyped, NEW h \in Workers, NEW stage \in Stages, NEW rec \in Records,
           NEW at \in States \cup {"absent"}, Goto(h, stage, rec, at), sent \subseteq sent'
    PROVE  LocalsTyped'
BY DEF LocalsTyped, Goto

LEMMA DoneTyped ==
    ASSUME TypeOK, NEW h \in Workers, WorkInv(h), Done(h), Kind(h) # "none", sent \subseteq sent'
    PROVE  LocalsTyped'
<1>1. /\ pc' \in [Workers -> Stages]
      /\ doing' \in [Workers -> Events \cup Calls \cup {NoWork}]
      /\ held' \in [Workers -> Records]
      /\ current' \in [Workers -> States \cup {"absent"}]
      BY AbsentIsNoState DEF TypeOK, Done, Forget, Stages
<1>2. acked' \subseteq sent
      BY WorkIsTyped DEF TypeOK, Done, WorkInv
<1> QED
    BY <1>1, <1>2 DEF LocalsTyped

LEMMA ForgetTyped ==
    ASSUME TypeOK, NEW h \in Workers, Forget(h), UNCHANGED <<acked, sent>>
    PROVE  LocalsTyped'
BY AbsentIsNoState DEF TypeOK, Forget, Stages, LocalsTyped

\* A step of request h leaves the other requests where they are.
Quiet(h) ==
    \A g \in Workers \ {h} :
        /\ pc'[g] = pc[g]
        /\ doing'[g] = doing[g]
        /\ held'[g] = held[g]
        /\ current'[g] = current[g]

LEMMA GotoIsQuiet ==
    ASSUME LocalsTyped, NEW h \in Workers, NEW stage, NEW rec, NEW at, Goto(h, stage, rec, at)
    PROVE  /\ Quiet(h)
           /\ pc'[h] = stage /\ held'[h] = rec /\ current'[h] = at /\ doing'[h] = doing[h]
BY DEF LocalsTyped, Goto, Quiet

LEMMA ForgetIsQuiet ==
    ASSUME LocalsTyped, NEW h \in Workers, Forget(h)
    PROVE  /\ Quiet(h)
           /\ pc'[h] = "idle" /\ doing'[h] = NoWork /\ held'[h] = NoRow
           /\ current'[h] = "absent"
BY DEF LocalsTyped, Forget, Quiet

LEMMA QuietKeepsWork ==
    ASSUME NEW h \in Workers, Quiet(h), NEW g \in Workers \ {h}, WorkInv(g),
           sent \subseteq sent', row.state \in States => row'.state \in States
    PROVE  WorkInv(g)'
BY DEF Quiet, WorkInv, Kind

\* A request that has ended knows nothing.
LEMMA ForgottenWork ==
    ASSUME LocalsTyped, NEW h \in Workers, Forget(h)
    PROVE  WorkInv(h)'
<1>1. pc'[h] = "idle" /\ doing'[h] = NoWork
      BY ForgetIsQuiet
<1>2. NoWork \notin Events
      BY DEF NoWork, Events
<1> QED
    BY <1>1, <1>2 DEF WorkInv, HoldsRecord

\* What a step must show: types, the row, its own request; the others follow.
StepKeeps(h) ==
    /\ LocalsTyped' /\ RestTyped'
    /\ RowInv'
    /\ row.state \in States => row'.state \in States
    /\ sent \subseteq sent'
    /\ Quiet(h) /\ WorkInv(h)'

LEMMA StepKeepsIInv ==
    ASSUME IInv, NEW h \in Workers, StepKeeps(h)
    PROVE  IInv'
<1>1. TypeOK' /\ RowInv'
      BY DEF StepKeeps, TypeOK, LocalsTyped, RestTyped
<1>2. ASSUME NEW g \in Workers
      PROVE  WorkInv(g)'
  <2>1. CASE g = h
        BY <2>1 DEF StepKeeps
  <2>2. CASE g # h
    <3>1. WorkInv(g) /\ g \in Workers \ {h}
          BY <2>2 DEF IInv
    <3> QED
        BY <3>1, QuietKeepsWork DEF StepKeeps
  <2> QED
      BY <2>1, <2>2
<1> QED
    BY <1>1, <1>2 DEF IInv

\* upsertDispute writes a typed row that is not absent.
LEMMA UpsertKeeps ==
    ASSUME TypeOK, NEW h \in Workers, NEW rec \in Records, rec.state \in States, Upsert(h, rec)
    PROVE  /\ row' \in Records /\ overlapped' \in BOOLEAN
           /\ row'.state = rec.state
           /\ RowInv'
<1>1. row \in Records
      BY DEF TypeOK
<1>2. row' = Merged(rec)
      BY DEF Upsert
<1>3. row' \in Records /\ row'.state = rec.state
      BY <1>1, <1>2, MergedTyped
<1>4. overlapped' \in BOOLEAN
      BY DEF Upsert
<1> QED
    BY <1>3, <1>4, AbsentIsNoState DEF RowInv

LEMMA ReadKeeps ==
    ASSUME IInv, NEW h \in Workers,
           \/ ReadMissing(h) \/ ReadDuplicate(h) \/ ReadForUpdate(h)
           \/ ReadForClosure(h) \/ ReadForCall(h)
    PROVE  StepKeeps(h)
<1>1. /\ LocalsTyped /\ RestTyped /\ TypeOK /\ RowInv /\ WorkInv(h)
      /\ pc[h] = "read" /\ Kind(h) # "none"
      BY TypeOKParts DEF IInv, WorkInv, ReadMissing, ReadDuplicate, ReadForUpdate,
         ReadForClosure, ReadForCall, ReadStep
<1>2. UNCHANGED <<row, ledger, stripe, faults, opened, overlapped>>
      BY DEF ReadMissing, ReadDuplicate, ReadForUpdate, ReadForClosure, ReadForCall, ReadStep
<1>3. sent' = sent /\ RestTyped' /\ RowInv' /\ row' = row
      BY <1>1, <1>2 DEF stripe, RestTyped, RowInv
<1>4. /\ row \in Records /\ row.state \in States \cup {"absent"}
      /\ Found => row.state \in States
      BY <1>1 DEF RestTyped, Records, Found
<1>5. CASE Done(h)
      BY <1>1, <1>3, <1>5, DoneTyped, ForgetIsQuiet, ForgottenWork DEF Done, StepKeeps
<1>6. CASE ReadMissing(h) /\ Goto(h, "insert", row, row.state)
  <2>1. Kind(h) \in EventTypes /\ row = NoRow
        BY <1>1, <1>6, WorkIsTyped DEF ReadMissing, Found, RowInv
  <2>2. LocalsTyped'
        BY <1>1, <1>3, <1>4, <1>6, GotoTyped DEF Stages
  <2>3. Quiet(h) /\ pc'[h] = "insert" /\ held'[h] = row /\ doing'[h] = doing[h]
        BY <1>1, <1>6, GotoIsQuiet
  <2>4. WorkInv(h)'
        BY <1>1, <1>3, <2>1, <2>3 DEF WorkInv, Kind, HoldsRecord
  <2> QED
      BY <1>3, <2>2, <2>3, <2>4 DEF StepKeeps
<1>7. ASSUME NEW stage \in {"refresh", "walk", "claim"}, Found, Goto(h, stage, row, row.state),
             /\ stage = "refresh" => Kind(h) = "updated"
             /\ stage = "walk" => Kind(h) = "closed"
             /\ stage = "claim" => Kind(h) = "assemble"
      PROVE  StepKeeps(h)
  <2>1. LocalsTyped'
        BY <1>1, <1>3, <1>4, <1>7, GotoTyped DEF Stages
  <2>2. /\ Quiet(h) /\ pc'[h] = stage /\ held'[h] = row /\ current'[h] = row.state
        /\ doing'[h] = doing[h]
        BY <1>1, <1>7, GotoIsQuiet
  <2>3. WorkInv(h)'
        BY <1>1, <1>3, <1>4, <1>7, <2>2 DEF WorkInv, Kind, HoldsRecord
  <2> QED
      BY <1>3, <2>1, <2>2, <2>3 DEF StepKeeps
<1> QED
    BY <1>5, <1>6, <1>7 DEF ReadMissing, ReadDuplicate, ReadForUpdate, ReadForClosure, ReadForCall

LEMMA InsertKeeps ==
    ASSUME IInv, NEW h \in Workers, Insert(h)
    PROVE  StepKeeps(h)
<1> DEFINE state == IF Kind(h) = "created" THEN "needs_response"
                    ELSE MapStripeDisputeStatus(doing[h].status)
           rec == [state |-> state, account |-> Named, rep |-> FALSE]
<1>1. LocalsTyped /\ RestTyped /\ TypeOK /\ WorkInv(h) /\ Kind(h) \in EventTypes
      BY TypeOKParts DEF IInv, WorkInv, Insert
<1>2. state \in States
      BY <1>1, WorkIsTyped, MapIsState DEF States
<1> HIDE DEF state
<1>3. rec \in Records /\ rec.state \in States
      BY <1>2, AccountsAssumption DEF Records
<1>4. /\ Upsert(h, rec) /\ opened' = opened \cup {state} /\ Done(h)
      /\ UNCHANGED <<ledger, stripe, faults>>
      BY DEF Insert, state
<1> HIDE DEF rec
<1>5. row' \in Records /\ overlapped' \in BOOLEAN /\ row'.state \in States /\ RowInv'
      BY <1>1, <1>3, <1>4, UpsertKeeps
<1>6. RestTyped' /\ sent' = sent
      BY <1>1, <1>2, <1>4, <1>5 DEF RestTyped, stripe
<1>7. LocalsTyped' /\ Quiet(h) /\ WorkInv(h)'
      BY <1>1, <1>4, <1>6, DoneTyped, ForgetIsQuiet, ForgottenWork DEF Done, EventTypes
<1> QED
    BY <1>5, <1>6, <1>7 DEF StepKeeps

LEMMA RefreshKeeps ==
    ASSUME IInv, NEW h \in Workers, Refresh(h)
    PROVE  StepKeeps(h)
<1>1. /\ LocalsTyped /\ RestTyped /\ TypeOK /\ WorkInv(h) /\ Kind(h) = "updated"
      /\ held[h] \in Records /\ held[h].state \in States /\ current[h] = held[h].state
      BY TypeOKParts DEF IInv, WorkInv, Refresh, HoldsRecord, LocalsTyped
<1>2. /\ Upsert(h, held[h]) /\ Goto(h, "reread", held[h], current[h])
      /\ UNCHANGED <<ledger, stripe, faults, opened>>
      BY DEF Refresh
<1>3. row' \in Records /\ overlapped' \in BOOLEAN /\ row'.state \in States /\ RowInv'
      BY <1>1, <1>2, UpsertKeeps
<1>4. RestTyped' /\ sent' = sent
      BY <1>1, <1>2, <1>3 DEF RestTyped, stripe
<1>5. LocalsTyped'
      BY <1>1, <1>2, <1>4, GotoTyped DEF Stages
<1>6. Quiet(h) /\ pc'[h] = "reread" /\ doing'[h] = doing[h]
      BY <1>1, <1>2, GotoIsQuiet
<1>7. WorkInv(h)'
      BY <1>1, <1>3, <1>4, <1>6 DEF WorkInv, Kind, HoldsRecord
<1> QED
    BY <1>3, <1>4, <1>5, <1>6, <1>7 DEF StepKeeps

LEMMA RereadKeeps ==
    ASSUME IInv, NEW h \in Workers, Reread(h)
    PROVE  StepKeeps(h)
<1>1. /\ LocalsTyped /\ RestTyped /\ RowInv /\ WorkInv(h) /\ Kind(h) = "updated"
      /\ row \in Records /\ row.state \in States
      BY TypeOKParts DEF IInv, WorkInv, Reread, RestTyped
<1>2. /\ Goto(h, "walk", row, row.state)
      /\ UNCHANGED <<row, ledger, stripe, faults, opened, overlapped>>
      BY DEF Reread
<1>3. RestTyped' /\ sent' = sent /\ RowInv' /\ row' = row
      BY <1>1, <1>2 DEF RestTyped, stripe, RowInv
<1>4. LocalsTyped'
      BY <1>1, <1>2, <1>3, GotoTyped DEF Stages
<1>5. /\ Quiet(h) /\ pc'[h] = "walk" /\ held'[h] = row /\ current'[h] = row.state
      /\ doing'[h] = doing[h]
      BY <1>1, <1>2, GotoIsQuiet
<1>6. WorkInv(h)'
      BY <1>1, <1>3, <1>5 DEF WorkInv, Kind, HoldsRecord
<1> QED
    BY <1>3, <1>4, <1>5, <1>6 DEF StepKeeps

LEMMA ClaimKeeps ==
    ASSUME IInv, NEW h \in Workers, Claim(h)
    PROVE  StepKeeps(h)
<1> DEFINE working == [held[h] EXCEPT !.account = Coalesce(held[h].account, doing[h].by),
                                      !.rep = TRUE]
<1>1. /\ LocalsTyped /\ RestTyped /\ TypeOK /\ WorkInv(h) /\ Kind(h) = "assemble"
      /\ held[h] \in Records /\ held[h].state \in States /\ current[h] = held[h].state
      BY TypeOKParts DEF IInv, WorkInv, Claim, HoldsRecord, LocalsTyped
<1>2. /\ Upsert(h, working) /\ Goto(h, "walk", working, current[h])
      /\ UNCHANGED <<ledger, stripe, faults, opened>>
      BY DEF Claim
<1>3. working \in Records /\ working.state = held[h].state
      BY <1>1, WorkIsTyped DEF Records, Coalesce
<1> HIDE DEF working
<1>4. row' \in Records /\ overlapped' \in BOOLEAN /\ row'.state \in States /\ RowInv'
      BY <1>1, <1>2, <1>3, UpsertKeeps
<1>5. RestTyped' /\ sent' = sent
      BY <1>1, <1>2, <1>4 DEF RestTyped, stripe
<1>6. LocalsTyped'
      BY <1>1, <1>2, <1>3, <1>5, GotoTyped DEF Stages
<1>7. /\ Quiet(h) /\ pc'[h] = "walk" /\ held'[h] = working /\ current'[h] = current[h]
      /\ doing'[h] = doing[h]
      BY <1>1, <1>2, GotoIsQuiet
<1>8. WorkInv(h)'
      BY <1>1, <1>3, <1>5, <1>7 DEF WorkInv, Kind, HoldsRecord
<1> QED
    BY <1>4, <1>5, <1>6, <1>7, <1>8 DEF StepKeeps

\* Where a walk is: at the state it started from or on the way from there.
LEMMA WalkIsTyped ==
    ASSUME IInv, NEW h \in Workers, Walking(h)
    PROVE  /\ LocalsTyped /\ RestTyped /\ TypeOK /\ RowInv /\ WorkInv(h)
           /\ held[h] \in Records /\ held[h].state \in States /\ current[h] \in States
           /\ current[h] \in {held[h].state} \cup Later[held[h].state]
           /\ Target(h) \in States
           /\ Kind(h) # "none"
<1>1. /\ LocalsTyped /\ RestTyped /\ TypeOK /\ RowInv /\ WorkInv(h)
      /\ held[h] \in Records /\ held[h].state \in States
      /\ current[h] \in {held[h].state} \cup Later[held[h].state]
      /\ Kind(h) \in {"updated", "closed", "assemble"}
      BY TypeOKParts DEF IInv, WorkInv, Walking, HoldsRecord, LocalsTyped
<1>2. current[h] \in States
      BY <1>1, LaterDef
<1>3. Kind(h) # "assemble" => doing[h].status \in StripeStatuses
      BY <1>1, WorkIsTyped DEF EventTypes
<1>4. Target(h) \in States
  <2>1. CASE pc[h] = "report"
        BY <2>1 DEF Target, States
  <2>2. CASE pc[h] # "report" /\ Kind(h) = "assemble"
        BY <2>2 DEF Target, States
  <2>3. CASE pc[h] # "report" /\ Kind(h) # "assemble"
    <3>1. Target(h) = MapStripeDisputeStatus(doing[h].status)
          BY <2>3 DEF Target
    <3> QED
        BY <1>3, <2>3, <3>1, MapIsState
  <2> QED
      BY <2>1, <2>2, <2>3
<1> QED
    BY <1>1, <1>2, <1>4

LEMMA LogHopKeeps ==
    ASSUME IInv, NEW h \in Workers, LogHop(h)
    PROVE  StepKeeps(h)
<1> DEFINE next == NextHop(current[h], Target(h))
<1>1. Walking(h) /\ Target(h) \in Later[current[h]]
      BY DEF LogHop
<1>2. next \in Later[current[h]] /\ next \in States
      BY <1>1, WalkIsTyped, NextHopIsLater
<1>3. next \in Later[held[h].state]
      BY <1>1, <1>2, WalkIsTyped, LaterTransitive
<1>4. /\ ledger' = ledger \cup {<<current[h], next>>}
      /\ current' = [current EXCEPT ![h] = next]
      /\ UNCHANGED <<pc, doing, held, row, stripe, acked, faults, opened, overlapped>>
      BY DEF LogHop
<1> HIDE DEF next
<1>5. RestTyped' /\ sent' = sent /\ RowInv' /\ row' = row
      BY <1>1, <1>2, <1>4, WalkIsTyped DEF RestTyped, stripe, RowInv
<1>6. LocalsTyped' /\ Quiet(h) /\ current'[h] = next
      BY <1>1, <1>2, <1>4, <1>5, WalkIsTyped DEF LocalsTyped, Quiet
<1>7. pc[h] \in {"walk", "report"}
      BY <1>1 DEF Walking
<1>8. WorkInv(h)'
      BY <1>1, <1>3, <1>4, <1>5, <1>6, <1>7, WalkIsTyped DEF WorkInv, Kind, HoldsRecord
<1> QED
    BY <1>5, <1>6, <1>8 DEF StepKeeps

\* A walk ends with the submission or with the answer.
LEMMA AfterWalkKeeps ==
    ASSUME IInv, NEW h \in Workers, Walking(h), NEW rec \in Records,
           rec.state = current[h], AfterWalk(h, rec), sent' = sent
    PROVE  LocalsTyped' /\ Quiet(h) /\ WorkInv(h)'
<1>1. CASE pc[h] = "walk" /\ Kind(h) = "assemble"
  <2>1. Goto(h, "submit", rec, current[h])
        BY <1>1 DEF AfterWalk
  <2>2. LocalsTyped'
        BY <2>1, WalkIsTyped, GotoTyped DEF Stages
  <2>3. /\ Quiet(h) /\ pc'[h] = "submit" /\ held'[h] = rec /\ current'[h] = current[h]
        /\ doing'[h] = doing[h]
        BY <2>1, WalkIsTyped, GotoIsQuiet
  <2>4. WorkInv(h)'
        BY <1>1, <2>3, WalkIsTyped DEF WorkInv, Kind, HoldsRecord
  <2> QED
      BY <2>2, <2>3, <2>4
<1>2. CASE ~(pc[h] = "walk" /\ Kind(h) = "assemble")
      BY <1>2, WalkIsTyped, DoneTyped, ForgetIsQuiet, ForgottenWork DEF AfterWalk, Done
<1> QED
    BY <1>1, <1>2

LEMMA ArriveKeeps ==
    ASSUME IInv, NEW h \in Workers, Arrive(h)
    PROVE  StepKeeps(h)
<1> DEFINE moved == [held[h] EXCEPT !.state = current[h]]
<1>1. Walking(h)
      BY DEF Arrive
<1>2. moved \in Records /\ moved.state = current[h] /\ moved.state \in States
      BY <1>1, WalkIsTyped DEF Records
<1>3. /\ Upsert(h, moved) /\ AfterWalk(h, moved)
      /\ UNCHANGED <<ledger, stripe, faults, opened>>
      BY DEF Arrive
<1> HIDE DEF moved
<1>4. row' \in Records /\ overlapped' \in BOOLEAN /\ row'.state \in States /\ RowInv'
      BY <1>1, <1>2, <1>3, WalkIsTyped, UpsertKeeps
<1>5. RestTyped' /\ sent' = sent
      BY <1>1, <1>3, <1>4, WalkIsTyped DEF RestTyped, stripe
<1>6. LocalsTyped' /\ Quiet(h) /\ WorkInv(h)'
      BY <1>1, <1>2, <1>3, <1>5, AfterWalkKeeps
<1> QED
    BY <1>4, <1>5, <1>6 DEF StepKeeps

LEMMA StayKeeps ==
    ASSUME IInv, NEW h \in Workers, Stay(h)
    PROVE  StepKeeps(h)
<1>1. Walking(h) /\ current[h] = held[h].state
      BY DEF Stay
<1>2. /\ AfterWalk(h, held[h])
      /\ UNCHANGED <<row, ledger, stripe, faults, opened, overlapped>>
      BY DEF Stay
<1>3. RestTyped' /\ sent' = sent /\ RowInv' /\ row' = row
      BY <1>1, <1>2, WalkIsTyped DEF RestTyped, stripe, RowInv
<1>4. LocalsTyped' /\ Quiet(h) /\ WorkInv(h)'
      BY <1>1, <1>2, <1>3, WalkIsTyped, AfterWalkKeeps
<1> QED
    BY <1>3, <1>4 DEF StepKeeps

LEMMA SubmitKeeps ==
    ASSUME IInv, NEW h \in Workers, Submit(h)
    PROVE  StepKeeps(h)
<1>1. /\ LocalsTyped /\ RestTyped /\ TypeOK /\ RowInv /\ WorkInv(h) /\ pc[h] = "submit"
      /\ Kind(h) = "assemble" /\ held[h] \in Records
      /\ held[h].state \in States /\ current[h] = held[h].state
      BY TypeOKParts DEF IInv, WorkInv, Submit, HoldsRecord, LocalsTyped
<1>2. UNCHANGED <<row, ledger, stripe, faults, opened, overlapped>>
      BY DEF Submit
<1>3. RestTyped' /\ sent' = sent /\ RowInv' /\ row' = row
      BY <1>1, <1>2 DEF RestTyped, stripe, RowInv
<1>4. CASE Done(h)
      BY <1>1, <1>3, <1>4, DoneTyped, ForgetIsQuiet, ForgottenWork DEF Done, StepKeeps
<1>5. CASE Goto(h, "report", held[h], current[h])
  <2>1. LocalsTyped'
        BY <1>1, <1>3, <1>5, GotoTyped DEF Stages
  <2>2. /\ Quiet(h) /\ pc'[h] = "report" /\ held'[h] = held[h] /\ current'[h] = current[h]
        /\ doing'[h] = doing[h]
        BY <1>1, <1>5, GotoIsQuiet
  <2>3. WorkInv(h)'
        BY <1>1, <1>3, <2>2 DEF WorkInv, Kind, HoldsRecord
  <2> QED
      BY <1>3, <2>1, <2>2, <2>3 DEF StepKeeps
<1> QED
    BY <1>4, <1>5 DEF Submit

LEMMA FailKeeps ==
    ASSUME IInv, NEW h \in Workers, Fail(h)
    PROVE  StepKeeps(h)
<1>1. LocalsTyped /\ RestTyped /\ TypeOK /\ RowInv
      BY TypeOKParts DEF IInv
<1>2. /\ Forget(h) /\ faults < MaxFaults /\ faults' = faults + 1
      /\ UNCHANGED <<row, ledger, stripe, acked, opened, overlapped>>
      BY DEF Fail
<1>3. RestTyped' /\ sent' = sent /\ RowInv' /\ row' = row
      BY <1>1, <1>2, BoundsAssumption DEF RestTyped, stripe, RowInv
<1>4. LocalsTyped' /\ Quiet(h) /\ WorkInv(h)'
      BY <1>1, <1>2, <1>3, ForgetTyped, ForgetIsQuiet, ForgottenWork
<1> QED
    BY <1>3, <1>4 DEF StepKeeps

\* A request begins: the webhook is one that Stripe has sent.
LEMMA BeginKeeps ==
    ASSUME IInv, NEW h \in Workers,
           (\E e \in sent : Deliver(h, e)) \/ (\E a \in Accounts : Call(h, a))
    PROVE  StepKeeps(h)
<1>1. LocalsTyped /\ RestTyped /\ RowInv
      BY TypeOKParts DEF IInv
<1>2. PICK w \in sent \cup Calls : doing' = [doing EXCEPT ![h] = w]
      BY DEF Deliver, Call, Calls
<1>3. /\ w.type \in EventTypes \cup {"assemble"}
      /\ w \in Events \cup Calls
      /\ w \in Events => w \in sent
      BY <1>1 DEF RestTyped, Events, Calls, EventTypes
<1>4. /\ pc' = [pc EXCEPT ![h] = "read"]
      /\ UNCHANGED <<held, current, row, ledger, stripe, acked, faults, opened, overlapped>>
      BY DEF Deliver, Call
<1>5. RestTyped' /\ sent' = sent /\ RowInv' /\ row' = row
      BY <1>1, <1>4 DEF RestTyped, stripe, RowInv
<1>6. LocalsTyped' /\ Quiet(h) /\ pc'[h] = "read" /\ doing'[h] = w
      BY <1>1, <1>2, <1>3, <1>4 DEF LocalsTyped, Quiet, Stages, stripe
<1>7. WorkInv(h)'
      BY <1>3, <1>5, <1>6 DEF WorkInv, Kind, HoldsRecord, EventTypes
<1> QED
    BY <1>5, <1>6, <1>7 DEF StepKeeps

LEMMA StripeKeeps ==
    ASSUME IInv, StripeOpens \/ StripeUpdates \/ StripeCloses
    PROVE  IInv'
<1>1. /\ \E t \in EventTypes, s \in StripeStatuses : Send(t, s)
      BY StatusesAssumption DEF StripeOpens, StripeUpdates, StripeCloses, EventTypes, StripeStatuses
<1>2. PICK t \in EventTypes, s \in StripeStatuses : Send(t, s)
      BY <1>1
<1>3. /\ status' = s /\ sent' = sent \cup {[type |-> t, status |-> s]}
      /\ UNCHANGED <<locals, row, ledger, acked, faults, opened, overlapped>>
      BY <1>2 DEF Send
<1>4. [type |-> t, status |-> s] \in Events
      BY DEF Events, EventTypes
<1>5. TypeOK' /\ RowInv'
      BY <1>3, <1>4 DEF IInv, TypeOK, RowInv, locals
<1>6. ASSUME NEW g \in Workers
      PROVE  WorkInv(g)'
      BY <1>3 DEF IInv, WorkInv, Kind, locals
<1> QED
    BY <1>5, <1>6 DEF IInv

LEMMA InitIInv == Init => IInv
<1> SUFFICES ASSUME Init
             PROVE  IInv
    OBVIOUS
<1>1. NoWork \notin Events
      BY DEF NoWork, Events
<1>2. TypeOK
  <2>1. LocalsTyped
        BY AbsentIsNoState DEF Init, LocalsTyped, Stages
  <2>2. row \in Records
        BY AbsentIsNoState DEF Init
  <2>3. faults \in 0..MaxFaults
        BY BoundsAssumption DEF Init
  <2>4. RestTyped
        BY <2>2, <2>3 DEF Init, RestTyped
  <2> QED
      BY <2>1, <2>4, TypeOKParts
<1>3. RowInv /\ \A h \in Workers : WorkInv(h)
      BY <1>1 DEF Init, RowInv, WorkInv, HoldsRecord
<1> QED
    BY <1>2, <1>3 DEF IInv

\* Every step of a request, as one lemma for the theorems below.
LEMMA RequestKeeps ==
    ASSUME IInv, NEW h \in Workers,
           \/ \E e \in sent : Deliver(h, e)
           \/ \E a \in Accounts : Call(h, a)
           \/ Step(h)
           \/ Fail(h)
    PROVE  StepKeeps(h)
BY BeginKeeps, ReadKeeps, InsertKeeps, RefreshKeeps, RereadKeeps, ClaimKeeps, LogHopKeeps,
   ArriveKeeps, StayKeeps, SubmitKeeps, FailKeeps DEF Step

LEMMA NextIInv == IInv /\ [Next]_vars => IInv'
<1> SUFFICES ASSUME IInv, [Next]_vars
             PROVE  IInv'
    OBVIOUS
<1>1. CASE StripeOpens \/ StripeUpdates \/ StripeCloses
      BY <1>1, StripeKeeps
<1>2. ASSUME NEW h \in Workers,
             \/ \E e \in sent : Deliver(h, e)
             \/ \E a \in Accounts : Call(h, a)
             \/ Step(h)
             \/ Fail(h)
      PROVE  IInv'
      BY <1>2, RequestKeeps, StepKeepsIInv
<1>3. CASE UNCHANGED vars
      BY <1>3 DEF vars, locals, stripe, IInv, TypeOK, RowInv, WorkInv, Kind
<1> QED
    BY <1>1, <1>2, <1>3 DEF Next

\* The variables keep their types through every interleaving of requests.
THEOREM TypeCorrect == Spec => []TypeOK
<1>1. IInv => TypeOK
      BY DEF IInv
<1> QED
    BY <1>1, InitIInv, NextIInv, PTL DEF Spec

-----------------------------------------------------------------------------
(* What a step does to the row *)

\* Request h stores rec: a new dispute, or one that it has read, moved along the
\* lifecycle or not, and claimed only if it was nobody's.
Stores(h, rec) ==
    /\ rec.state \in States
    /\ Upsert(h, rec)
    /\ \/ held[h] = NoRow
       \/ /\ rec.state \in {held[h].state} \cup Later[held[h].state]
          /\ held[h].state \in States
          /\ held[h].account # None => rec.account = held[h].account

RowMoves ==
    \/ UNCHANGED <<row, overlapped>>
    \/ \E h \in Workers, rec \in Records : Stores(h, rec)

LEMMA InsertStores ==
    ASSUME IInv, NEW h \in Workers, Insert(h)
    PROVE  \E rec \in Records : Stores(h, rec)
<1> DEFINE state == IF Kind(h) = "created" THEN "needs_response"
                    ELSE MapStripeDisputeStatus(doing[h].status)
           rec == [state |-> state, account |-> Named, rep |-> FALSE]
<1>1. TypeOK /\ Kind(h) \in EventTypes /\ held[h] = NoRow
      BY DEF IInv, WorkInv, Insert
<1>2. state \in States
      BY <1>1, WorkIsTyped, MapIsState DEF States
<1>3. Upsert(h, rec)
      BY DEF Insert, state
<1> HIDE DEF state
<1>4. rec \in Records /\ rec.state \in States
      BY <1>2, AccountsAssumption DEF Records
<1> QED
    BY <1>1, <1>3, <1>4 DEF Stores

LEMMA RefreshStores ==
    ASSUME IInv, NEW h \in Workers, Refresh(h)
    PROVE  \E rec \in Records : Stores(h, rec)
<1>1. held[h] \in Records /\ held[h].state \in States
      BY DEF IInv, TypeOK, WorkInv, Refresh, HoldsRecord
<1> QED
    BY <1>1 DEF Stores, Refresh

LEMMA ClaimStores ==
    ASSUME IInv, NEW h \in Workers, Claim(h)
    PROVE  \E rec \in Records : Stores(h, rec)
<1> DEFINE working == [held[h] EXCEPT !.account = Coalesce(held[h].account, doing[h].by),
                                      !.rep = TRUE]
<1>1. /\ TypeOK /\ Kind(h) = "assemble" /\ held[h] \in Records /\ held[h].state \in States
      BY DEF IInv, TypeOK, WorkInv, Claim, HoldsRecord
<1>2. /\ working \in Records /\ working.state = held[h].state
      /\ held[h].account # None => working.account = held[h].account
      BY <1>1, WorkIsTyped DEF Records, Coalesce
<1>3. Upsert(h, working)
      BY DEF Claim
<1> HIDE DEF working
<1> QED
    BY <1>1, <1>2, <1>3 DEF Stores

LEMMA ArriveStores ==
    ASSUME IInv, NEW h \in Workers, Arrive(h)
    PROVE  \E rec \in Records : Stores(h, rec)
<1> DEFINE moved == [held[h] EXCEPT !.state = current[h]]
<1>1. Walking(h)
      BY DEF Arrive
<1>2. /\ moved \in Records /\ moved.state = current[h] /\ moved.account = held[h].account
      /\ moved.state \in States
      /\ held[h].state \in States
      /\ current[h] \in {held[h].state} \cup Later[held[h].state]
      BY <1>1, WalkIsTyped DEF Records
<1>3. Upsert(h, moved)
      BY DEF Arrive
<1> HIDE DEF moved
<1> QED
    BY <1>2, <1>3 DEF Stores

LEMMA RowIsStored == IInv /\ [Next]_vars => RowMoves
<1> SUFFICES ASSUME IInv, [Next]_vars
             PROVE  RowMoves
    OBVIOUS
<1>1. ASSUME NEW h \in Workers, Insert(h) \/ Refresh(h) \/ Claim(h) \/ Arrive(h)
      PROVE  RowMoves
      BY <1>1, InsertStores, RefreshStores, ClaimStores, ArriveStores DEF RowMoves
<1>2. CASE StripeOpens \/ StripeUpdates \/ StripeCloses
      BY <1>2 DEF StripeOpens, StripeUpdates, StripeCloses, Send, RowMoves
<1>3. ASSUME NEW h \in Workers,
             \/ \E e \in sent : Deliver(h, e)
             \/ \E a \in Accounts : Call(h, a)
             \/ Reread(h) \/ LogHop(h) \/ Stay(h) \/ Submit(h) \/ Fail(h)
      PROVE  RowMoves
      BY <1>3 DEF Deliver, Call, Reread, LogHop, Stay, Submit, Fail, RowMoves
<1>4. ASSUME NEW h \in Workers,
             \/ ReadMissing(h) \/ ReadDuplicate(h) \/ ReadForUpdate(h)
             \/ ReadForClosure(h) \/ ReadForCall(h)
      PROVE  RowMoves
      BY <1>4 DEF ReadMissing, ReadDuplicate, ReadForUpdate, ReadForClosure, ReadForCall,
         ReadStep, RowMoves
<1>5. CASE UNCHANGED vars
      BY <1>5 DEF vars, RowMoves
<1> QED
    BY <1>1, <1>2, <1>3, <1>4, <1>5 DEF Next, Step

\* A webhook that read the row before the dispute was claimed, or before its
\* evidence was assembled, does not erase the one or the other (COALESCE).
THEOREM ClaimsAreKept == Spec => ClaimsStand
<1> DEFINE Stand == /\ row.rep => row'.rep
                    /\ row.account # None => row'.account # None
<1>1. ASSUME IInv, [Next]_vars
      PROVE  Stand
  <2>1. row \in Records
        BY <1>1 DEF IInv, TypeOK
  <2>2. ASSUME NEW h \in Workers, NEW rec \in Records, Stores(h, rec)
        PROVE  Stand
        BY <2>1, <2>2, MergedTyped DEF Stores, Upsert, Coalesce
  <2>3. RowMoves
        BY <1>1, RowIsStored
  <2> QED
      BY <2>2, <2>3 DEF RowMoves
<1>2. IInv /\ [Next]_vars => [Stand]_vars
      BY <1>1
<1> QED
    BY <1>2, InitIInv, NextIInv, PTL DEF Spec, ClaimsStand

\* The first account that claims a dispute keeps it until a request writes over
\* another, whichever accounts call and whatever account the events name.
THEOREM OwnerIsKept == Spec => OwnerStands
<1> DEFINE Stand == row.account # None /\ ~overlapped' => row'.account = row.account
<1>1. ASSUME IInv, [Next]_vars
      PROVE  Stand
  <2>1. row \in Records
        BY <1>1 DEF IInv, TypeOK
  <2>2. ASSUME NEW h \in Workers, NEW rec \in Records, Stores(h, rec), ~overlapped',
               row.account # None
        PROVE  row'.account = row.account
    <3>1. row = held[h] /\ row' = Merged(rec)
          BY <2>2 DEF Stores, Upsert
    <3>2. held[h] # NoRow
          BY <2>2, <3>1 DEF NoRow
    <3>3. rec.account = row.account
          BY <2>2, <3>1, <3>2 DEF Stores
    <3> QED
        BY <2>1, <2>2, <3>1, <3>3, MergedTyped DEF Coalesce
  <2>3. RowMoves
        BY <1>1, RowIsStored
  <2> QED
      BY <2>2, <2>3 DEF RowMoves
<1>2. IInv /\ [Next]_vars => [Stand]_vars
      BY <1>1
<1> QED
    BY <1>2, InitIInv, NextIInv, PTL DEF Spec, OwnerStands

\* The abstract specification speaks of the same graph.
LEMMA SameGraph ==
    Lifecycle!States = States /\ Lifecycle!Later = Later
<1>1. Lifecycle!States = States
      BY DEF Lifecycle!States, Lifecycle!TerminalStates, States, TerminalStates
<1>2. Lifecycle!Transitions = Transitions
      BY <1>1 DEF Lifecycle!Transitions, Transitions
<1> QED
    BY <1>1, <1>2 DEF Lifecycle!Later, Later

\* The row implements DisputeLifecycle: until a request writes over another it
\* is opened once and moves along the edges only.
THEOREM ImplementsLifecycle == Spec => KeepsLifecycle
<1>1. Init => Lifecycle!Init
      BY DEF Init, Lifecycle!Init, NoRow
<1>2. ASSUME IInv, [Next]_vars
      PROVE  [Lifecycle!Next]_<<row.state, overlapped>>
  <2>1. row \in Records /\ overlapped \in BOOLEAN
        BY <1>2 DEF IInv, TypeOK
  <2>2. ASSUME NEW h \in Workers, NEW rec \in Records, Stores(h, rec)
        PROVE  [Lifecycle!Next]_<<row.state, overlapped>>
    <3>1. /\ rec.state \in States
          /\ row' = Merged(rec)
          /\ overlapped' = (overlapped \/ row # held[h])
          BY <2>2 DEF Stores, Upsert
    <3>2. row'.state = rec.state
          BY <2>1, <3>1, MergedTyped
    <3>3. CASE overlapped'
      <4>1. overlapped' = TRUE
            BY <2>1, <3>1, <3>3
      <4> QED
          BY <3>1, <3>2, <4>1, SameGraph DEF Lifecycle!Next, Lifecycle!Overlap
    <3>4. CASE ~overlapped'
      <4>1. row = held[h] /\ overlapped' = overlapped
            BY <2>1, <3>1, <3>4
      <4>2. CASE held[h] = NoRow
            BY <3>1, <3>2, <4>1, <4>2, SameGraph DEF NoRow, Lifecycle!Next, Lifecycle!Open
      <4>3. CASE held[h] # NoRow
        <5>1. row.state \in States /\ row'.state \in {row.state} \cup Later[row.state]
              BY <2>2, <3>2, <4>1, <4>3 DEF Stores
        <5> QED
            BY <4>1, <5>1, SameGraph DEF Lifecycle!Next, Lifecycle!Move
      <4> QED
          BY <4>2, <4>3
    <3> QED
        BY <3>3, <3>4
  <2>3. RowMoves
        BY <1>2, RowIsStored
  <2> QED
      BY <2>2, <2>3 DEF RowMoves
<1> QED
    BY <1>1, <1>2, InitIInv, NextIInv, PTL DEF Spec, KeepsLifecycle, Lifecycle!Spec

-----------------------------------------------------------------------------
(* Which states there are about *)

\* The states that the row and the requests know are all in T.
About(T) ==
    /\ row.state \in T
    /\ \A h \in Workers : held[h].state \in T /\ current[h] \in T

AboutNext(T) ==
    /\ row'.state \in T
    /\ \A h \in Workers : held'[h].state \in T /\ current'[h] \in T

LEMMA QuietAbout ==
    ASSUME NEW T, About(T), NEW h \in Workers, Quiet(h), row'.state \in T,
           held'[h].state \in T, current'[h] \in T
    PROVE  AboutNext(T)
BY DEF About, AboutNext, Quiet

LEMMA GotoAbout ==
    ASSUME NEW T, About(T), LocalsTyped, NEW h \in Workers, NEW stage, NEW rec, NEW at,
           Goto(h, stage, rec, at), row'.state \in T, rec.state \in T, at \in T
    PROVE  AboutNext(T)
BY GotoIsQuiet, QuietAbout

LEMMA ForgetAbout ==
    ASSUME NEW T, About(T), LocalsTyped, NEW h \in Workers, Forget(h), row'.state \in T,
           "absent" \in T
    PROVE  AboutNext(T)
<1>1. NoRow.state = "absent"
      BY DEF NoRow
<1> QED
    BY <1>1, ForgetIsQuiet, QuietAbout

\* Only an insert and a hop bring in a state that was not there.
LEMMA StatesSpread ==
    ASSUME IInv, [Next]_vars, NEW T, "absent" \in T, About(T),
           \A h \in Workers : Insert(h) => row'.state \in T,
           \A h \in Workers : LogHop(h) => current'[h] \in T
    PROVE  AboutNext(T)
<1>1. LocalsTyped /\ TypeOK
      BY TypeOKParts DEF IInv
<1>2. CASE StripeOpens \/ StripeUpdates \/ StripeCloses \/ UNCHANGED vars
      BY <1>2 DEF StripeOpens, StripeUpdates, StripeCloses, Send, vars, locals, About, AboutNext
<1>3. ASSUME NEW h \in Workers,
             (\E e \in sent : Deliver(h, e)) \/ (\E a \in Accounts : Call(h, a))
      PROVE  AboutNext(T)
      BY <1>3 DEF Deliver, Call, About, AboutNext
<1>4. ASSUME NEW h \in Workers,
             \/ ReadMissing(h) \/ ReadDuplicate(h) \/ ReadForUpdate(h)
             \/ ReadForClosure(h) \/ ReadForCall(h) \/ Reread(h)
      PROVE  AboutNext(T)
  <2>1. row' = row /\ row.state \in T
        BY <1>4 DEF ReadMissing, ReadDuplicate, ReadForUpdate, ReadForClosure, ReadForCall,
           ReadStep, Reread, About
  <2>2. (\E stage \in Stages : Goto(h, stage, row, row.state)) \/ Forget(h)
        BY <1>4 DEF ReadMissing, ReadDuplicate, ReadForUpdate, ReadForClosure, ReadForCall,
           Reread, Done, Stages
  <2> QED
      BY <1>1, <2>1, <2>2, GotoAbout, ForgetAbout
<1>5. ASSUME NEW h \in Workers, Insert(h)
      PROVE  AboutNext(T)
      BY <1>1, <1>5, ForgetAbout DEF Insert, Done
<1>6. ASSUME NEW h \in Workers, Refresh(h)
      PROVE  AboutNext(T)
  <2>1. held[h] \in Records /\ row \in Records /\ held[h].state \in T /\ current[h] \in T
        BY <1>1 DEF TypeOK, About
  <2>2. row'.state = held[h].state
        BY <1>6, <2>1, MergedTyped DEF Refresh, Upsert
  <2> QED
      BY <1>1, <1>6, <2>1, <2>2, GotoAbout DEF Refresh
<1>7. ASSUME NEW h \in Workers, Claim(h)
      PROVE  AboutNext(T)
  <2> DEFINE working == [held[h] EXCEPT !.account = Coalesce(held[h].account, doing[h].by),
                                        !.rep = TRUE]
  <2>1. /\ held[h] \in Records /\ row \in Records /\ held[h].state \in T /\ current[h] \in T
        /\ Kind(h) = "assemble"
        BY <1>1, <1>7 DEF IInv, WorkInv, Claim, TypeOK, About
  <2>2. working \in Records /\ working.state = held[h].state
        BY <1>1, <2>1, WorkIsTyped DEF Records, Coalesce
  <2>3. Upsert(h, working) /\ Goto(h, "walk", working, current[h])
        BY <1>7 DEF Claim
  <2> HIDE DEF working
  <2>4. row'.state = working.state
        BY <2>1, <2>2, <2>3, MergedTyped DEF Upsert
  <2> QED
      BY <1>1, <2>1, <2>2, <2>3, <2>4, GotoAbout
<1>8. ASSUME NEW h \in Workers, LogHop(h)
      PROVE  AboutNext(T)
  <2>1. /\ current'[h] \in T /\ Quiet(h)
        /\ UNCHANGED <<held, row>>
        BY <1>8, LogHopKeeps DEF LogHop, StepKeeps
  <2> QED
      BY <2>1, QuietAbout DEF About
<1>9. ASSUME NEW h \in Workers, Arrive(h)
      PROVE  AboutNext(T)
  <2> DEFINE moved == [held[h] EXCEPT !.state = current[h]]
  <2>1. held[h] \in Records /\ row \in Records /\ current[h] \in T
        BY <1>1 DEF TypeOK, About
  <2>2. moved \in Records /\ moved.state = current[h]
        BY <1>9, WalkIsTyped DEF Arrive, Records
  <2>3. Upsert(h, moved) /\ AfterWalk(h, moved)
        BY <1>9 DEF Arrive
  <2> HIDE DEF moved
  <2>4. row'.state = moved.state
        BY <2>1, <2>2, <2>3, MergedTyped DEF Upsert
  <2> QED
      BY <1>1, <2>1, <2>2, <2>3, <2>4, GotoAbout, ForgetAbout DEF AfterWalk, Done
<1>10. ASSUME NEW h \in Workers, Stay(h) \/ Submit(h) \/ Fail(h)
       PROVE  AboutNext(T)
  <2>1. row' = row /\ row.state \in T /\ held[h].state \in T /\ current[h] \in T
        BY <1>10 DEF Stay, Submit, Fail, About
  <2>2. (\E stage \in Stages : Goto(h, stage, held[h], current[h])) \/ Forget(h)
        BY <1>10 DEF Stay, Submit, Fail, AfterWalk, Done, Stages
  <2> QED
      BY <1>1, <2>1, <2>2, GotoAbout, ForgetAbout
<1> QED
    BY <1>2, <1>3, <1>4, <1>5, <1>6, <1>7, <1>8, <1>9, <1>10 DEF Next, Step

\* What the ledger and the inserts explain.
Explained == opened \cup {hop[2] : hop \in ledger} \cup {"absent"}

AuditInv == About(Explained)

LEMMA NextAuditInv == IInv /\ AuditInv /\ [Next]_vars => AuditInv'
<1> SUFFICES ASSUME IInv, AuditInv, [Next]_vars
             PROVE  AuditInv'
    OBVIOUS
<1>1. opened \subseteq opened' /\ ledger \subseteq ledger'
  <2>1. CASE UNCHANGED <<opened, ledger>>
        BY <2>1
  <2>2. ASSUME NEW h \in Workers, Insert(h) \/ LogHop(h)
        PROVE  opened \subseteq opened' /\ ledger \subseteq ledger'
        BY <2>2 DEF Insert, LogHop
  <2> QED
      BY <2>1, <2>2 DEF Next, Step, StripeOpens, StripeUpdates, StripeCloses, Send, Deliver,
         Call, ReadMissing, ReadDuplicate, ReadForUpdate, ReadForClosure, ReadForCall,
         ReadStep, Reread, Refresh, Claim, Arrive, Stay, Submit, Fail, vars
<1>2. Explained \subseteq Explained' /\ "absent" \in Explained'
      BY <1>1 DEF Explained
<1>3. About(Explained')
      BY <1>2 DEF AuditInv, About
<1>4. ASSUME NEW h \in Workers, Insert(h)
      PROVE  row'.state \in Explained'
  <2> DEFINE state == IF Kind(h) = "created" THEN "needs_response"
                      ELSE MapStripeDisputeStatus(doing[h].status)
             rec == [state |-> state, account |-> Named, rep |-> FALSE]
  <2>1. state \in opened' /\ row' = Merged(rec)
        BY <1>4 DEF Insert, Upsert
  <2>2. row'.state = state
        BY <2>1 DEF Merged
  <2> QED
      BY <2>1, <2>2 DEF Explained
<1>5. ASSUME NEW h \in Workers, LogHop(h)
      PROVE  current'[h] \in Explained'
  <2> DEFINE next == NextHop(current[h], Target(h))
  <2>1. ledger' = ledger \cup {<<current[h], next>>} /\ current' = [current EXCEPT ![h] = next]
        BY <1>5 DEF LogHop
  <2>2. current'[h] = next
        BY <2>1 DEF IInv, TypeOK
  <2>3. <<current[h], next>> \in ledger' /\ <<current[h], next>>[2] = next
        BY <2>1
  <2> QED
      BY <2>2, <2>3 DEF Explained
<1>6. AboutNext(Explained')
      BY <1>2, <1>3, <1>4, <1>5, StatesSpread
<1> QED
    BY <1>6 DEF AuditInv, About, AboutNext

\* The audit trail explains every state that a dispute shows, even when requests
\* die between the log and the row, or write over each other.
THEOREM StateIsAudited == Spec => []AuditedState
<1>1. Init => AuditInv
      BY DEF Init, AuditInv, About, Explained, NoRow
<1>2. AuditInv => AuditedState
      BY DEF AuditInv, About, Explained, AuditedState
<1> QED
    BY <1>1, <1>2, InitIInv, NextIInv, NextAuditInv, PTL DEF Spec

-----------------------------------------------------------------------------
(* Stripe's decision *)

Decided == {MapStripeDisputeStatus(e.status) : e \in Closing}

\* Stripe closes a dispute once, and nothing follows.
StripeInv ==
    /\ \A e \in Closing : e.status = status /\ e.status \in Outcomes
    /\ \A e \in sent : e.type = "updated" => e.status \in Updates

\* A terminal state comes from Stripe's decision.
LegitInv == About({"absent"} \cup OpenStates \cup Decided)

\* Without overlapping writes, the row has moved on from what a request holds.
HeldIsPast ==
    ~overlapped => \A h \in Workers :
        held[h].state \in States => row.state \in {held[h].state} \cup Later[held[h].state]

SettledInv == StripeInv /\ LegitInv /\ HeldIsPast /\ SettledAsDecided

LEMMA MapOfOutcome ==
    ASSUME NEW s \in Outcomes
    PROVE  /\ MapStripeDisputeStatus(s) \in TerminalStates
           /\ MapStripeDisputeStatus(s) = "accepted" => s = "charge_refunded"
BY StatusesAssumption DEF MapStripeDisputeStatus, TerminalStates

LEMMA MapOfUpdate ==
    ASSUME NEW s \in Updates
    PROVE  MapStripeDisputeStatus(s) \in OpenStates
BY StatusesAssumption DEF MapStripeDisputeStatus, OpenStates, States, TerminalStates

\* What Stripe does in a step: nothing, or one more event while the dispute is open.
LEMMA NextStripeInv ==
    ASSUME TypeOK, StripeInv, [Next]_vars
    PROVE  /\ StripeInv' /\ sent \subseteq sent'
           /\ sent' # sent => Closing = {} /\ UNCHANGED <<locals, row, acked, overlapped>>
<1>1. CASE UNCHANGED stripe
      BY <1>1 DEF stripe, StripeInv, Closing
<1>2. CASE StripeOpens \/ StripeUpdates \/ StripeCloses
  <2>1. PICK t \in EventTypes, s \in StripeStatuses :
          /\ Send(t, s)
          /\ t = "closed" => s \in Outcomes
          /\ t = "updated" => s \in Updates
        BY <1>2, StatusesAssumption DEF StripeOpens, StripeUpdates, StripeCloses, EventTypes,
           StripeStatuses
  <2>2. status \notin Outcomes
        BY <1>2, StatusesAssumption DEF StripeOpens, StripeUpdates, StripeCloses, IsOpen
  <2>3. Closing = {}
        BY <2>2 DEF StripeInv
  <2>4. /\ status' = s /\ sent' = sent \cup {[type |-> t, status |-> s]}
        /\ UNCHANGED <<locals, row, acked, overlapped>>
        BY <2>1 DEF Send
  <2>5. StripeInv'
    <3>1. ASSUME NEW e \in Closing'
          PROVE  e = [type |-> t, status |-> s] /\ t = "closed"
          BY <2>3, <2>4, <3>1 DEF Closing
    <3> QED
        BY <2>1, <2>4, <3>1 DEF StripeInv
  <2> QED
      BY <2>3, <2>4, <2>5
<1>3. CASE ~(StripeOpens \/ StripeUpdates \/ StripeCloses)
  <2>1. UNCHANGED stripe
        BY <1>3 DEF Next, Step, Deliver, Call, ReadMissing, ReadDuplicate, ReadForUpdate,
           ReadForClosure, ReadForCall, ReadStep, Insert, LogHop, Reread, Refresh, Claim,
           Arrive, Stay, Submit, Fail, vars
  <2> QED
      BY <1>1, <2>1 DEF stripe
<1> QED
    BY <1>2, <1>3

\* A request that inserts stores an open state or Stripe's decision.
LEMMA InsertedState ==
    ASSUME IInv, StripeInv, NEW h \in Workers, Insert(h)
    PROVE  /\ row'.state \in OpenStates \cup Decided
           /\ Kind(h) = "closed" => row'.state = MapStripeDisputeStatus(doing[h].status)
<1> DEFINE state == IF Kind(h) = "created" THEN "needs_response"
                    ELSE MapStripeDisputeStatus(doing[h].status)
           rec == [state |-> state, account |-> Named, rep |-> FALSE]
<1>1. /\ TypeOK /\ Kind(h) \in EventTypes
      /\ doing[h] \in Events /\ doing[h] \in sent
      BY WorkIsTyped DEF IInv, WorkInv, Insert
<1>2. row' = Merged(rec)
      BY DEF Insert, Upsert, state
<1>3. row'.state = state
      BY <1>2 DEF Merged
<1>4. CASE Kind(h) = "created"
      BY <1>3, <1>4 DEF OpenStates, States, TerminalStates
<1>5. CASE Kind(h) = "updated"
      BY <1>1, <1>3, <1>5, MapOfUpdate DEF StripeInv, Kind
<1>6. CASE Kind(h) = "closed"
  <2>1. doing[h] \in Closing
        BY <1>1, <1>6 DEF Closing, Kind
  <2> QED
      BY <1>3, <1>6, <2>1 DEF Decided
<1> QED
    BY <1>1, <1>4, <1>5, <1>6 DEF EventTypes

\* A walk leads to an open state or to Stripe's decision.
LEMMA TargetIsLegit ==
    ASSUME IInv, StripeInv, NEW h \in Workers, Walking(h)
    PROVE  Target(h) \in OpenStates \cup Decided
<1>1. /\ TypeOK /\ WorkInv(h) /\ Kind(h) \in {"updated", "closed", "assemble"}
      BY WalkIsTyped DEF WorkInv, Walking
<1>2. CASE Kind(h) = "assemble"
  <2>1. Target(h) \in {"evidence_assembling", "evidence_submitted"}
        BY <1>2 DEF Target
  <2> QED
      BY <2>1 DEF OpenStates, States, TerminalStates
<1>3. CASE Kind(h) # "assemble"
  <2>1. doing[h] \in sent
        BY <1>1, <1>3, WorkIsTyped DEF WorkInv, EventTypes
  <2>2. Target(h) = MapStripeDisputeStatus(doing[h].status)
        BY <1>1, <1>3 DEF Target, WorkInv
  <2>3. CASE Kind(h) = "updated"
        BY <2>1, <2>2, <2>3, MapOfUpdate DEF StripeInv, Kind
  <2>4. CASE Kind(h) = "closed"
    <3>1. doing[h] \in Closing
          BY <2>1, <2>4 DEF Closing, Kind
    <3> QED
        BY <2>2, <3>1 DEF Decided
  <2> QED
      BY <1>1, <1>3, <2>3, <2>4
<1> QED
    BY <1>2, <1>3

LEMMA NextLegitInv ==
    ASSUME IInv, StripeInv, LegitInv, [Next]_vars
    PROVE  LegitInv'
<1> DEFINE T == {"absent"} \cup OpenStates \cup Decided'
<1>1. Decided \subseteq Decided'
      BY NextStripeInv DEF Decided, Closing, IInv
<1>2. "absent" \in T /\ About(T)
      BY <1>1 DEF LegitInv, About
<1>3. ASSUME NEW h \in Workers, Insert(h)
      PROVE  row'.state \in T
      BY <1>1, <1>3, InsertedState
<1>4. ASSUME NEW h \in Workers, LogHop(h)
      PROVE  current'[h] \in T
  <2>1. Walking(h) /\ Target(h) \in Later[current[h]] /\ current[h] \in States
        BY <1>4, WalkIsTyped DEF LogHop
  <2>2. current'[h] = NextHop(current[h], Target(h))
        BY <1>4 DEF LogHop, IInv, TypeOK
  <2>3. current'[h] \in OpenStates \cup {Target(h)}
        BY <2>1, <2>2, NextHopIsOpenOrTarget
  <2> QED
      BY <1>1, <2>1, <2>3, TargetIsLegit
<1> HIDE DEF T
<1>5. AboutNext(T)
      BY <1>2, <1>3, <1>4, StatesSpread
<1> QED
    BY <1>5 DEF LegitInv, About, AboutNext, T

\* A request holds what it held, nothing, or a record in the state the row is in.
LEMMA HeldMoves ==
    ASSUME IInv, [Next]_vars, NEW g \in Workers
    PROVE  held'[g] = held[g] \/ held'[g].state \in {"absent", row'.state}
<1> DEFINE Goal(h) == held'[h] = held[h] \/ held'[h].state \in {"absent", row'.state}
<1>1. LocalsTyped /\ TypeOK /\ NoRow.state = "absent"
      BY TypeOKParts DEF IInv, NoRow
<1>2. ASSUME NEW h \in Workers, Quiet(h), Goal(h)
      PROVE  Goal(g)
      BY <1>2 DEF Quiet
<1>3. ASSUME NEW h \in Workers, NEW stage, NEW rec, NEW at, Goto(h, stage, rec, at),
             rec = held[h] \/ rec.state = row'.state
      PROVE  Goal(g)
      BY <1>1, <1>2, <1>3, GotoIsQuiet
<1>4. ASSUME NEW h \in Workers, Forget(h)
      PROVE  Goal(g)
      BY <1>1, <1>2, <1>4, ForgetIsQuiet
<1>5. CASE StripeOpens \/ StripeUpdates \/ StripeCloses \/ UNCHANGED vars
      BY <1>5 DEF StripeOpens, StripeUpdates, StripeCloses, Send, vars, locals
<1>6. ASSUME NEW h \in Workers,
             (\E e \in sent : Deliver(h, e)) \/ (\E a \in Accounts : Call(h, a)) \/ LogHop(h)
      PROVE  Goal(g)
      BY <1>6 DEF Deliver, Call, LogHop
<1>7. ASSUME NEW h \in Workers,
             \/ ReadMissing(h) \/ ReadDuplicate(h) \/ ReadForUpdate(h)
             \/ ReadForClosure(h) \/ ReadForCall(h) \/ Reread(h)
      PROVE  Goal(g)
  <2>1. row' = row
        BY <1>7 DEF ReadMissing, ReadDuplicate, ReadForUpdate, ReadForClosure, ReadForCall,
           ReadStep, Reread
  <2>2. (\E stage \in Stages : Goto(h, stage, row, row.state)) \/ Forget(h)
        BY <1>7 DEF ReadMissing, ReadDuplicate, ReadForUpdate, ReadForClosure, ReadForCall,
           Reread, Done, Stages
  <2> QED
      BY <1>3, <1>4, <2>1, <2>2
<1>8. ASSUME NEW h \in Workers, Insert(h) \/ Submit(h) \/ Fail(h) \/ Stay(h) \/ Refresh(h)
      PROVE  Goal(g)
  <2>1. (\E stage \in Stages : Goto(h, stage, held[h], current[h])) \/ Forget(h)
        BY <1>8 DEF Insert, Submit, Fail, Stay, Refresh, AfterWalk, Done, Stages
  <2> QED
      BY <1>3, <1>4, <2>1
<1>9. ASSUME NEW h \in Workers, Claim(h)
      PROVE  Goal(g)
  <2> DEFINE working == [held[h] EXCEPT !.account = Coalesce(held[h].account, doing[h].by),
                                        !.rep = TRUE]
  <2>1. held[h] \in Records /\ row \in Records /\ Kind(h) = "assemble"
        BY <1>1, <1>9 DEF IInv, WorkInv, Claim, TypeOK
  <2>2. working \in Records
        BY <1>1, <2>1, WorkIsTyped DEF Records, Coalesce
  <2>3. Upsert(h, working) /\ Goto(h, "walk", working, current[h])
        BY <1>9 DEF Claim
  <2> HIDE DEF working
  <2>4. row'.state = working.state
        BY <2>1, <2>2, <2>3, MergedTyped DEF Upsert
  <2> QED
      BY <1>3, <2>3, <2>4
<1>10. ASSUME NEW h \in Workers, Arrive(h)
       PROVE  Goal(g)
  <2> DEFINE moved == [held[h] EXCEPT !.state = current[h]]
  <2>1. held[h] \in Records /\ row \in Records
        BY <1>1 DEF TypeOK
  <2>2. moved \in Records
        BY <1>10, WalkIsTyped DEF Arrive, Records
  <2>3. Upsert(h, moved) /\ AfterWalk(h, moved)
        BY <1>10 DEF Arrive
  <2> HIDE DEF moved
  <2>4. row'.state = moved.state
        BY <2>1, <2>2, <2>3, MergedTyped DEF Upsert
  <2> QED
      BY <1>3, <1>4, <2>3, <2>4 DEF AfterWalk, Done
<1> QED
    BY <1>5, <1>6, <1>7, <1>8, <1>9, <1>10 DEF Next, Step

\* Without overlapping writes the row is opened once and moves along the graph.
LEMMA RowMovesOn ==
    ASSUME IInv, [Next]_vars, ~overlapped'
    PROVE  /\ ~overlapped
           /\ row.state \in States => row'.state \in {row.state} \cup Later[row.state]
<1>1. TypeOK /\ row \in Records
      BY DEF IInv, TypeOK
<1>2. CASE UNCHANGED <<row, overlapped>>
      BY <1>2
<1>3. ASSUME NEW h \in Workers, NEW rec \in Records, Stores(h, rec)
      PROVE  /\ ~overlapped
             /\ row.state \in States => row'.state \in {row.state} \cup Later[row.state]
  <2>1. ~overlapped /\ row = held[h]
        BY <1>1, <1>3 DEF Stores, Upsert, TypeOK
  <2>2. row'.state = rec.state
        BY <1>1, <1>3, MergedTyped DEF Stores, Upsert
  <2> QED
      BY <1>3, <2>1, <2>2, AbsentIsNoState DEF Stores, NoRow
<1> QED
    BY <1>2, <1>3, RowIsStored DEF RowMoves

LEMMA NextHeldIsPast ==
    ASSUME IInv, HeldIsPast, [Next]_vars
    PROVE  HeldIsPast'
<1> SUFFICES ASSUME ~overlapped', NEW g \in Workers, held'[g].state \in States
             PROVE  row'.state \in {held'[g].state} \cup Later[held'[g].state]
    BY DEF HeldIsPast
<1>1. CASE held'[g] = held[g]
  <2>1. row.state \in {held[g].state} \cup Later[held[g].state]
        BY <1>1, RowMovesOn DEF HeldIsPast
  <2>2. row.state \in States
        BY <1>1, <2>1, LaterDef
  <2>3. row'.state \in {row.state} \cup Later[row.state]
        BY <2>2, RowMovesOn
  <2> QED
      BY <1>1, <2>1, <2>3, LaterTransitive
<1>2. CASE held'[g].state \in {"absent", row'.state}
      BY <1>2, AbsentIsNoState
<1> QED
    BY <1>1, <1>2, HeldMoves

\* Stripe decides once.
LEMMA OneDecision ==
    ASSUME StripeInv, NEW e \in Closing
    PROVE  /\ Decided = {MapStripeDisputeStatus(e.status)}
           /\ e.status \in Outcomes
BY DEF StripeInv, Decided

\* What SettledAsDecided says of one closing event.
Settled(e) ==
    \/ row.state = MapStripeDisputeStatus(e.status)
    \/ /\ e.status = "charge_refunded"
       /\ row.state \in {"evidence_submitted", "under_review"}

SettledNext(e) ==
    \/ row'.state = MapStripeDisputeStatus(e.status)
    \/ /\ e.status = "charge_refunded"
       /\ row'.state \in {"evidence_submitted", "under_review"}

\* A dispute that is settled stays so.
LEMMA StaysSettled ==
    ASSUME IInv, StripeInv, LegitInv, [Next]_vars, ~overlapped', NEW e \in Closing, Settled(e)
    PROVE  SettledNext(e)
<1> DEFINE D == MapStripeDisputeStatus(e.status)
<1>1. D \in TerminalStates /\ e.status \in Outcomes
      BY OneDecision, MapOfOutcome
<1>2. CASE row.state = D
  <2>1. row.state \in States /\ Later[row.state] = {}
        BY <1>1, <1>2, TerminalIsLast DEF States
  <2> QED
      BY <1>2, <2>1, RowMovesOn DEF Settled, SettledNext
<1>3. CASE e.status = "charge_refunded" /\ row.state \in {"evidence_submitted", "under_review"}
  <2>1. row'.state \in {"evidence_submitted", "under_review", "won", "lost", "warning_closed"}
        BY <1>3, RowMovesOn, LaterThanEvidence DEF States
  <2>2. StripeInv' /\ LegitInv' /\ e \in Closing'
        BY NextStripeInv, NextLegitInv DEF Closing, IInv
  <2>3. Decided' = {"accepted"}
        BY <1>3, <2>2 DEF StripeInv, Decided, MapStripeDisputeStatus
  <2>4. row'.state \in {"absent", "accepted"} \cup OpenStates
        BY <2>2, <2>3 DEF LegitInv, About
  <2> QED
      BY <1>3, <2>1, <2>4 DEF SettledNext, OpenStates, TerminalStates
<1> QED
    BY <1>2, <1>3 DEF Settled, SettledNext

\* Only these steps answer a closing event.
LEMMA NewAck ==
    ASSUME IInv, [Next]_vars, NEW e \in acked' \ acked, e.type = "closed"
    PROVE  \E h \in Workers : /\ doing[h] = e
                              /\ Insert(h) \/ Arrive(h) \/ Stay(h)
<1>1. TypeOK /\ \A h \in Workers : WorkInv(h)
      BY DEF IInv
<1>2. CASE StripeOpens \/ StripeUpdates \/ StripeCloses \/ UNCHANGED vars
      BY <1>2 DEF StripeOpens, StripeUpdates, StripeCloses, Send, vars
<1>3. ASSUME NEW h \in Workers,
             \/ \E s \in sent : Deliver(h, s)
             \/ \E a \in Accounts : Call(h, a)
             \/ ReadMissing(h) \/ ReadForUpdate(h) \/ ReadForClosure(h) \/ Refresh(h)
             \/ Reread(h) \/ Claim(h) \/ LogHop(h) \/ Fail(h)
      PROVE  FALSE
      BY <1>3 DEF Deliver, Call, ReadMissing, ReadForUpdate, ReadForClosure, Goto, Refresh,
         Reread, Claim, LogHop, Fail
<1>4. ASSUME NEW h \in Workers, ReadDuplicate(h) \/ ReadForCall(h) \/ Submit(h)
      PROVE  FALSE
  <2>1. Kind(h) \in {"created", "assemble"}
        BY <1>1, <1>4 DEF ReadDuplicate, ReadForCall, Submit, WorkInv
  <2>2. acked' = acked \/ acked' = acked \cup {doing[h]}
        BY <1>4 DEF ReadDuplicate, ReadForCall, Submit, Done, Goto
  <2> QED
      BY <2>1, <2>2 DEF Kind, ReadForCall, Submit
<1>5. ASSUME NEW h \in Workers, Insert(h) \/ Arrive(h) \/ Stay(h)
      PROVE  doing[h] = e
      BY <1>5 DEF Insert, Arrive, Stay, AfterWalk, Done, Goto
<1> QED
    BY <1>2, <1>3, <1>4, <1>5 DEF Next, Step

\* The request that answers a closing event leaves the dispute settled.
LEMMA AckSettles ==
    ASSUME IInv, StripeInv, LegitInv, HeldIsPast, [Next]_vars, ~overlapped',
           NEW h \in Workers, doing[h].type = "closed", doing[h] \in Closing,
           Insert(h) \/ Arrive(h) \/ Stay(h)
    PROVE  SettledNext(doing[h])
<1> DEFINE D == MapStripeDisputeStatus(doing[h].status)
<1>1. /\ D \in TerminalStates /\ Decided = {D} /\ TypeOK /\ WorkInv(h) /\ ~overlapped
      /\ D = "accepted" => doing[h].status = "charge_refunded"
      BY OneDecision, MapOfOutcome, RowMovesOn DEF IInv
<1>2. CASE Insert(h)
  <2>1. row'.state = D
        BY <1>2, InsertedState DEF Kind
  <2> QED
      BY <1>2, <2>1 DEF SettledNext, Insert, Done, Forget
<1>3. CASE Arrive(h)
  <2>1. Target(h) = D
        BY <1>1, <1>3 DEF Target, WorkInv, Kind, Arrive
  <2> DEFINE moved == [held[h] EXCEPT !.state = current[h]]
  <2>2. held[h] \in Records /\ row \in Records
        BY <1>1 DEF TypeOK
  <2>3. moved \in Records /\ moved.state = D
        BY <1>3, <2>1, WalkIsTyped DEF Arrive, Records
  <2>4. Upsert(h, moved)
        BY <1>3 DEF Arrive
  <2> HIDE DEF moved
  <2>5. row'.state = D
        BY <2>2, <2>3, <2>4, MergedTyped DEF Upsert
  <2> QED
      BY <2>5 DEF SettledNext
<1>4. CASE Stay(h)
  <2>1. /\ Walking(h) /\ current[h] = held[h].state /\ Target(h) \notin Later[held[h].state]
        /\ row' = row
        BY <1>4 DEF Stay
  <2>2. Target(h) = D /\ held[h].state \in States
        BY <1>1, <2>1 DEF Target, WorkInv, Kind, Walking, HoldsRecord
  <2>3. held[h].state \in OpenStates \cup {D} /\ row.state \in {"absent", D} \cup OpenStates
        BY <1>1, <2>2, AbsentIsNoState DEF LegitInv, About
  <2>4. row.state \in {held[h].state} \cup Later[held[h].state]
        BY <1>1, <2>2 DEF HeldIsPast
  <2>5. CASE held[h].state = D
        BY <1>1, <2>1, <2>4, <2>5, TerminalIsLast DEF SettledNext
  <2>6. CASE held[h].state \in OpenStates
    <3>1. D = "accepted" /\ held[h].state \in {"evidence_submitted", "under_review"}
          BY <1>1, <2>1, <2>2, <2>6, OutcomesAreLater DEF TerminalStates
    <3>2. row.state \in {"evidence_submitted", "under_review", "won", "lost", "warning_closed"}
          BY <2>4, <3>1, LaterThanEvidence
    <3>3. row.state \in {"evidence_submitted", "under_review"}
          BY <2>3, <3>1, <3>2, AbsentIsNoState DEF OpenStates, TerminalStates
    <3> QED
        BY <1>1, <2>1, <3>1, <3>3 DEF SettledNext
  <2> QED
      BY <2>3, <2>5, <2>6
<1> QED
    BY <1>2, <1>3, <1>4

LEMMA NextSettled ==
    ASSUME IInv, SettledInv, [Next]_vars
    PROVE  SettledInv'
<1>1. StripeInv' /\ LegitInv' /\ HeldIsPast'
      BY NextStripeInv, NextLegitInv, NextHeldIsPast DEF SettledInv, IInv
<1>2. ASSUME ~overlapped', NEW e \in Closing' \cap acked'
      PROVE  SettledNext(e)
  <2>1. TypeOK /\ acked \subseteq sent /\ ~overlapped
        BY <1>2, RowMovesOn DEF IInv, TypeOK
  <2>2. e \in Closing
    <3>1. CASE sent' = sent
          BY <1>2, <3>1 DEF Closing
    <3>2. CASE sent' # sent
          BY <1>2, <2>1, <3>2, NextStripeInv DEF SettledInv, Closing
    <3> QED
        BY <3>1, <3>2
  <2>3. CASE e \in acked
    <3>1. Settled(e)
          BY <2>1, <2>2, <2>3 DEF SettledInv, SettledAsDecided, Settled
    <3> QED
        BY <1>2, <2>2, <3>1, StaysSettled DEF SettledInv
  <2>4. CASE e \notin acked
    <3>1. e.type = "closed"
          BY <2>2 DEF Closing
    <3>2. PICK h \in Workers : doing[h] = e /\ (Insert(h) \/ Arrive(h) \/ Stay(h))
          BY <1>2, <2>4, <3>1, NewAck
    <3> QED
        BY <1>2, <2>2, <3>1, <3>2, AckSettles DEF SettledInv
  <2> QED
      BY <2>3, <2>4
<1>3. SettledAsDecided'
      BY <1>2 DEF SettledAsDecided, SettledNext
<1> QED
    BY <1>1, <1>3 DEF SettledInv

\* Once Stripe's closing event has been answered, the dispute is where Stripe has
\* decided, in whatever order events were delivered, failed and came again, until
\* a request writes over another; only a refund after the evidence is lost.
THEOREM SettledWhereDecided == Spec => []SettledAsDecided
<1>1. Init => SettledInv
      BY AbsentIsNoState DEF Init, SettledInv, StripeInv, LegitInv, About, HeldIsPast,
         SettledAsDecided, Closing, NoRow
<1>2. SettledInv => SettledAsDecided
      BY DEF SettledInv
<1> QED
    BY <1>1, <1>2, InitIInv, NextIInv, NextSettled, PTL DEF Spec
=============================================================================
