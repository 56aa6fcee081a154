---------------------- MODULE PersistenceCreditsProofs ----------------------
(***************************************************************************)
(* The safety properties of PersistenceCredits, for any number of          *)
(* requests, deliveries and sessions.                                      *)
(***************************************************************************)
EXTENDS PersistenceCredits, TLAPS

Open == {"lock", "read", "write"}

\* A transaction that has read holds the account's lock.
LockHeld == \A w \in Procs : pc[w] \in {"read", "write"} => lock = w

\* Requests do the work of requests, deliveries that of a paid session.
JobFits ==
    \A w \in Procs : pc[w] \in Open \cup {"row"} =>
        /\ w \in Calls => job[w] \in CallJobs /\ pc[w] # "row"
        /\ w \in Deliveries => job[w] \in paid

\* A delivery that is past the purchase's row holds it, still pending.
RowHeld ==
    \A h \in Deliveries : pc[h] \in Open =>
        rowLock[job[h]] = h /\ stage[job[h]] = "pending"

\* Nobody has written since a transaction read, and what it writes is covered.
ReadIsSum ==
    \A w \in Procs : pc[w] = "write" => read[w] = balance /\ balance + delta[w] >= 0

\* Idle transactions do nothing.
IdleHasNoJob == \A w \in Procs : pc[w] \in {"idle", "done"} => job[w] = "none"

\* Without a straddled month a grant is under way in the month it was begun.
MonthStands ==
    ~straddled =>
        /\ \A m \in Months : m > month => suites[m] = 0
        /\ \A w \in Procs : job[w] = "suite" => at[w] = month

\* A grant that has looked the month up has found nothing.
MonthIsFree ==
    \A w \in Procs : pc[w] = "write" /\ job[w] = "suite" => suites[at[w]] = 0

IInv ==
    /\ TypeOK
    /\ LockHeld
    /\ JobFits
    /\ RowHeld
    /\ ReadIsSum
    /\ IdleHasNoJob
    /\ MonthStands
    /\ MonthIsFree
    /\ NeverOverdrawn
    /\ BalanceAddsUp
    /\ PackGrantedOnce
    /\ SuiteOncePerMonth

-----------------------------------------------------------------------------
(* Types *)

LEMMA TypeInit == Init => TypeOK
<1> SUFFICES ASSUME Init PROVE TypeOK
    OBVIOUS
<1>1. 0 \in Months /\ 0 \in 0..MaxFaults
      BY BoundsAssumption DEF Months
<1>2. pc \in [Procs -> {"idle", "row", "lock", "read", "write", "done"}] /\ job \in [Procs -> Jobs]
      BY DEF Init, Jobs
<1>3. /\ at \in [Procs -> Months] /\ read \in [Procs -> Int] /\ delta \in [Procs -> Int]
      /\ suites \in [Months -> Nat] /\ purchases \in [Sessions -> Nat]
      BY <1>1 DEF Init
<1>4. /\ lock \in Procs \cup {None} /\ rowLock \in [Sessions -> Procs \cup {None}]
      /\ stage \in [Sessions -> {"none", "open", "pending", "succeeded"}]
      BY DEF Init
<1>5. balance \in Int /\ after \in Int /\ month \in Months /\ faults \in 0..MaxFaults
      BY <1>1 DEF Init
<1>6. url \subseteq Sessions /\ paid \subseteq Sessions /\ acked \subseteq paid
      BY DEF Init
<1>7. trial \in BOOLEAN /\ straddled \in BOOLEAN
      BY DEF Init
<1> QED
    BY <1>2, <1>3, <1>4, <1>5, <1>6, <1>7 DEF TypeOK

\* Outside of its own transaction a step changes nothing of the others.
Others(w) ==
    \A v \in Procs \ {w} :
        /\ pc'[v] = pc[v] /\ job'[v] = job[v] /\ at'[v] = at[v]
        /\ read'[v] = read[v] /\ delta'[v] = delta[v]

\* What is left when a transaction is over.
LEMMA EndEffect ==
    ASSUME TypeOK, NEW w \in Procs, NEW b \in BOOLEAN, End(w, b)
    PROVE  /\ pc'[w] \in {"idle", "done"} /\ job'[w] = "none"
           /\ Others(w)
           /\ lock # w => lock' = lock
           /\ \A s \in Sessions : rowLock[s] # w => rowLock'[s] = rowLock[s]
           /\ straddled' = straddled /\ month' = month
BY DEF TypeOK, End, Others, clock

LEMMA EndTypes ==
    ASSUME TypeOK, JobFits, NEW w \in Procs, pc[w] \in Open \cup {"row"},
           NEW b \in BOOLEAN, End(w, b)
    PROVE  /\ pc' \in [Procs -> {"idle", "row", "lock", "read", "write", "done"}]
           /\ job' \in [Procs -> Jobs]
           /\ at' \in [Procs -> Months]
           /\ read' \in [Procs -> Int]
           /\ delta' \in [Procs -> Int]
           /\ lock' \in Procs \cup {None}
           /\ rowLock' \in [Sessions -> Procs \cup {None}]
           /\ url' \subseteq Sessions
           /\ paid' \subseteq Sessions
           /\ acked' \subseteq paid'
           /\ trial' \in BOOLEAN
           /\ month' \in Months
           /\ straddled' \in BOOLEAN
BY BoundsAssumption DEF TypeOK, End, Jobs, Months, clock, JobFits, Procs

-----------------------------------------------------------------------------
(* Steps that write nothing *)

LEMMA SessionStep ==
    ASSUME IInv, NEW s \in Sessions,
           OpenSession(s) \/ RecordPending(s) \/ Answer(s) \/ BuyerPays(s)
    PROVE  IInv'
<1>1. TypeOK'
      BY DEF IInv, TypeOK, OpenSession, RecordPending, Answer, BuyerPays, locals, ledger, packs, clock
<1>2. LockHeld'
      BY ProcsAssumption, JobsAssumption DEF IInv, TypeOK, LockHeld, OpenSession, RecordPending, Answer, BuyerPays, locals, ledger, packs, clock
<1>3. JobFits'
      BY ProcsAssumption, JobsAssumption DEF IInv, TypeOK, JobFits, Open, Procs, OpenSession, RecordPending, Answer, BuyerPays, locals, ledger, packs, clock
<1>4. RowHeld'
      BY ProcsAssumption, JobsAssumption DEF IInv, TypeOK, RowHeld, JobFits, Open, Procs, OpenSession, RecordPending, Answer, BuyerPays, locals, ledger, packs, clock
<1>5. ReadIsSum'
      BY ProcsAssumption, JobsAssumption DEF IInv, TypeOK, ReadIsSum, OpenSession, RecordPending, Answer, BuyerPays, locals, ledger, packs, clock
<1>6. IdleHasNoJob'
      BY ProcsAssumption, JobsAssumption DEF IInv, TypeOK, IdleHasNoJob, OpenSession, RecordPending, Answer, BuyerPays, locals, ledger, packs, clock
<1>7. MonthStands'
      BY ProcsAssumption, JobsAssumption DEF IInv, TypeOK, MonthStands, IdleHasNoJob, Procs, OpenSession, RecordPending, Answer, BuyerPays, locals, ledger, packs, clock
<1>8. MonthIsFree'
      BY ProcsAssumption, JobsAssumption DEF IInv, TypeOK, MonthIsFree, OpenSession, RecordPending, Answer, BuyerPays, locals, ledger, packs, clock
<1>9. NeverOverdrawn'
      BY ProcsAssumption, JobsAssumption DEF IInv, TypeOK, NeverOverdrawn, OpenSession, RecordPending, Answer, BuyerPays, locals, ledger, packs, clock
<1>10. BalanceAddsUp'
      BY ProcsAssumption, JobsAssumption DEF IInv, TypeOK, BalanceAddsUp, OpenSession, RecordPending, Answer, BuyerPays, locals, ledger, packs, clock
<1>11. PackGrantedOnce'
      BY ProcsAssumption, JobsAssumption DEF IInv, TypeOK, PackGrantedOnce, OpenSession, RecordPending, Answer, BuyerPays, locals, ledger, packs, clock
<1>12. SuiteOncePerMonth'
      BY ProcsAssumption, JobsAssumption DEF IInv, TypeOK, SuiteOncePerMonth, OpenSession, RecordPending, Answer, BuyerPays, locals, ledger, packs, clock
<1> QED
    BY <1>1, <1>2, <1>3, <1>4, <1>5, <1>6, <1>7, <1>8, <1>9, <1>10, <1>11, <1>12 DEF IInv

LEMMA BeginStep ==
    ASSUME IInv, NEW c \in Calls, NEW j \in CallJobs, Begin(c, j)
    PROVE  IInv'
<1>1. TypeOK'
      BY DEF IInv, TypeOK, Begin, Jobs, Procs, locals, ledger, packs, clock
<1>2. LockHeld'
      BY ProcsAssumption, JobsAssumption DEF IInv, TypeOK, LockHeld, Begin, Procs, locals, ledger, packs, clock
<1>3. JobFits'
      BY ProcsAssumption, JobsAssumption DEF IInv, TypeOK, JobFits, Open, Procs, Begin, locals, ledger, packs, clock
<1>4. RowHeld'
      BY ProcsAssumption, JobsAssumption DEF IInv, TypeOK, RowHeld, JobFits, Open, Procs, Begin, locals, ledger, packs, clock
<1>5. ReadIsSum'
      BY ProcsAssumption, JobsAssumption DEF IInv, TypeOK, ReadIsSum, Begin, Procs, locals, ledger, packs, clock
<1>6. IdleHasNoJob'
      BY ProcsAssumption, JobsAssumption DEF IInv, TypeOK, IdleHasNoJob, Begin, Procs, locals, ledger, packs, clock
<1>7. MonthStands'
      BY ProcsAssumption, JobsAssumption DEF IInv, TypeOK, MonthStands, IdleHasNoJob, Procs, Begin, locals, ledger, packs, clock
<1>8. MonthIsFree'
      BY ProcsAssumption, JobsAssumption DEF IInv, TypeOK, MonthIsFree, Begin, Procs, locals, ledger, packs, clock
<1>9. NeverOverdrawn'
      BY ProcsAssumption, JobsAssumption DEF IInv, TypeOK, NeverOverdrawn, Begin, Procs, locals, ledger, packs, clock
<1>10. BalanceAddsUp'
      BY ProcsAssumption, JobsAssumption DEF IInv, TypeOK, BalanceAddsUp, Begin, Procs, locals, ledger, packs, clock
<1>11. PackGrantedOnce'
      BY ProcsAssumption, JobsAssumption DEF IInv, TypeOK, PackGrantedOnce, Begin, Procs, locals, ledger, packs, clock
<1>12. SuiteOncePerMonth'
      BY ProcsAssumption, JobsAssumption DEF IInv, TypeOK, SuiteOncePerMonth, Begin, Procs, locals, ledger, packs, clock
<1> QED
    BY <1>1, <1>2, <1>3, <1>4, <1>5, <1>6, <1>7, <1>8, <1>9, <1>10, <1>11, <1>12 DEF IInv

LEMMA DeliverStep ==
    ASSUME IInv, NEW h \in Deliveries, NEW s \in Sessions, Deliver(h, s)
    PROVE  IInv'
<1>1. TypeOK'
      BY BoundsAssumption DEF IInv, TypeOK, Deliver, Jobs, Procs, ledger, packs, clock
<1>2. LockHeld'
      BY ProcsAssumption, JobsAssumption DEF IInv, TypeOK, LockHeld, Deliver, Procs, locals, ledger, packs, clock
<1>3. JobFits'
      BY ProcsAssumption, JobsAssumption DEF IInv, TypeOK, JobFits, Open, Procs, Deliver, locals, ledger, packs, clock
<1>4. RowHeld'
      BY ProcsAssumption, JobsAssumption DEF IInv, TypeOK, RowHeld, JobFits, Open, Procs, Deliver, locals, ledger, packs, clock
<1>5. ReadIsSum'
      BY ProcsAssumption, JobsAssumption DEF IInv, TypeOK, ReadIsSum, Deliver, Procs, locals, ledger, packs, clock
<1>6. IdleHasNoJob'
      BY ProcsAssumption, JobsAssumption DEF IInv, TypeOK, IdleHasNoJob, Deliver, Procs, locals, ledger, packs, clock
<1>7. MonthStands'
      BY ProcsAssumption, JobsAssumption DEF IInv, TypeOK, MonthStands, IdleHasNoJob, Procs, Deliver, locals, ledger, packs, clock
<1>8. MonthIsFree'
      BY ProcsAssumption, JobsAssumption DEF IInv, TypeOK, MonthIsFree, Deliver, Procs, locals, ledger, packs, clock
<1>9. NeverOverdrawn'
      BY ProcsAssumption, JobsAssumption DEF IInv, TypeOK, NeverOverdrawn, Deliver, Procs, locals, ledger, packs, clock
<1>10. BalanceAddsUp'
      BY ProcsAssumption, JobsAssumption DEF IInv, TypeOK, BalanceAddsUp, Deliver, Procs, locals, ledger, packs, clock
<1>11. PackGrantedOnce'
      BY ProcsAssumption, JobsAssumption DEF IInv, TypeOK, PackGrantedOnce, Deliver, Procs, locals, ledger, packs, clock
<1>12. SuiteOncePerMonth'
      BY ProcsAssumption, JobsAssumption DEF IInv, TypeOK, SuiteOncePerMonth, Deliver, Procs, locals, ledger, packs, clock
<1> QED
    BY <1>1, <1>2, <1>3, <1>4, <1>5, <1>6, <1>7, <1>8, <1>9, <1>10, <1>11, <1>12 DEF IInv

LEMMA RowTaken ==
    ASSUME IInv, NEW h \in Deliveries, Row(h)
    PROVE  IInv'
<1>1. TypeOK'
      BY DEF IInv, TypeOK, Row, Procs, locals, ledger, packs, clock
<1>2. LockHeld'
      BY ProcsAssumption, JobsAssumption DEF IInv, TypeOK, LockHeld, Row, Procs, locals, ledger, packs, clock
<1>3. JobFits'
      BY ProcsAssumption, JobsAssumption DEF IInv, TypeOK, JobFits, Open, Procs, Row, locals, ledger, packs, clock
<1>4. RowHeld'
      BY ProcsAssumption, JobsAssumption DEF IInv, TypeOK, RowHeld, JobFits, Open, Procs, Row, locals, ledger, packs, clock
<1>5. ReadIsSum'
      BY ProcsAssumption, JobsAssumption DEF IInv, TypeOK, ReadIsSum, Row, Procs, locals, ledger, packs, clock
<1>6. IdleHasNoJob'
      BY ProcsAssumption, JobsAssumption DEF IInv, TypeOK, IdleHasNoJob, Row, Procs, locals, ledger, packs, clock
<1>7. MonthStands'
      BY ProcsAssumption, JobsAssumption DEF IInv, TypeOK, MonthStands, IdleHasNoJob, Procs, Row, locals, ledger, packs, clock
<1>8. MonthIsFree'
      BY ProcsAssumption, JobsAssumption DEF IInv, TypeOK, MonthIsFree, Row, Procs, locals, ledger, packs, clock
<1>9. NeverOverdrawn'
      BY ProcsAssumption, JobsAssumption DEF IInv, TypeOK, NeverOverdrawn, Row, Procs, locals, ledger, packs, clock
<1>10. BalanceAddsUp'
      BY ProcsAssumption, JobsAssumption DEF IInv, TypeOK, BalanceAddsUp, Row, Procs, locals, ledger, packs, clock
<1>11. PackGrantedOnce'
      BY ProcsAssumption, JobsAssumption DEF IInv, TypeOK, PackGrantedOnce, Row, Procs, locals, ledger, packs, clock
<1>12. SuiteOncePerMonth'
      BY ProcsAssumption, JobsAssumption DEF IInv, TypeOK, SuiteOncePerMonth, Row, Procs, locals, ledger, packs, clock
<1> QED
    BY <1>1, <1>2, <1>3, <1>4, <1>5, <1>6, <1>7, <1>8, <1>9, <1>10, <1>11, <1>12 DEF IInv

LEMMA LockTaken ==
    ASSUME IInv, NEW w \in Procs, Lock(w)
    PROVE  IInv'
<1>1. TypeOK'
      BY DEF IInv, TypeOK, Lock, TakeLock, locals, ledger, packs, clock
<1>2. LockHeld'
      BY ProcsAssumption DEF IInv, TypeOK, LockHeld, Lock, TakeLock, Procs
<1>3. JobFits'
      BY ProcsAssumption, JobsAssumption DEF IInv, TypeOK, JobFits, Open, Procs, Lock, TakeLock, locals, ledger, packs, clock
<1>4. RowHeld'
      BY ProcsAssumption, JobsAssumption DEF IInv, TypeOK, RowHeld, JobFits, Open, Procs, Lock, TakeLock, locals, ledger, packs, clock
<1>5. ReadIsSum'
      BY ProcsAssumption, JobsAssumption DEF IInv, TypeOK, ReadIsSum, Lock, TakeLock, locals, ledger, packs, clock
<1>6. IdleHasNoJob'
      BY ProcsAssumption, JobsAssumption DEF IInv, TypeOK, IdleHasNoJob, Lock, TakeLock, locals, ledger, packs, clock
<1>7. MonthStands'
      BY ProcsAssumption, JobsAssumption DEF IInv, TypeOK, MonthStands, IdleHasNoJob, Procs, Lock, TakeLock, locals, ledger, packs, clock
<1>8. MonthIsFree'
      BY ProcsAssumption, JobsAssumption DEF IInv, TypeOK, MonthIsFree, Lock, TakeLock, locals, ledger, packs, clock
<1>9. NeverOverdrawn'
      BY ProcsAssumption, JobsAssumption DEF IInv, TypeOK, NeverOverdrawn, Lock, TakeLock, locals, ledger, packs, clock
<1>10. BalanceAddsUp'
      BY ProcsAssumption, JobsAssumption DEF IInv, TypeOK, BalanceAddsUp, Lock, TakeLock, locals, ledger, packs, clock
<1>11. PackGrantedOnce'
      BY ProcsAssumption, JobsAssumption DEF IInv, TypeOK, PackGrantedOnce, Lock, TakeLock, locals, ledger, packs, clock
<1>12. SuiteOncePerMonth'
      BY ProcsAssumption, JobsAssumption DEF IInv, TypeOK, SuiteOncePerMonth, Lock, TakeLock, locals, ledger, packs, clock
<1> QED
    BY <1>1, <1>2, <1>3, <1>4, <1>5, <1>6, <1>7, <1>8, <1>9, <1>10, <1>11, <1>12 DEF IInv

LEMMA ReadStep ==
    ASSUME IInv, NEW w \in Procs, Read(w)
    PROVE  IInv'
<1>1. TypeOK'
      BY CreditsAssumption, JobsAssumption DEF IInv, TypeOK, Read, Delta, ledger, packs, clock
<1>2. LockHeld'
      BY ProcsAssumption, JobsAssumption DEF IInv, TypeOK, LockHeld, Read, locals, ledger, packs, clock
<1>3. JobFits'
      BY ProcsAssumption, JobsAssumption DEF IInv, TypeOK, JobFits, Open, Procs, Read, locals, ledger, packs, clock
<1>4. RowHeld'
      BY ProcsAssumption, JobsAssumption DEF IInv, TypeOK, RowHeld, JobFits, Open, Procs, Read, locals, ledger, packs, clock
<1>5. ReadIsSum'
      BY CreditsAssumption, JobsAssumption DEF IInv, TypeOK, ReadIsSum, NeverOverdrawn, Read, Refused,
         Delta, NonNegative, ledger
<1>6. IdleHasNoJob'
      BY ProcsAssumption, JobsAssumption DEF IInv, TypeOK, IdleHasNoJob, Read, locals, ledger, packs, clock
<1>7. MonthStands'
      BY ProcsAssumption, JobsAssumption DEF IInv, TypeOK, MonthStands, IdleHasNoJob, Procs, Read, locals, ledger, packs, clock
<1>8. MonthIsFree'
      BY DEF IInv, TypeOK, MonthIsFree, Read, Refused, Granted, ledger
<1>9. NeverOverdrawn'
      BY ProcsAssumption, JobsAssumption DEF IInv, TypeOK, NeverOverdrawn, Read, locals, ledger, packs, clock
<1>10. BalanceAddsUp'
      BY ProcsAssumption, JobsAssumption DEF IInv, TypeOK, BalanceAddsUp, Read, locals, ledger, packs, clock
<1>11. PackGrantedOnce'
      BY ProcsAssumption, JobsAssumption DEF IInv, TypeOK, PackGrantedOnce, Read, locals, ledger, packs, clock
<1>12. SuiteOncePerMonth'
      BY ProcsAssumption, JobsAssumption DEF IInv, TypeOK, SuiteOncePerMonth, Read, locals, ledger, packs, clock
<1> QED
    BY <1>1, <1>2, <1>3, <1>4, <1>5, <1>6, <1>7, <1>8, <1>9, <1>10, <1>11, <1>12 DEF IInv

LEMMA TrialStep ==
    ASSUME IInv, TrialEnds
    PROVE  IInv'
<1>1. TypeOK'
      BY DEF IInv, TypeOK, TrialEnds, locals, ledger, packs
<1>2. LockHeld'
      BY ProcsAssumption, JobsAssumption DEF IInv, TypeOK, LockHeld, TrialEnds, locals, ledger, packs
<1>3. JobFits'
      BY ProcsAssumption, JobsAssumption DEF IInv, TypeOK, JobFits, Open, Procs, TrialEnds, locals, ledger, packs
<1>4. RowHeld'
      BY ProcsAssumption, JobsAssumption DEF IInv, TypeOK, RowHeld, JobFits, Open, Procs, TrialEnds, locals, ledger, packs
<1>5. ReadIsSum'
      BY ProcsAssumption, JobsAssumption DEF IInv, TypeOK, ReadIsSum, TrialEnds, locals, ledger, packs
<1>6. IdleHasNoJob'
      BY ProcsAssumption, JobsAssumption DEF IInv, TypeOK, IdleHasNoJob, TrialEnds, locals, ledger, packs
<1>7. MonthStands'
      BY ProcsAssumption, JobsAssumption DEF IInv, TypeOK, MonthStands, IdleHasNoJob, Procs, TrialEnds, locals, ledger, packs
<1>8. MonthIsFree'
      BY ProcsAssumption, JobsAssumption DEF IInv, TypeOK, MonthIsFree, TrialEnds, locals, ledger, packs
<1>9. NeverOverdrawn'
      BY ProcsAssumption, JobsAssumption DEF IInv, TypeOK, NeverOverdrawn, TrialEnds, locals, ledger, packs
<1>10. BalanceAddsUp'
      BY ProcsAssumption, JobsAssumption DEF IInv, TypeOK, BalanceAddsUp, TrialEnds, locals, ledger, packs
<1>11. PackGrantedOnce'
      BY ProcsAssumption, JobsAssumption DEF IInv, TypeOK, PackGrantedOnce, TrialEnds, locals, ledger, packs
<1>12. SuiteOncePerMonth'
      BY ProcsAssumption, JobsAssumption DEF IInv, TypeOK, SuiteOncePerMonth, TrialEnds, locals, ledger, packs
<1> QED
    BY <1>1, <1>2, <1>3, <1>4, <1>5, <1>6, <1>7, <1>8, <1>9, <1>10, <1>11, <1>12 DEF IInv

LEMMA MonthStep ==
    ASSUME IInv, NextMonth
    PROVE  IInv'
<1>1. TypeOK'
      <2>1. month' \in Months /\ month' = month + 1
            BY BoundsAssumption DEF IInv, TypeOK, NextMonth, Months
      <2>2. straddled' \in BOOLEAN
            BY DEF NextMonth
      <2> QED
          BY <2>1, <2>2 DEF IInv, TypeOK, NextMonth, locals, ledger, packs
<1>2. LockHeld'
      BY ProcsAssumption, JobsAssumption DEF IInv, TypeOK, LockHeld, NextMonth, locals, ledger, packs
<1>3. JobFits'
      BY ProcsAssumption, JobsAssumption DEF IInv, TypeOK, JobFits, Open, Procs, NextMonth, locals, ledger, packs
<1>4. RowHeld'
      BY ProcsAssumption, JobsAssumption DEF IInv, TypeOK, RowHeld, JobFits, Open, Procs, NextMonth, locals, ledger, packs
<1>5. ReadIsSum'
      BY ProcsAssumption, JobsAssumption DEF IInv, TypeOK, ReadIsSum, NextMonth, locals, ledger, packs
<1>6. IdleHasNoJob'
      BY ProcsAssumption, JobsAssumption DEF IInv, TypeOK, IdleHasNoJob, NextMonth, locals, ledger, packs
<1>7. MonthStands'
      <2> SUFFICES ASSUME ~straddled' PROVE MonthStands'
          BY DEF MonthStands
      <2>1. ~straddled /\ \A w \in Procs : job[w] # "suite"
            BY DEF NextMonth
      <2>2. \A m \in Months : m > month' => m > month
            BY DEF IInv, TypeOK, NextMonth, Months
      <2> QED
          BY <2>1, <2>2 DEF IInv, MonthStands, NextMonth, locals, ledger
<1>8. MonthIsFree'
      BY ProcsAssumption, JobsAssumption DEF IInv, TypeOK, MonthIsFree, NextMonth, locals, ledger, packs
<1>9. NeverOverdrawn'
      BY ProcsAssumption, JobsAssumption DEF IInv, TypeOK, NeverOverdrawn, NextMonth, locals, ledger, packs
<1>10. BalanceAddsUp'
      BY ProcsAssumption, JobsAssumption DEF IInv, TypeOK, BalanceAddsUp, NextMonth, locals, ledger, packs
<1>11. PackGrantedOnce'
      BY ProcsAssumption, JobsAssumption DEF IInv, TypeOK, PackGrantedOnce, NextMonth, locals, ledger, packs
<1>12. SuiteOncePerMonth'
      BY ProcsAssumption, JobsAssumption DEF IInv, TypeOK, SuiteOncePerMonth, NextMonth, locals, ledger, packs
<1> QED
    BY <1>1, <1>2, <1>3, <1>4, <1>5, <1>6, <1>7, <1>8, <1>9, <1>10, <1>11, <1>12 DEF IInv

-----------------------------------------------------------------------------
(* Steps that end a transaction *)

\* One that ends without a row leaves the others as they were.
LEMMA EmptyEnd ==
    ASSUME IInv, NEW w \in Procs, pc[w] \in Open \cup {"row"}, NEW b \in BOOLEAN, End(w, b),
           UNCHANGED <<ledger, stage>>, faults' \in 0..MaxFaults
    PROVE  IInv'
<1> USE DEF IInv
<1>0. /\ pc'[w] \in {"idle", "done"} /\ job'[w] = "none"
      /\ Others(w)
      /\ lock # w => lock' = lock
      /\ \A s \in Sessions : rowLock[s] # w => rowLock'[s] = rowLock[s]
      /\ straddled' = straddled /\ month' = month
      BY EndEffect
<1>1. TypeOK'
      BY EndTypes DEF TypeOK, ledger
<1>2. LockHeld'
      BY <1>0 DEF LockHeld, Others
<1>3. JobFits'
      BY <1>0 DEF JobFits, Others, Open, End
<1>4. RowHeld'
      <2> SUFFICES ASSUME NEW h \in Deliveries, pc'[h] \in Open
                   PROVE  rowLock'[job'[h]] = h /\ stage'[job'[h]] = "pending"
          BY DEF RowHeld
      <2>1. h # w /\ h \in Procs /\ pc[h] \in Open /\ job'[h] = job[h]
            BY <1>0 DEF Others, Open, Procs
      <2>2. rowLock[job[h]] = h /\ stage[job[h]] = "pending" /\ job[h] \in Sessions
            BY <2>1 DEF RowHeld, JobFits, TypeOK
      <2> QED
          BY <1>0, <2>1, <2>2
<1>5. ReadIsSum'
      BY <1>0 DEF ReadIsSum, Others, ledger
<1>6. IdleHasNoJob'
      BY <1>0 DEF IdleHasNoJob, Others
<1>7. MonthStands'
      BY <1>0 DEF MonthStands, Others, ledger
<1>8. MonthIsFree'
      BY <1>0 DEF MonthIsFree, Others, ledger
<1>9. NeverOverdrawn' /\ BalanceAddsUp' /\ PackGrantedOnce' /\ SuiteOncePerMonth'
      BY <1>0 DEF NeverOverdrawn, BalanceAddsUp, PackGrantedOnce, SuiteOncePerMonth, ledger
<1> QED
    BY <1>1, <1>2, <1>3, <1>4, <1>5, <1>6, <1>7, <1>8, <1>9

\* One that ends with its row: nobody else has read, nobody else has its pack.
LEMMA CommitEnd ==
    ASSUME IInv, NEW w \in Procs, NEW b \in BOOLEAN, Commit(w), End(w, b),
           faults' \in 0..MaxFaults
    PROVE  IInv'
<1> USE DEF IInv
<1>0. /\ pc'[w] \in {"idle", "done"} /\ job'[w] = "none"
      /\ Others(w)
      /\ lock # w => lock' = lock
      /\ \A s \in Sessions : rowLock[s] # w => rowLock'[s] = rowLock[s]
      /\ straddled' = straddled /\ month' = month
      BY EndEffect
<1>a. pc[w] = "write" /\ lock = w /\ read[w] = balance /\ balance + delta[w] >= 0
      BY DEF Commit, LockHeld, ReadIsSum
<1>b. \A v \in Procs \ {w} : pc'[v] \notin {"read", "write"}
      BY <1>0, <1>a DEF LockHeld, Others
<1>c. w \in Deliveries => job[w] \in Sessions /\ rowLock[job[w]] = w /\ stage[job[w]] = "pending"
      BY <1>a DEF JobFits, RowHeld, Open, TypeOK
<1>d. w \in Calls => w \notin Deliveries /\ job[w] \in CallJobs
      BY <1>a, ProcsAssumption DEF JobFits, Open
<1>1. TypeOK'
      <2>1. balance' \in Int /\ after' \in Int
            BY <1>a DEF Commit, TypeOK, NonNegative
      <2>2. suites' \in [Months -> Nat]
            <3>1. suites \in [Months -> Nat] /\ \A m \in Months : suites[m] + 1 \in Nat
                  BY DEF TypeOK
            <3> QED
                BY <3>1 DEF Commit
      <2>4. purchases' \in [Sessions -> Nat]
            <3>1. purchases \in [Sessions -> Nat] /\ \A s \in Sessions : purchases[s] + 1 \in Nat
                  BY DEF TypeOK
            <3> QED
                BY <3>1 DEF Commit
      <2>3. stage' \in [Sessions -> {"none", "open", "pending", "succeeded"}]
            BY DEF Commit, TypeOK
      <2> QED
          BY <1>a, <2>1, <2>2, <2>3, <2>4, EndTypes DEF TypeOK, Open
<1>2. LockHeld'
      BY <1>0, <1>b DEF LockHeld
<1>3. JobFits'
      BY <1>0 DEF JobFits, Others, Open, End
<1>4. RowHeld'
      <2> SUFFICES ASSUME NEW h \in Deliveries, pc'[h] \in Open
                   PROVE  rowLock'[job'[h]] = h /\ stage'[job'[h]] = "pending"
          BY DEF RowHeld
      <2>1. h # w /\ h \in Procs /\ pc[h] \in Open /\ job'[h] = job[h]
            BY <1>0 DEF Others, Open, Procs
      <2>2. rowLock[job[h]] = h /\ stage[job[h]] = "pending" /\ job[h] \in Sessions
            BY <2>1 DEF RowHeld, JobFits, TypeOK
      <2>3. w \in Deliveries => job[w] # job[h]
            BY <1>c, <2>1, <2>2
      <2>4. stage'[job[h]] = stage[job[h]]
            BY <2>2, <2>3, <1>c DEF Commit, TypeOK
      <2> QED
          BY <1>0, <2>1, <2>2, <2>4
<1>5. ReadIsSum'
      BY <1>0, <1>b DEF ReadIsSum
<1>6. IdleHasNoJob'
      BY <1>0 DEF IdleHasNoJob, Others
<1>7. MonthStands'
      <2>1. \A m \in Months : m > month => suites'[m] = suites[m]
            BY DEF Commit, TypeOK, Months
      <2> QED
          BY <1>0, <2>1 DEF MonthStands, Others
<1>8. MonthIsFree'
      BY <1>0, <1>b DEF MonthIsFree
<1>9. NeverOverdrawn' /\ BalanceAddsUp'
      BY <1>a DEF NeverOverdrawn, BalanceAddsUp, Commit, NonNegative, TypeOK
<1>10. PackGrantedOnce'
      <2>1. CASE w \in Deliveries
            BY <2>1, <1>c DEF PackGrantedOnce, Commit, TypeOK
      <2>2. CASE w \notin Deliveries
            BY <2>2 DEF PackGrantedOnce, Commit
      <2> QED
          BY <2>1, <2>2
<1>11. SuiteOncePerMonth'
      <2> SUFFICES ASSUME ~straddled', NEW m \in Months
                   PROVE  suites'[m] <= 1
          BY DEF SuiteOncePerMonth
      <2>1. CASE job[w] = "suite" /\ m = month
            <3>1. suites[month] = 0
                  BY <1>0, <1>a, <2>1 DEF MonthIsFree, MonthStands
            <3> QED
                BY <2>1, <3>1 DEF Commit, TypeOK
      <2>2. CASE ~(job[w] = "suite" /\ m = month)
            <3>1. suites'[m] = suites[m]
                  BY <2>2 DEF Commit, TypeOK
            <3> QED
                BY <1>0, <3>1 DEF SuiteOncePerMonth
      <2> QED
          BY <2>1, <2>2
<1> QED
    BY <1>1, <1>2, <1>3, <1>4, <1>5, <1>6, <1>7, <1>8, <1>9, <1>10, <1>11

-----------------------------------------------------------------------------
(* The theorems *)

LEMMA IInvInit == Init => IInv
<1> SUFFICES ASSUME Init PROVE IInv
    OBVIOUS
<1>1. TypeOK
      BY TypeInit
<1>2. /\ LockHeld /\ JobFits /\ RowHeld /\ ReadIsSum /\ IdleHasNoJob /\ MonthIsFree
      /\ NeverOverdrawn /\ BalanceAddsUp
      BY DEF Init, LockHeld, JobFits, RowHeld, ReadIsSum, IdleHasNoJob, MonthIsFree,
             NeverOverdrawn, BalanceAddsUp, Open, Procs
<1>3. MonthStands /\ PackGrantedOnce /\ SuiteOncePerMonth
      BY DEF Init, MonthStands, PackGrantedOnce, SuiteOncePerMonth
<1> QED
    BY <1>1, <1>2, <1>3 DEF IInv

LEMMA IInvStep == IInv /\ [Next]_vars => IInv'
<1> SUFFICES ASSUME IInv, [Next]_vars PROVE IInv'
    OBVIOUS
<1>0. faults \in 0..MaxFaults /\ (Faulted => faults' \in 0..MaxFaults)
      BY BoundsAssumption DEF IInv, TypeOK, Faulted
<1>1. ASSUME NEW s \in Sessions,
             OpenSession(s) \/ RecordPending(s) \/ Answer(s) \/ BuyerPays(s)
      PROVE  IInv'
      BY <1>1, SessionStep
<1>2. ASSUME NEW c \in Calls, NEW j \in CallJobs, Begin(c, j) PROVE IInv'
      BY <1>2, BeginStep
<1>3. ASSUME NEW h \in Deliveries, NEW s \in Sessions, Deliver(h, s) PROVE IInv'
      BY <1>3, DeliverStep
<1>4. ASSUME NEW h \in Deliveries, RowStep(h) PROVE IInv'
      <2>1. CASE Row(h)
            BY <2>1, RowTaken
      <2>2. CASE RowSettled(h)
            BY <1>0, <2>2, EmptyEnd DEF RowSettled, Procs
      <2> QED
          BY <1>4, <2>1, <2>2 DEF RowStep
<1>5. ASSUME NEW w \in Procs, Step(w) \/ WriteUnacked(w) \/ Fail(w) PROVE IInv'
      <2>1. CASE Lock(w)
            BY <2>1, LockTaken
      <2>2. CASE Refuse(w)
            BY <1>0, <2>2, EmptyEnd DEF Refuse, Open
      <2>3. CASE Read(w)
            BY <2>3, ReadStep
      <2>4. CASE Write(w)
            BY <1>0, <2>4, CommitEnd DEF Write
      <2>5. CASE WriteUnacked(w)
            BY <1>0, <2>5, CommitEnd DEF WriteUnacked
      <2>6. CASE Fail(w)
            BY <1>0, <2>6, EmptyEnd DEF Fail, Open
      <2> QED
          BY <1>5, <2>1, <2>2, <2>3, <2>4, <2>5, <2>6 DEF Step
<1>6. CASE TrialEnds \/ NextMonth
      BY <1>6, TrialStep, MonthStep
<1>7. CASE UNCHANGED vars
      BY <1>7 DEF vars, locals, ledger, packs, clock, IInv, TypeOK, LockHeld, JobFits, RowHeld,
                  ReadIsSum, IdleHasNoJob, MonthStands, MonthIsFree, NeverOverdrawn,
                  BalanceAddsUp, PackGrantedOnce, SuiteOncePerMonth
<1> QED
    BY <1>1, <1>2, <1>3, <1>4, <1>5, <1>6, <1>7 DEF Next

\* The invariant holds in every reachable state.
THEOREM Inductive == Spec => []IInv
BY IInvInit, IInvStep, PTL DEF Spec

\* The variables keep their types.
THEOREM TypeCorrect == Spec => []TypeOK
<1>1. IInv => TypeOK
      BY DEF IInv
<1> QED
    BY <1>1, Inductive, PTL

\* However many debits, packs and grants race, the balance never becomes negative
\* and every row's balance_after is the SUM up to it.
THEOREM LedgerStaysSound == Spec => []LedgerIsSound
<1>1. IInv => LedgerIsSound
      BY DEF IInv, LedgerIsSound
<1> QED
    BY <1>1, Inductive, PTL

\* A pack is granted once, and exactly if its purchase has succeeded, for any
\* number of deliveries, failures and unacknowledged commits.
THEOREM PacksAreGrantedOnce == Spec => []PackGrantedOnce
<1>1. IInv => PackGrantedOnce
      BY DEF IInv
<1> QED
    BY <1>1, Inductive, PTL

\* The monthly grant is given once a month unless a month begins within one.
THEOREM MonthIsGrantedOnce == Spec => []SuiteOncePerMonth
<1>1. IInv => SuiteOncePerMonth
      BY DEF IInv
<1> QED
    BY <1>1, Inductive, PTL
=============================================================================
