-------------------------- MODULE JobBudgetProofs ---------------------------
(***************************************************************************)
(* The bounds of JobBudget, for every number of jobs, budgets and faults.  *)
(*                                                                         *)
(* What a job may have spent is a function of its row (Spent): whole send  *)
(* cycles, and in the current one as many transient failures as the row    *)
(* shows.  A shutdown may put a row back after its result was written, so  *)
(* while it is under way the fault it is has not been used up (Reserve).   *)
(***************************************************************************)
EXTENDS DMQueueProofs, JobBudget

Open(row) == row.status \in {"absent", "queued", "sending", "retry_wait", "cancelled"}

InCycle(row) ==
    IF Open(row)
    THEN IF row.transient < MaxDMAttempts THEN row.transient ELSE MaxDMAttempts - 1
    ELSE IF row.cycle = MaxDeliveryAttempts THEN 0 ELSE MaxDMAttempts

Spent(row) == row.cycle * CycleBudget + InCycle(row)

Reserve(j) == IF mode = "stopping" /\ wJob = j THEN MaxDMAttempts ELSE 0

\* As long as the result of a request was not written, the row is none that a
\* result or an answer leaves behind; and only one thread releases a claim.
ClaimedOpen ==
    /\ HasClaim /\ (mode = "up" \/ "apply" \in threads) =>
           jobs[wJob].status \in {"sending", "queued", "cancelled"}
    /\ ~({"read", "write"} \subseteq threads)

\* A request that was made and not yet counted.
InDebt(j) ==
    IF wJob = j /\ (mode # "up" \/ threads # {"read"})
    THEN mode = "up" /\ (phase = "sending" \/ ("apply" \in threads /\ Counted(result)))
    ELSE jobs[j].status = "cancelled"

BudgetInv ==
    \A j \in JobId :
        /\ attempts[j] + Reserve(j) <= Spent(jobs[j]) + faults * MaxDMAttempts
        /\ ~Exists(j) => attempts[j] = 0

DebtInv ==
    \A j \in JobId : requests[j] <= attempts[j] + faults + IF InDebt(j) THEN 1 ELSE 0

CountInv ==
    /\ attempts \in [JobId -> Nat] /\ requests \in [JobId -> Nat]
    /\ BudgetInv
    /\ DebtInv

BInv == IInv /\ ClaimInv /\ ClaimedOpen /\ CountInv

-----------------------------------------------------------------------------
(* The row of a claim whose result was not written.                        *)

LEMMA InitClaimedOpen == Init => ClaimedOpen
BY DEF Init, ClaimedOpen, HasClaim

\* As RowsMove: the worker and the process stay, the claimed row stays, is requeued
\* or cancelled.
LEMMA OpenRowsMove ==
    ASSUME ClaimedOpen, UNCHANGED <<phase, wJob, threads, mode>>,
           HasClaim => \/ jobs'[wJob].status = jobs[wJob].status
                       \/ jobs'[wJob].status \in {"queued", "cancelled"}
    PROVE  ClaimedOpen'
BY DEF ClaimedOpen, HasClaim

LEMMA EventWorkerOpen == ASSUME IInv, ClaimedOpen, EventWorker PROVE ClaimedOpen'
<1>1. UNCHANGED <<phase, wJob, threads, mode>>
  BY DEF EventWorker, CreateJobs, RecordDeletion, CancelJobs, worker, process
<1>2. ASSUME NEW J \in SUBSET JobId, NEW c \in Origins, CreateJobs(J, c)
      PROVE  HasClaim => jobs'[wJob].status = jobs[wJob].status
  BY <1>2, CreatedRows DEF IInv, WorkerInv, Exists
<1>3. ASSUME NEW c \in Comments, CancelJobs(c), HasClaim
      PROVE  jobs'[wJob].status \in {jobs[wJob].status, "cancelled"}
  BY <1>3, HeldKey, StatusWrites DEF CancelJobs
<1>4. ASSUME NEW c \in Comments, RecordDeletion(c) PROVE jobs' = jobs
  BY <1>4 DEF RecordDeletion
<1> QED
  BY <1>1, <1>2, <1>3, <1>4, OpenRowsMove DEF EventWorker

LEMMA ClaimingOpen == ASSUME IInv, ClaimedOpen, Claiming PROVE ClaimedOpen'
<1>1. CASE SelectCandidates \/ ClaimNone
  BY <1>1 DEF SelectCandidates, ClaimNone, ClaimedOpen, HasClaim, table, process
<1>2. ASSUME NEW j \in JobId, ClaimNextJob(j) PROVE ClaimedOpen'
  BY <1>2 DEF ClaimNextJob, ClaimedOpen, HasClaim, Claim, IInv, TypeOK, Row, process
<1>3. ASSUME NEW j \in JobId, LoseClaim(j) PROVE ClaimedOpen'
  BY <1>3 DEF LoseClaim, ClaimedOpen, HasClaim
<1> QED
  BY <1>1, <1>2, <1>3 DEF Claiming

LEMMA SettleOpen ==
    ASSUME ClaimedOpen, NEW steps, NEW r, Settle(steps, r), HasClaim, mode' = mode,
           ~({"read", "write"} \subseteq steps),
           \/ steps = {}
           \/ mode # "up" /\ "apply" \notin steps
           \/ /\ jobs'[wJob].status = jobs[wJob].status \/ jobs'[wJob].status = "queued"
              /\ mode = "up" \/ "apply" \in threads
    PROVE  ClaimedOpen'
BY DEF Settle, ClaimedOpen, HasClaim

LEMMA ApplyOpen == ASSUME IInv, ClaimInv, ClaimedOpen, ApplyResult PROVE ClaimedOpen'
<1>1. HasClaim /\ "apply" \in threads /\ mode' = mode
  BY DEF ApplyResult, IInv, WorkerInv, HasClaim, process
<1>2. mode = "up" => threads \ {"apply"} = {}
  BY <1>1 DEF IInv, WorkerInv
<1>3. CASE Settle(threads \ {"apply"}, result)
  <2>1. ~({"read", "write"} \subseteq threads \ {"apply"})
    BY DEF ClaimedOpen
  <2> QED
    BY <1>1, <1>2, <1>3, <2>1, SettleOpen
<1>4. CASE AfterFailure("apply") /\ UNCHANGED jobs
  <2>1. CASE mode = "up"
    BY <1>1, <1>4, <2>1, SettleOpen DEF AfterFailure
  <2>2. CASE mode # "up"
    <3>1. ~({"read", "write"} \subseteq threads \ {"apply"})
      BY DEF ClaimedOpen
    <3> QED
      BY <1>1, <1>4, <2>2, <3>1, SettleOpen DEF AfterFailure
  <2> QED
    BY <2>1, <2>2
<1> QED
  BY <1>3, <1>4 DEF ApplyResult

LEMMA SettlingOpen == ASSUME IInv, ClaimInv, ClaimedOpen, Settling PROVE ClaimedOpen'
<1>1. CASE SendRaises
  <2>1. HasClaim /\ Settle({"read"}, None) /\ mode' = mode /\ jobs' = jobs /\ mode = "up"
    BY <1>1 DEF SendRaises, HasClaim, table
  <2> QED
    BY <2>1, SettleOpen
<1>2. ASSUME NEW r \in SendResults, SendReturns(r) PROVE ClaimedOpen'
  <2>1. HasClaim /\ Settle({"apply"}, r) /\ mode' = mode /\ jobs' = jobs /\ mode = "up"
    BY <1>2 DEF SendReturns, HasClaim, table
  <2> QED
    BY <2>1, SettleOpen
<1>3. CASE ReleaseRead
  <2> DEFINE steps == (threads \ {"read"}) \cup
                          (IF ReleaseNeeded(wJob) THEN {"write"} ELSE {})
  <2>1. HasClaim /\ Settle(steps, result) /\ mode' = mode /\ jobs' = jobs
    BY <1>3 DEF ReleaseRead, IInv, WorkerInv, HasClaim, table, process
  <2>2. ~({"read", "write"} \subseteq steps) /\ ("apply" \in steps => "apply" \in threads)
    OBVIOUS
  <2> HIDE DEF steps
  <2> QED
    BY <2>1, <2>2, SettleOpen
<1>4. CASE ReleaseWrite
  <2>1. HasClaim /\ Settle(threads \ {"write"}, result) /\ mode' = mode
        /\ wJob \in JobId /\ jobs[wJob] \in Row
    BY <1>4 DEF ReleaseWrite, IInv, WorkerInv, HasClaim, TypeOK, process
  <2>2. mode = "up" => threads \ {"write"} = {}
    BY <1>4 DEF ReleaseWrite, ClaimInv
  <2>3. jobs'[wJob].status \in {jobs[wJob].status, "queued"}
    BY <1>4, <2>1, StatusWrites DEF ReleaseWrite, IInv, TypeOK
  <2>4. ~({"read", "write"} \subseteq threads \ {"write"})
    OBVIOUS
  <2>5. CASE mode = "up"
    BY <2>1, <2>2, <2>4, <2>5, SettleOpen
  <2>6. CASE mode # "up"
    BY <2>1, <2>3, <2>4, <2>6, SettleOpen
  <2> QED
    BY <2>5, <2>6
<1>5. ASSUME NEW step \in threads, ThreadFails(step) PROVE ClaimedOpen'
  <2>1. HasClaim /\ AfterFailure(step) /\ mode' = mode /\ jobs' = jobs
    BY <1>5 DEF ThreadFails, IInv, WorkerInv, HasClaim, table
  <2>2. mode = "up" => threads \ {step} = {}
    BY <1>5 DEF ClaimInv
  <2>3. CASE step = "apply" /\ mode = "up"
    BY <1>5, <2>1, <2>3, SettleOpen DEF AfterFailure
  <2>4. CASE ~(step = "apply" /\ mode = "up")
    <3>1. ~({"read", "write"} \subseteq threads \ {step})
      BY DEF ClaimedOpen
    <3> QED
      BY <2>1, <2>2, <2>4, <3>1, SettleOpen DEF AfterFailure
  <2> QED
    BY <2>3, <2>4
<1> QED
  BY <1>1, <1>2, <1>3, <1>4, <1>5 DEF Settling

LEMMA NextClaimedOpen == IInv /\ ClaimInv /\ ClaimedOpen /\ [Next]_vars => ClaimedOpen'
<1> SUFFICES ASSUME IInv, ClaimInv, ClaimedOpen, [Next]_vars PROVE ClaimedOpen'
  OBVIOUS
<1>1. CASE SendRequest
  BY <1>1 DEF SendRequest, ClaimedOpen, HasClaim, table, process
<1>2. CASE PseudoGram \/ Polling \/ UNCHANGED vars
  <2>1. UNCHANGED <<jobs, phase, wJob, threads, mode>>
    BY <1>2 DEF PseudoGram, DMOutcome, LateArrives, Polling, ReconLoad, ReconPoll,
       ReconPollFails, ReconApplyFails, vars, table, worker, process
  <2> QED
    BY <2>1, OpenRowsMove
<1>3. CASE ReconApply
  <2>1. HasClaim => jobs'[wJob] = jobs[wJob]
    BY <1>3 DEF ReconApply, IInv, PollInv, TypeOK, WorkerInv
  <2> QED
    BY <1>3, <2>1, OpenRowsMove DEF ReconApply, worker, process
<1>4. ASSUME NEW j \in JobId, RequeueStale(j) PROVE ClaimedOpen'
  <2>1. HasClaim => jobs'[wJob].status \in {jobs[wJob].status, "queued"}
    BY <1>4, HeldKey, StatusWrites DEF RequeueStale, IInv, TypeOK
  <2> QED
    BY <1>4, <2>1, OpenRowsMove DEF RequeueStale, worker, process
<1>5. CASE Stop
  <2>1. jobs' = jobs /\ mode' = "stopping" /\ mode = "up"
    BY <1>5 DEF Stop, table
  <2>2. CASE Settle(threads \cup {"read"}, result)
             /\ (phase \in {"acquiring", "sending"} \/ "apply" \in threads)
    BY <2>1, <2>2 DEF Settle, ClaimedOpen, ClaimInv, HasClaim, IInv, WorkerInv
  <2>3. CASE UNCHANGED <<phase, wJob, wKey, result, threads>>
    BY <2>1, <2>3 DEF ClaimedOpen, HasClaim
  <2> QED
    BY <1>5, <2>2, <2>3 DEF Stop
<1>6. CASE ExitProcess \/ Crash \/ Restart
  BY <1>6 DEF ExitProcess, Crash, Restart, Forget, ClaimedOpen, HasClaim, IInv,
     WorkerInv, worker
<1> QED
  BY <1>1, <1>2, <1>3, <1>4, <1>5, <1>6, EventWorkerOpen, ClaimingOpen, ApplyOpen,
     SettlingOpen DEF Next, DMWorker, Reconciler, Manager

-----------------------------------------------------------------------------
(* Arithmetic of the two budgets.                                          *)

LEMMA CycleCost ==
    ASSUME NEW c \in Nat
    PROVE  /\ CycleBudget = MaxDMAttempts + 1 /\ CycleBudget \in Nat
           /\ c * CycleBudget \in Nat
           /\ (c + 1) * CycleBudget = c * CycleBudget + MaxDMAttempts + 1
<1>1. CycleBudget = MaxDMAttempts + 1 /\ CycleBudget \in Nat
  BY BudgetsArePositive DEF CycleBudget
<1>2. ASSUME NEW k \in Nat PROVE c * k \in Nat /\ (c + 1) * k = c * k + k
  OBVIOUS
<1>3. c * CycleBudget \in Nat /\ (c + 1) * CycleBudget = c * CycleBudget + CycleBudget
  BY <1>1, <1>2
<1> QED
  BY <1>1, <1>3, BudgetsArePositive

LEMMA EarlierCycleCostsLess ==
    ASSUME NEW c \in Nat, NEW d \in Nat, c < d
    PROVE  c * CycleBudget + CycleBudget <= d * CycleBudget
<1>1. PICK e \in Nat : d = c + 1 + e
  <2>1. d - c - 1 \in Nat /\ d = c + 1 + (d - c - 1)
    OBVIOUS
  <2> QED
    BY <2>1
<1>2. CycleBudget \in Nat /\ e * CycleBudget \in Nat
  BY CycleCost
<1>3. (c + 1 + e) * CycleBudget = c * CycleBudget + CycleBudget + e * CycleBudget
  BY <1>2
<1>4. c * CycleBudget \in Nat
  BY CycleCost
<1> QED
  BY <1>1, <1>2, <1>3, <1>4

\* What the arithmetic of a fault needs.
LEMMA FaultCost ==
    ASSUME IInv
    PROVE  /\ faults \in Nat /\ faults * MaxDMAttempts \in Nat
           /\ (faults + 1) * MaxDMAttempts = faults * MaxDMAttempts + MaxDMAttempts
           /\ MaxDMAttempts \in Nat \ {0}
<1>1. faults \in Nat /\ MaxDMAttempts \in Nat \ {0}
  BY BudgetsArePositive, BoundsAreNumbers DEF IInv, TypeOK
<1> QED
  BY <1>1

LEMMA SpentIsCounted ==
    ASSUME NEW row \in Row
    PROVE  /\ Spent(row) \in Nat /\ InCycle(row) \in 0 .. MaxDMAttempts
           /\ row.cycle \in Nat /\ row.cycle * CycleBudget \in Nat
<1>1. row.cycle \in Nat /\ row.transient \in Nat /\ MaxDMAttempts \in Nat \ {0}
  BY BudgetsArePositive DEF Row
<1>2. InCycle(row) \in 0 .. MaxDMAttempts
  BY <1>1 DEF InCycle
<1>3. row.cycle * CycleBudget \in Nat
  BY <1>1, CycleCost
<1> QED
  BY <1>1, <1>2, <1>3 DEF Spent

\* A row that is not given up has a cycle left, so no row spends more than all.
LEMMA SpentIsBounded ==
    ASSUME NEW row \in Row, row.status # "failed" => row.cycle \in Cycles
    PROVE  Spent(row) <= MaxDeliveryAttempts * CycleBudget
<1>1. /\ row.cycle \in 0 .. MaxDeliveryAttempts /\ row.transient \in Nat
      /\ MaxDMAttempts \in Nat \ {0} /\ MaxDeliveryAttempts \in Nat \ {0}
  BY BudgetsArePositive DEF Row
<1>2. InCycle(row) \in 0 .. MaxDMAttempts
  BY SpentIsCounted
<1>3. CASE row.cycle < MaxDeliveryAttempts
  <2>1. /\ row.cycle * CycleBudget + CycleBudget <= MaxDeliveryAttempts * CycleBudget
        /\ row.cycle * CycleBudget \in Nat /\ MaxDeliveryAttempts * CycleBudget \in Nat
        /\ CycleBudget = MaxDMAttempts + 1
    BY <1>1, <1>3, EarlierCycleCostsLess, CycleCost
  <2> QED
    BY <1>1, <1>2, <2>1 DEF Spent
<1>4. CASE row.cycle = MaxDeliveryAttempts
  <2>1. row.status = "failed"
    BY <1>1, <1>4 DEF Cycles
  <2>2. InCycle(row) = 0
    BY <1>4, <2>1 DEF InCycle, Open
  <2>3. MaxDeliveryAttempts * CycleBudget \in Nat
    BY <1>1, CycleCost
  <2> QED
    BY <1>4, <2>2, <2>3 DEF Spent
<1> QED
  BY <1>1, <1>3, <1>4

\* Moves among the open statuses spend nothing.
LEMMA OpenSpent ==
    ASSUME NEW row \in Row, NEW new \in {Claim(row), Cancel(row), Requeue(row)}
    PROVE  /\ Open(row) => Spent(new) = Spent(row)
           /\ Spent(row) <= Spent(new) + MaxDMAttempts
           /\ new \in Row
<1>1. /\ new \in Row /\ new.cycle = row.cycle /\ new.transient = row.transient
      /\ Open(new)
  BY DEF Claim, Cancel, Requeue, Row, Statuses, Open
<1>2. Open(row) => InCycle(new) = InCycle(row)
  BY <1>1 DEF InCycle
<1>3. /\ InCycle(new) \in 0 .. MaxDMAttempts /\ InCycle(row) \in 0 .. MaxDMAttempts
      /\ row.cycle * CycleBudget \in Nat /\ MaxDMAttempts \in Nat
  BY <1>1, SpentIsCounted, BudgetsArePositive
<1> QED
  BY <1>1, <1>2, <1>3 DEF Spent

-----------------------------------------------------------------------------
(* The budget.                                                             *)

LEMMA InitBudget == BInit => CountInv
<1> SUFFICES ASSUME BInit PROVE CountInv
  OBVIOUS
<1>1. /\ \A j \in JobId : attempts[j] = 0 /\ requests[j] = 0 /\ jobs[j] \in Row
      /\ attempts \in [JobId -> Nat] /\ requests \in [JobId -> Nat]
      /\ mode = "up" /\ faults = 0 /\ MaxDMAttempts \in Nat
  BY InitIInv, BudgetsArePositive DEF BInit, Init, IInv, TypeOK
<1>2. \A j \in JobId : Spent(jobs[j]) \in Nat /\ Reserve(j) = 0
  BY <1>1, SpentIsCounted DEF Reserve
<1>3. BudgetInv
  BY <1>1, <1>2 DEF BudgetInv
<1>4. DebtInv
  BY <1>1 DEF DebtInv
<1> QED
  BY <1>1, <1>3, <1>4 DEF CountInv

\* A step that takes a new reserve is a fault.
FaultsReserve ==
    \/ faults' = faults /\ \A j \in JobId : Reserve(j)' <= Reserve(j)
    \/ faults' = faults + 1

\* No row is spent less than it was, unless its reserve is released.
SpendsNoLess(j) ==
    /\ \/ jobs'[j] = jobs[j]
       \/ Spent(jobs'[j]) >= Spent(jobs[j])
       \/ ~Exists(j) /\ wJob # j /\ wJob' # j
       \/ /\ Spent(jobs'[j]) + MaxDMAttempts >= Spent(jobs[j])
          /\ Reserve(j) = MaxDMAttempts /\ Reserve(j)' = 0
    /\ Exists(j) => jobs'[j].status # "absent"

\* An uncounted step.
LEMMA BudgetFrame ==
    ASSUME IInv, IInv', CountInv, UNCHANGED attempts, FaultsReserve,
           \A j \in JobId : SpendsNoLess(j)
    PROVE  BudgetInv'
<1> SUFFICES ASSUME NEW j \in JobId
             PROVE  /\ attempts[j] + Reserve(j)' <= Spent(jobs'[j]) + faults' * MaxDMAttempts
                    /\ jobs'[j].status = "absent" => attempts[j] = 0
  BY DEF BudgetInv, Exists, Reserve
<1>1. /\ attempts[j] \in Nat /\ (~Exists(j) => attempts[j] = 0)
      /\ attempts[j] + Reserve(j) <= Spent(jobs[j]) + faults * MaxDMAttempts
  BY DEF CountInv, BudgetInv
<1>2. /\ jobs[j] \in Row /\ jobs'[j] \in Row
      /\ Spent(jobs[j]) \in Nat /\ Spent(jobs'[j]) \in Nat
  BY SpentIsCounted DEF IInv, TypeOK
<1>3. /\ faults * MaxDMAttempts \in Nat /\ MaxDMAttempts \in Nat \ {0}
      /\ faults' \in {faults, faults + 1}
      /\ faults' = faults => Reserve(j)' <= Reserve(j)
      /\ (faults + 1) * MaxDMAttempts = faults * MaxDMAttempts + MaxDMAttempts
  BY FaultCost DEF FaultsReserve
<1>4. /\ Reserve(j) \in {0, MaxDMAttempts} /\ Reserve(j)' \in {0, MaxDMAttempts}
  BY DEF Reserve
<1>5. jobs'[j].status = "absent" => attempts[j] = 0
  BY <1>1 DEF Exists, SpendsNoLess
<1>6. ~Exists(j) /\ wJob # j /\ wJob' # j => attempts[j] = 0 /\ Reserve(j)' = 0
  BY <1>1 DEF Reserve
<1>7. CASE jobs'[j] = jobs[j] \/ Spent(jobs'[j]) >= Spent(jobs[j])
  <2>1. Spent(jobs'[j]) >= Spent(jobs[j])
    BY <1>2, <1>7
  <2> HIDE DEF Reserve, Spent
  <2>2. CASE faults' = faults
    BY <1>1, <1>2, <1>3, <1>4, <1>5, <2>1, <2>2
  <2>3. CASE faults' = faults + 1
    BY <1>1, <1>2, <1>3, <1>4, <1>5, <2>1, <2>3
  <2> QED
    BY <1>3, <2>2, <2>3
<1>8. CASE ~Exists(j) /\ wJob # j /\ wJob' # j
  BY <1>2, <1>3, <1>4, <1>5, <1>6, <1>8
<1>9. CASE /\ Spent(jobs'[j]) + MaxDMAttempts >= Spent(jobs[j])
           /\ Reserve(j) = MaxDMAttempts /\ Reserve(j)' = 0
  BY <1>1, <1>2, <1>3, <1>5, <1>9
<1> QED
  BY <1>7, <1>8, <1>9 DEF SpendsNoLess

\* A counted step: one attempt more, for a row that spends it.
LEMMA BudgetSpent ==
    ASSUME IInv, IInv', CountInv, NEW j \in JobId, NEW row \in Row,
           attempts' = [attempts EXCEPT ![j] = @ + 1],
           jobs' = [jobs EXCEPT ![j] = row], faults' = faults, mode' = mode,
           row.status # "absent", Spent(jobs[j]) + 1 <= Spent(row),
           wJob' = wJob \/ wJob' = None
    PROVE  BudgetInv'
<1> SUFFICES ASSUME NEW i \in JobId
             PROVE  /\ attempts'[i] + Reserve(i)' <= Spent(jobs'[i]) + faults * MaxDMAttempts
                    /\ jobs'[i].status = "absent" => attempts'[i] = 0
  BY DEF BudgetInv, Exists, Reserve
<1>1. /\ attempts[i] \in Nat /\ (jobs[i].status = "absent" => attempts[i] = 0)
      /\ attempts[i] + Reserve(i) <= Spent(jobs[i]) + faults * MaxDMAttempts
      /\ attempts'[i] = IF i = j THEN attempts[i] + 1 ELSE attempts[i]
      /\ jobs'[i] = IF i = j THEN row ELSE jobs[i]
  BY DEF CountInv, BudgetInv, IInv, TypeOK, Exists
<1>2. /\ Spent(jobs[i]) \in Nat /\ Spent(row) \in Nat
  BY SpentIsCounted DEF IInv, TypeOK
<1>3. faults * MaxDMAttempts \in Nat /\ MaxDMAttempts \in Nat
  BY FaultCost
<1>4. Reserve(i)' <= Reserve(i) /\ Reserve(i) \in Nat /\ Reserve(i)' \in Nat
  BY <1>3, KeysAreInts DEF Reserve
<1> HIDE DEF Reserve, Spent
<1>5. CASE i = j
  BY <1>1, <1>2, <1>3, <1>4, <1>5
<1>6. CASE i # j
  BY <1>1, <1>2, <1>3, <1>4, <1>6
<1> QED
  BY <1>5, <1>6

\* The result of a request written to an open row: a counted one spends.
LEMMA ResultSpends ==
    ASSUME NEW row \in Row, row.status \in {"sending", "queued", "cancelled"},
           row.cycle \in Cycles, NEW r \in SendResults, NEW k \in Cycles
    PROVE  LET new == ApplySendResult(row, r, k)
           IN  /\ new \in Row /\ new.status # "absent"
               /\ Spent(new) >= Spent(row) + IF Counted(r) THEN 1 ELSE 0
<1> DEFINE new == ApplySendResult(row, r, k)
<1>1. new \in Row /\ new.cycle = row.cycle /\ new.status # "absent"
  BY SendResultFacts
<1>2. /\ row.transient \in Nat /\ MaxDMAttempts \in Nat \ {0}
      /\ row.cycle # MaxDeliveryAttempts
  BY BudgetsArePositive DEF Row, Cycles
<1>3. InCycle(row) = IF row.transient < MaxDMAttempts THEN row.transient
                                                      ELSE MaxDMAttempts - 1
  BY DEF InCycle, Open
<1>4. InCycle(new) >= InCycle(row) + IF Counted(r) THEN 1 ELSE 0
  <2>1. CASE r = "accepted"
    <3>1. new.status = "accepted"
      BY <2>1 DEF ApplySendResult, Row
    <3>2. InCycle(new) = MaxDMAttempts
      BY <1>1, <1>2, <3>1 DEF InCycle, Open
    <3> QED
      BY <1>2, <1>3, <3>2
  <2>2. CASE r \in {"rate_limited", "auth_error"}
    <3>1. new.status = "retry_wait" /\ new.transient = row.transient
      BY <2>2 DEF ApplySendResult, ScheduleRetry, Row
    <3>2. InCycle(new) = InCycle(row)
      BY <1>3, <3>1 DEF InCycle, Open
    <3> QED
      BY <1>2, <1>3, <2>2, <3>2 DEF Counted
  <2>3. CASE r = "invalid"
    <3>1. new.status = "failed"
      BY <2>3 DEF ApplySendResult, GiveUp, Row
    <3>2. InCycle(new) = MaxDMAttempts
      BY <1>1, <1>2, <3>1 DEF InCycle, Open
    <3> QED
      BY <1>2, <1>3, <3>2
  <2>4. CASE r \notin {"accepted", "rate_limited", "auth_error", "invalid"}
    <3> DEFINE spent == [row EXCEPT !.transient = @ + 1]
    <3>1. new = TransientFailure(row)
      BY <2>4 DEF ApplySendResult
    <3>2. spent.transient = row.transient + 1 /\ spent \in Row
      BY DEF Row
    <3>3. CASE spent.transient >= MaxDMAttempts
      <4>1. new.status = "failed"
        BY <3>1, <3>3 DEF TransientFailure, GiveUp, Row
      <4>2. InCycle(new) = MaxDMAttempts
        BY <1>1, <1>2, <4>1 DEF InCycle, Open
      <4> QED
        BY <1>2, <1>3, <4>2
    <3>4. CASE ~(spent.transient >= MaxDMAttempts)
      <4>1. new = ScheduleRetry(spent)
        BY <3>1, <3>4 DEF TransientFailure
      <4> HIDE DEF new, spent
      <4>2. new.status = "retry_wait" /\ new.transient = row.transient + 1
        BY <3>2, <4>1 DEF ScheduleRetry, Row
      <4>3. InCycle(new) = row.transient + 1
        BY <1>2, <3>2, <3>4, <4>2 DEF InCycle, Open
      <4> QED
        BY <1>2, <1>3, <3>2, <3>4, <4>3
    <3> QED
      BY <3>3, <3>4
  <2> QED
    BY <2>1, <2>2, <2>3, <2>4
<1>5. /\ InCycle(new) \in 0 .. MaxDMAttempts /\ InCycle(row) \in 0 .. MaxDMAttempts
      /\ row.cycle * CycleBudget \in Nat
  BY <1>1, SpentIsCounted
<1> HIDE DEF new
<1>6. Spent(new) >= Spent(row) + IF Counted(r) THEN 1 ELSE 0
  BY <1>1, <1>4, <1>5 DEF Spent
<1> QED
  BY <1>1, <1>6 DEF new

\* A delivery failure spends what is left of its cycle and one more.
LEMMA OutcomeSpends ==
    ASSUME NEW row \in Row, row.status = "accepted", row.cycle \in Cycles,
           NEW a \in Answers
    PROVE  LET new == ApplyDeliveryStatus(row, a)
           IN  /\ new \in Row /\ new.status # "absent"
               /\ Spent(new) >= Spent(row) + IF a = "failed" THEN 1 ELSE 0
<1> DEFINE new == ApplyDeliveryStatus(row, a)
<1>1. /\ new \in Row /\ new.status # "absent"
      /\ a = "queued" => new = row
      /\ a = "delivered" => new.status = "delivered" /\ new.cycle = row.cycle
      /\ a = "failed" => new.cycle = row.cycle + 1
  BY DeliveryStatusFacts
<1> HIDE DEF new
<1>2. InCycle(row) = MaxDMAttempts /\ row.cycle \in Nat /\ MaxDMAttempts \in Nat \ {0}
  BY BudgetsArePositive DEF InCycle, Open, Cycles
<1>3. /\ InCycle(new) \in 0 .. MaxDMAttempts /\ row.cycle * CycleBudget \in Nat
      /\ (row.cycle + 1) * CycleBudget = row.cycle * CycleBudget + MaxDMAttempts + 1
      /\ Spent(row) \in Nat
  BY <1>1, <1>2, SpentIsCounted, CycleCost
<1>4. CASE a = "delivered"
  <2>1. InCycle(new) = InCycle(row)
    BY <1>1, <1>4 DEF InCycle, Open, Cycles
  <2> QED
    BY <1>1, <1>3, <1>4, <2>1, <1>2 DEF Spent, new
<1>5. CASE a = "failed"
  <2>1. Spent(new) = (row.cycle + 1) * CycleBudget + InCycle(new)
    BY <1>1, <1>5 DEF Spent
  <2>2. Spent(row) = row.cycle * CycleBudget + MaxDMAttempts
    BY <1>2 DEF Spent
  <2>3. Spent(new) >= Spent(row) + 1
    BY <1>2, <1>3, <2>1, <2>2
  <2> QED
    BY <1>1, <1>5, <2>3 DEF new
<1>6. CASE a = "queued"
  BY <1>1, <1>3, <1>6 DEF new
<1> QED
  BY <1>4, <1>5, <1>6 DEF Answers

\* No step of the worker and the process leaves the claim of a job, except to end it.
LEMMA LessReserved ==
    ASSUME mode' = mode, wJob' = wJob \/ wJob' = None, faults' \in {faults, faults + 1}
    PROVE  FaultsReserve
BY KeysAreInts, BudgetsArePositive DEF Reserve, FaultsReserve

LEMMA ResultBudget == ASSUME BInv, IInv', Result PROVE BudgetInv'
<1> DEFINE row == ApplySendResult(jobs[wJob], result, wKey)
<1>1. /\ "apply" \in threads /\ faults' = faults /\ mode' = mode /\ HasClaim
      /\ result \in SendResults
  BY DEF Result, ApplyResult, process, BInv, IInv, TypeOK, WorkerInv, HasClaim
<1>2. /\ wJob \in JobId /\ jobs[wJob] \in Row /\ wKey \in Cycles
      /\ jobs[wJob].status \in {"sending", "queued", "cancelled"}
      /\ jobs[wJob].cycle \in Cycles
  BY <1>1, HeldKey DEF BInv, ClaimedOpen
<1>3. /\ row \in Row /\ row.status # "absent"
      /\ Spent(row) >= Spent(jobs[wJob]) + IF Counted(result) THEN 1 ELSE 0
  BY <1>1, <1>2, ResultSpends
<1>4. wJob' = wJob \/ wJob' = None
  BY DEF Result, ApplyResult, AfterFailure, Settle
<1>5. FaultsReserve
  BY <1>1, <1>4, LessReserved
<1>6. Spent(row) \in Nat /\ Spent(jobs[wJob]) \in Nat
  BY <1>2, <1>3, SpentIsCounted
<1> HIDE DEF row
<1>7. CASE Conflict(wJob, row)
  <2>1. attempts' = attempts /\ jobs' = jobs
    BY <1>7 DEF Result, ApplyResult, row
  <2>2. \A j \in JobId : SpendsNoLess(j)
    BY <2>1 DEF Exists, SpendsNoLess
  <2> QED
    BY <1>1, <1>5, <2>1, <2>2, BudgetFrame DEF BInv
<1>8. CASE ~Conflict(wJob, row)
  <2>1. /\ jobs' = [jobs EXCEPT ![wJob] = row]
        /\ attempts' = IF Counted(result) THEN [attempts EXCEPT ![wJob] = @ + 1]
                                          ELSE attempts
    BY <1>8 DEF Result, ApplyResult, row
  <2>2. CASE Counted(result)
    BY <1>1, <1>2, <1>3, <1>4, <1>6, <2>1, <2>2, BudgetSpent DEF BInv
  <2>3. CASE ~Counted(result)
    <3>1. attempts' = attempts
      BY <2>1, <2>3
    <3>2. \A j \in JobId : SpendsNoLess(j)
      BY <1>2, <1>3, <1>6, <2>1, <2>3 DEF BInv, IInv, TypeOK, Exists, SpendsNoLess
    <3> QED
      BY <1>1, <1>5, <3>1, <3>2, BudgetFrame DEF BInv
  <2> QED
    BY <2>2, <2>3
<1> QED
  BY <1>7, <1>8

LEMMA OutcomeBudget == ASSUME BInv, IInv', Outcome PROVE BudgetInv'
<1> DEFINE j == rCur.job
           row == ApplyDeliveryStatus(jobs[rCur.job], rCur.answer)
<1>1. /\ j \in JobId /\ jobs[j] \in Row /\ rCur.answer \in Answers
      /\ jobs[j].status = "accepted" /\ jobs[j].cycle \in Cycles
      /\ faults' = faults /\ mode' = mode /\ wJob' = wJob
  BY DEF Outcome, ReconApply, worker, process, BInv, IInv, TypeOK, PollInv, RowInv
<1>2. /\ row \in Row /\ row.status # "absent"
      /\ Spent(row) >= Spent(jobs[j]) + IF rCur.answer = "failed" THEN 1 ELSE 0
  BY <1>1, OutcomeSpends
<1>3. /\ jobs' = [jobs EXCEPT ![j] = row]
      /\ attempts' = IF rCur.answer = "failed" THEN [attempts EXCEPT ![j] = @ + 1]
                                                ELSE attempts
  BY <1>1 DEF Outcome, ReconApply
<1>4. Spent(row) \in Nat /\ Spent(jobs[j]) \in Nat
  BY <1>1, <1>2, SpentIsCounted
<1> HIDE DEF row, j
<1>5. CASE rCur.answer = "failed"
  BY <1>1, <1>2, <1>3, <1>4, <1>5, BudgetSpent DEF BInv
<1>6. CASE rCur.answer # "failed"
  <2>1. attempts' = attempts
    BY <1>3, <1>6
  <2>2. \A i \in JobId : SpendsNoLess(i)
    BY <1>1, <1>2, <1>3, <1>4, <1>6 DEF BInv, IInv, TypeOK, Exists, SpendsNoLess
  <2>3. FaultsReserve
    BY <1>1, LessReserved
  <2> QED
    BY <1>1, <2>1, <2>2, <2>3, BudgetFrame DEF BInv
<1> QED
  BY <1>5, <1>6

\* An open row is claimed, cancelled or requeued, or the row stays.
OpenMove(j) ==
    \/ jobs'[j] = jobs[j]
    \/ /\ Open(jobs[j])
       /\ jobs'[j] \in {Claim(jobs[j]), Cancel(jobs[j]), Requeue(jobs[j])}

\* A step of open moves leaves every row as spent as it was.
LEMMA QuietBudget ==
    ASSUME BInv, IInv', UNCHANGED attempts, FaultsReserve,
           \A j \in JobId : OpenMove(j)
    PROVE  BudgetInv'
<1>1. ASSUME NEW j \in JobId PROVE SpendsNoLess(j)
  <2>1. jobs[j] \in Row
    BY DEF BInv, IInv, TypeOK
  <2>2. CASE jobs'[j] = jobs[j]
    BY <2>2 DEF Exists, SpendsNoLess
  <2>3. CASE /\ Open(jobs[j])
             /\ jobs'[j] \in {Claim(jobs[j]), Cancel(jobs[j]), Requeue(jobs[j])}
    <3>1. Spent(jobs'[j]) = Spent(jobs[j]) /\ Spent(jobs[j]) \in Nat
      BY <2>1, <2>3, OpenSpent, SpentIsCounted
    <3>2. jobs'[j].status # "absent"
      BY <2>1, <2>3, StatusWrites
    <3> QED
      BY <3>1, <3>2 DEF SpendsNoLess
  <2> QED
    BY <2>2, <2>3 DEF OpenMove
<1> QED
  BY <1>1, BudgetFrame DEF BInv

LEMMA NoneReserved ==
    ASSUME mode' # "stopping", faults' \in {faults, faults + 1}
    PROVE  FaultsReserve
BY BudgetsArePositive DEF Reserve, FaultsReserve

LEMMA EventWorkerBudget ==
    ASSUME BInv, IInv', UNCHANGED attempts, EventWorker PROVE BudgetInv'
<1>1. FaultsReserve
  <2>1. UNCHANGED <<wJob, mode, faults>>
    BY DEF EventWorker, CreateJobs, RecordDeletion, CancelJobs, worker, process
  <2> QED
    BY <2>1, LessReserved
<1>2. ASSUME NEW J \in SUBSET JobId, NEW c \in Origins, CreateJobs(J, c)
      PROVE  BudgetInv'
  <2>1. /\ wJob' = wJob
        /\ \A j \in J : ~Exists(j) /\ wJob # j
        /\ \A i \in JobId \ J : jobs'[i] = jobs[i]
    BY <1>2, CreatedRows, KeysAreInts DEF BInv, IInv, WorkerInv, Exists, worker
  <2>2. \A i \in JobId : SpendsNoLess(i)
    BY <2>1 DEF SpendsNoLess, Exists
  <2> QED
    BY <1>1, <2>2, BudgetFrame DEF BInv
<1>3. ASSUME NEW c \in Comments, CancelJobs(c) PROVE BudgetInv'
  <2>1. \A j \in JobId : OpenMove(j)
    BY <1>3 DEF CancelJobs, Cancellable, CancellableStatuses, OpenMove, Open
  <2> QED
    BY <1>1, <2>1, QuietBudget
<1>4. ASSUME NEW c \in Comments, RecordDeletion(c) PROVE BudgetInv'
  <2>1. \A j \in JobId : OpenMove(j)
    BY <1>4 DEF RecordDeletion, OpenMove
  <2> QED
    BY <1>1, <2>1, QuietBudget
<1> QED
  BY <1>2, <1>3, <1>4 DEF EventWorker

LEMMA ClaimingBudget ==
    ASSUME BInv, IInv', UNCHANGED attempts, Claiming PROVE BudgetInv'
<1>1. CASE SelectCandidates \/ ClaimNone
  <2>1. UNCHANGED <<jobs, wJob, mode, faults>>
    BY <1>1 DEF SelectCandidates, ClaimNone, table, process
  <2> QED
    BY <2>1, LessReserved, QuietBudget DEF OpenMove
<1>2. ASSUME NEW j \in JobId, ClaimNextJob(j) \/ LoseClaim(j) PROVE BudgetInv'
  <2>1. /\ jobs' = [jobs EXCEPT ![j] = Claim(@)] /\ jobs \in [JobId -> Row]
        /\ jobs[j].status \in {"queued", "retry_wait"}
    BY <1>2 DEF ClaimNextJob, LoseClaim, FirstClaimable, Claimable, Queued, Waiting,
                BInv, IInv, TypeOK
  <2>2. \A i \in JobId : OpenMove(i)
    BY <2>1 DEF OpenMove, Open
  <2>3. CASE ClaimNextJob(j)
    <3>1. mode' # "stopping" /\ faults' = faults
      BY <2>3 DEF ClaimNextJob, process
    <3> QED
      BY <2>2, <3>1, NoneReserved, QuietBudget
  <2>4. CASE LoseClaim(j)
    <3>1. mode' = mode /\ wJob' = wJob /\ faults' \in {faults, faults + 1}
      BY <2>4 DEF LoseClaim, Fault
    <3> QED
      BY <2>2, <3>1, LessReserved, QuietBudget
  <2> QED
    BY <1>2, <2>3, <2>4
<1> QED
  BY <1>1, <1>2 DEF Claiming

\* The release during a shutdown may put back a row that was written since it was
\* read; that is the last the shutdown does with it.
LEMMA ReleaseWriteBudget ==
    ASSUME BInv, IInv', UNCHANGED attempts, ReleaseWrite PROVE BudgetInv'
<1>1. /\ HasClaim /\ "write" \in threads /\ mode' = mode /\ faults' = faults
      /\ Settle(threads \ {"write"}, result)
  BY DEF ReleaseWrite, BInv, IInv, WorkerInv, HasClaim, process
<1>2. wJob \in JobId /\ jobs[wJob] \in Row /\ jobs \in [JobId -> Row]
  BY <1>1, HeldKey DEF BInv, IInv, TypeOK
<1>3. FaultsReserve
  BY <1>1, LessReserved DEF Settle
<1>4. \A j \in JobId \ {wJob} : OpenMove(j)
  BY <1>2 DEF ReleaseWrite, OpenMove
<1>5. jobs'[wJob] \in {jobs[wJob], Requeue(jobs[wJob])}
  BY <1>2 DEF ReleaseWrite
<1>6. CASE Open(jobs[wJob])
  BY <1>3, <1>4, <1>5, <1>6, QuietBudget DEF OpenMove
<1>7. CASE ~Open(jobs[wJob])
  <2>1. mode # "up" /\ "apply" \notin threads
    BY <1>1, <1>7 DEF BInv, ClaimedOpen, Open
  <2>2. mode = "stopping" /\ threads \ {"write"} = {}
    BY <1>1, <2>1, <1>2 DEF BInv, IInv, TypeOK, WorkerInv, ClaimedOpen, HasClaim
  <2>3. ASSUME NEW j \in JobId, j = wJob
        PROVE  Reserve(j) = MaxDMAttempts /\ Reserve(j)' = 0
    BY <1>1, <2>2, <2>3, KeysAreInts DEF Settle, Reserve
  <2>4. ASSUME NEW j \in JobId, j = wJob PROVE SpendsNoLess(j)
    <3>1. CASE jobs'[j] = jobs[j]
      BY <3>1 DEF SpendsNoLess, Exists
    <3>2. CASE jobs'[j] = Requeue(jobs[j])
      <4>1. /\ Spent(jobs[j]) <= Spent(jobs'[j]) + MaxDMAttempts
            /\ jobs'[j] \in Row /\ jobs'[j].status # "absent"
        BY <1>2, <2>4, <3>2, OpenSpent, StatusWrites
      <4>2. Spent(jobs[j]) \in Nat /\ Spent(jobs'[j]) \in Nat /\ MaxDMAttempts \in Nat
        BY <1>2, <2>4, <4>1, SpentIsCounted, BudgetsArePositive
      <4>3. Reserve(j) = MaxDMAttempts /\ Reserve(j)' = 0
        BY <2>3, <2>4
      <4> QED
        BY <4>1, <4>2, <4>3 DEF SpendsNoLess
    <3> QED
      BY <1>5, <2>4, <3>1, <3>2
  <2>5. \A j \in JobId \ {wJob} : SpendsNoLess(j)
    BY <1>2 DEF ReleaseWrite, SpendsNoLess, Exists
  <2> QED
    BY <1>3, <2>4, <2>5, BudgetFrame DEF BInv
<1> QED
  BY <1>6, <1>7

LEMMA RestBudget ==
    ASSUME BInv, IInv', UNCHANGED attempts,
           (Settling /\ ~ReleaseWrite) \/ SendRequest \/ Polling \/ PseudoGram \/ UNCHANGED vars
    PROVE  BudgetInv'
<1>1. jobs' = jobs /\ mode' = mode /\ faults' \in {faults, faults + 1}
      /\ (wJob' = wJob \/ wJob' = None)
  <2>1. CASE Settling /\ ~ReleaseWrite
    BY <2>1 DEF Settling, SendRaises, ReleaseRead, SendReturns, ThreadFails, AfterFailure,
       Settle, Fault, Accepted, Refused, Unanswered, table, process
  <2>2. CASE SendRequest \/ Polling \/ PseudoGram \/ UNCHANGED vars
    BY <2>2 DEF SendRequest, Polling, ReconLoad, ReconPoll, ReconPollFails, ReconApplyFails,
       PseudoGram, DMOutcome, LateArrives, Fault, vars, table, worker, process
  <2> QED
    BY <2>1, <2>2
<1> QED
  BY <1>1, LessReserved, QuietBudget DEF OpenMove

LEMMA ManagerBudget ==
    ASSUME BInv, IInv', UNCHANGED attempts, Manager PROVE BudgetInv'
<1>1. CASE Stop \/ Crash
  <2>1. jobs' = jobs /\ faults' = faults + 1
    BY <1>1 DEF Stop, Crash, Fault, table
  <2> QED
    BY <2>1, QuietBudget DEF OpenMove, FaultsReserve
<1>2. CASE ExitProcess
  <2>1. jobs' = jobs /\ faults' = faults /\ mode' = "down"
    BY <1>2 DEF ExitProcess, table
  <2> QED
    BY <2>1, NoneReserved, QuietBudget DEF OpenMove
<1>3. CASE Restart
  <2>1. faults' = faults /\ mode' = "up"
    BY <1>3 DEF Restart
  <2>2. \A j \in JobId : OpenMove(j)
    BY <1>3 DEF Restart, OpenMove, Open
  <2> QED
    BY <2>1, <2>2, NoneReserved, QuietBudget
<1>4. ASSUME NEW j \in JobId, RequeueStale(j) PROVE BudgetInv'
  <2>1. UNCHANGED <<wJob, mode, faults>>
    BY <1>4 DEF RequeueStale, worker, process
  <2>2. \A i \in JobId : OpenMove(i)
    BY <1>4 DEF RequeueStale, Stale, OpenMove, Open, BInv, IInv, TypeOK
  <2> QED
    BY <2>1, <2>2, LessReserved, QuietBudget
<1> QED
  BY <1>1, <1>2, <1>3, <1>4 DEF Manager

LEMMA NextBudget ==
    ASSUME BInv, IInv', [BNext]_bvars PROVE BudgetInv'
<1>1. CASE Request
  BY <1>1, RestBudget DEF Request
<1>2. CASE Uncounted
  <2>1. attempts' = attempts
    BY <1>2 DEF Uncounted, counts
  <2> QED
    BY <1>2, <2>1, EventWorkerBudget, ClaimingBudget, ReleaseWriteBudget, RestBudget,
       ManagerBudget DEF Uncounted, Settling
<1>3. CASE UNCHANGED bvars
  BY <1>3, RestBudget DEF bvars, counts
<1> QED
  BY <1>1, <1>2, <1>3, ResultBudget, OutcomeBudget DEF BNext

-----------------------------------------------------------------------------
(* The debt.                                                               *)

\* What is owed for a job is still owed, or a fault accounts for it.
DebtKept(j) == InDebt(j) => InDebt(j)'

\* An uncounted step.
LEMMA DebtFrame ==
    ASSUME IInv, CountInv, UNCHANGED requests, attempts' \in [JobId -> Nat],
           \A j \in JobId : attempts'[j] >= attempts[j],
           \/ faults' = faults /\ \A j \in JobId : DebtKept(j)
           \/ faults' = faults + 1
    PROVE  DebtInv'
<1> SUFFICES ASSUME NEW j \in JobId
             PROVE  requests[j] <= attempts'[j] + faults' + IF InDebt(j)' THEN 1 ELSE 0
  BY DEF DebtInv, InDebt
<1>1. /\ requests[j] \in Nat /\ attempts[j] \in Nat /\ attempts'[j] \in Nat
      /\ faults \in Nat /\ attempts'[j] >= attempts[j]
      /\ requests[j] <= attempts[j] + faults + IF InDebt(j) THEN 1 ELSE 0
  BY FaultCost DEF CountInv, DebtInv
<1>2. CASE faults' = faults /\ DebtKept(j)
  BY <1>1, <1>2 DEF DebtKept
<1>3. CASE faults' = faults + 1
  BY <1>1, <1>3
<1> QED
  BY <1>2, <1>3

\* The worker stays where it is, and no cancelled row comes back.
LEMMA SameDebt ==
    ASSUME UNCHANGED <<wJob, phase, mode, threads, result>>, NEW j \in JobId,
           jobs[j].status = "cancelled" => jobs'[j].status = "cancelled"
    PROVE  DebtKept(j)
BY DEF DebtKept, InDebt

LEMMA CountsGrow ==
    ASSUME NEW old \in [JobId -> Nat], NEW j \in JobId,
           NEW new \in {old, [old EXCEPT ![j] = @ + 1]}
    PROVE  new \in [JobId -> Nat] /\ \A i \in JobId : new[i] >= old[i]
<1>1. CASE new = old
  BY <1>1
<1>2. CASE new = [old EXCEPT ![j] = @ + 1]
  BY <1>2
<1> QED
  BY <1>1, <1>2

LEMMA RequestDebt == ASSUME BInv, Request PROVE DebtInv'
<1> SUFFICES ASSUME NEW j \in JobId
             PROVE  requests'[j] <= attempts'[j] + faults' + IF InDebt(j)' THEN 1 ELSE 0
  BY DEF DebtInv, InDebt
<1>1. /\ requests[j] \in Nat /\ attempts[j] \in Nat /\ faults \in Nat
      /\ requests[j] <= attempts[j] + faults + IF InDebt(j) THEN 1 ELSE 0
  BY FaultCost DEF BInv, CountInv, DebtInv
<1>2. /\ attempts' = attempts /\ faults' = faults /\ mode = "up" /\ phase = "acquiring"
      /\ requests' = [requests EXCEPT ![wJob] = @ + 1] /\ phase' = "sending"
      /\ UNCHANGED <<jobs, wJob, mode, threads>> /\ requests \in [JobId -> Nat]
  BY DEF Request, SendRequest, table, process, BInv, CountInv
<1>3. threads = {} /\ wJob \in JobId
  BY <1>2 DEF BInv, IInv, WorkerInv, HasClaim
<1>4. CASE j = wJob
  <2>1. ~InDebt(j) /\ InDebt(j)'
    BY <1>2, <1>3, <1>4 DEF InDebt
  <2> QED
    BY <1>1, <1>2, <1>4, <2>1
<1>5. CASE j # wJob
  <2>1. InDebt(j)' = InDebt(j)
    BY <1>2, <1>5 DEF InDebt
  <2> QED
    BY <1>1, <1>2, <1>5, <2>1
<1> QED
  BY <1>4, <1>5

LEMMA ResultDebt == ASSUME BInv, IInv', Result PROVE DebtInv'
<1> DEFINE row == ApplySendResult(jobs[wJob], result, wKey)
<1>1. /\ "apply" \in threads /\ faults' = faults /\ mode' = mode /\ HasClaim
      /\ requests' = requests /\ result \in SendResults /\ attempts \in [JobId -> Nat]
      /\ mode = "up" => threads = {"apply"} /\ phase = "settling"
  BY DEF Result, ApplyResult, process, BInv, CountInv, IInv, TypeOK, WorkerInv, HasClaim
<1>2. /\ wJob \in JobId /\ jobs[wJob] \in Row /\ wKey \in Cycles
      /\ jobs[wJob].status \in {"sending", "queued", "cancelled"}
      /\ jobs \in [JobId -> Row]
  BY <1>1, HeldKey DEF BInv, ClaimedOpen, IInv, TypeOK
<1>3. row.status \in {"accepted", "retry_wait", "failed"} /\ row.slot = jobs[wJob].slot
  BY <1>1, <1>2, SendResultFacts
<1>4. /\ wJob' = wJob \/ wJob' = None
      /\ \A j \in JobId \ {wJob} : jobs'[j] = jobs[j]
  BY <1>2 DEF Result, ApplyResult, AfterFailure, Settle
<1>5. \A j \in JobId \ {wJob} : DebtKept(j)
  BY <1>4, KeysAreInts DEF DebtKept, InDebt
<1>6. attempts' \in [JobId -> Nat] /\ \A j \in JobId : attempts'[j] >= attempts[j]
  <2>1. attempts' \in {attempts, [attempts EXCEPT ![wJob] = @ + 1]}
    BY DEF Result
  <2> QED
    BY <1>1, <1>2, <2>1, CountsGrow
<1> HIDE DEF row
<1>7. CASE mode # "up"
  <2>1. \A j \in JobId : DebtKept(j)
    BY <1>1, <1>5, <1>7 DEF DebtKept, InDebt
  <2> QED
    BY <1>1, <1>6, <2>1, DebtFrame DEF BInv
<1>8. CASE mode = "up" /\ Conflict(wJob, row)
  <2>1. jobs[wJob].status = "cancelled"
    BY <1>2, <1>3, <1>8 DEF Conflict, HoldsSlot, BInv, IInv, SlotInv
  <2>2. jobs' = jobs /\ threads' = {"read"} /\ wJob' = wJob
    BY <1>8 DEF Result, ApplyResult, AfterFailure, Settle, row
  <2>3. \A j \in JobId : DebtKept(j)
    BY <1>1, <1>5, <1>8, <2>1, <2>2 DEF DebtKept, InDebt
  <2> QED
    BY <1>1, <1>6, <2>3, DebtFrame DEF BInv
<1>9. CASE mode = "up" /\ ~Conflict(wJob, row)
  <2>1. /\ jobs' = [jobs EXCEPT ![wJob] = row] /\ wJob' = None
        /\ attempts' = IF Counted(result) THEN [attempts EXCEPT ![wJob] = @ + 1]
                                          ELSE attempts
    BY <1>1, <1>9 DEF Result, ApplyResult, Settle, row
  <2>2. CASE ~Counted(result)
    <3>1. \A j \in JobId : DebtKept(j)
      BY <1>1, <1>5, <1>9, <2>2 DEF DebtKept, InDebt
    <3> QED
      BY <1>1, <1>6, <3>1, DebtFrame DEF BInv
  <2>3. CASE Counted(result)
    <3> SUFFICES ASSUME NEW j \in JobId
                 PROVE  requests'[j] <= attempts'[j] + faults' + IF InDebt(j)' THEN 1 ELSE 0
      BY DEF DebtInv, InDebt
    <3>1. /\ requests[j] \in Nat /\ attempts[j] \in Nat /\ faults \in Nat
          /\ requests[j] <= attempts[j] + faults + IF InDebt(j) THEN 1 ELSE 0
      BY FaultCost DEF BInv, CountInv, DebtInv
    <3>2. CASE j = wJob
      <4>1. attempts'[j] = attempts[j] + 1
        BY <1>1, <2>1, <2>3, <3>2
      <4> QED
        BY <1>1, <3>1, <4>1
    <3>3. CASE j # wJob
      <4>1. attempts'[j] = attempts[j] /\ (InDebt(j) => InDebt(j)')
        BY <1>1, <1>5, <2>1, <2>3, <3>3 DEF DebtKept
      <4> QED
        BY <1>1, <3>1, <4>1
    <3> QED
      BY <3>2, <3>3
  <2> QED
    BY <2>2, <2>3
<1> QED
  BY <1>7, <1>8, <1>9

LEMMA OutcomeDebt == ASSUME BInv, Outcome PROVE DebtInv'
<1>1. /\ UNCHANGED <<requests, wJob, phase, mode, threads, result, faults>>
      /\ attempts \in [JobId -> Nat]
  BY DEF Outcome, ReconApply, worker, process, BInv, CountInv
<1>2. \A j \in JobId : jobs[j].status = "cancelled" => jobs'[j].status = "cancelled"
  BY DEF Outcome, ReconApply, BInv, IInv, TypeOK
<1>3. attempts' \in [JobId -> Nat] /\ \A j \in JobId : attempts'[j] >= attempts[j]
  <2>1. attempts' \in {attempts, [attempts EXCEPT ![rCur.job] = @ + 1]}
    BY DEF Outcome
  <2> QED
    BY <1>1, <2>1, CountsGrow DEF Outcome, ReconApply, BInv, IInv, TypeOK
<1> QED
  BY <1>1, <1>2, <1>3, SameDebt, DebtFrame DEF BInv

\* An uncounted step keeps every debt or is a fault.
LEMMA UncountedDebt ==
    ASSUME BInv, UNCHANGED counts,
           \/ faults' = faults /\ \A j \in JobId : DebtKept(j)
           \/ faults' = faults + 1
    PROVE  DebtInv'
<1>1. attempts' = attempts /\ requests' = requests /\ attempts \in [JobId -> Nat]
  BY DEF counts, BInv, CountInv
<1>2. \A j \in JobId : attempts'[j] >= attempts[j]
  BY <1>1
<1> QED
  BY <1>1, <1>2, DebtFrame DEF BInv

LEMMA StatusDebt ==
    ASSUME BInv, UNCHANGED counts, UNCHANGED <<wJob, phase, mode, threads, result, faults>>,
           \A j \in JobId : jobs[j].status = "cancelled" => jobs'[j].status = "cancelled"
    PROVE  DebtInv'
<1>1. \A j \in JobId : DebtKept(j)
  BY SameDebt
<1> QED
  BY <1>1, UncountedDebt

LEMMA EventWorkerDebt == ASSUME BInv, UNCHANGED counts, EventWorker PROVE DebtInv'
<1>1. UNCHANGED <<wJob, phase, mode, threads, result, faults>>
  BY DEF EventWorker, CreateJobs, RecordDeletion, CancelJobs, worker, process
<1>2. ASSUME NEW j \in JobId, jobs[j].status = "cancelled"
      PROVE  jobs'[j].status = "cancelled"
  <2>1. ASSUME NEW J \in SUBSET JobId, NEW c \in Origins, CreateJobs(J, c)
        PROVE  jobs'[j].status = "cancelled"
    BY <1>2, <2>1, CreatedRows DEF BInv
  <2>2. ASSUME NEW c \in Comments, CancelJobs(c) PROVE jobs'[j].status = "cancelled"
    BY <1>2, <2>2, StatusWrites DEF CancelJobs, BInv, IInv, TypeOK
  <2>3. ASSUME NEW c \in Comments, RecordDeletion(c) PROVE jobs'[j].status = "cancelled"
    BY <1>2, <2>3 DEF RecordDeletion
  <2> QED
    BY <2>1, <2>2, <2>3 DEF EventWorker
<1> QED
  BY <1>1, <1>2, StatusDebt

LEMMA ClaimingDebt == ASSUME BInv, UNCHANGED counts, Claiming PROVE DebtInv'
<1>1. CASE SelectCandidates \/ ClaimNone
  <2>1. /\ UNCHANGED <<jobs, wJob, mode, threads, result, faults>>
        /\ phase # "sending" /\ phase' # "sending"
    BY <1>1 DEF SelectCandidates, ClaimNone, table, process, BInv, IInv, WorkerInv
  <2>2. \A j \in JobId : DebtKept(j)
    BY <2>1 DEF DebtKept, InDebt
  <2> QED
    BY <2>1, <2>2, UncountedDebt
<1>2. ASSUME NEW j \in JobId, ClaimNextJob(j) \/ LoseClaim(j) PROVE DebtInv'
  <2>1. /\ jobs' = [jobs EXCEPT ![j] = Claim(@)] /\ jobs \in [JobId -> Row]
        /\ jobs[j].status # "cancelled" /\ wJob' \in {j, wJob} /\ mode' = mode
        /\ faults' \in {faults, faults + 1} /\ phase' # "sending" /\ wJob = None
        /\ threads = {} /\ threads' = threads /\ None \notin JobId
    BY <1>2, KeysAreInts DEF ClaimNextJob, LoseClaim, FirstClaimable, Claimable, Queued,
       Waiting, Fault, BInv, IInv, TypeOK, WorkerInv, HasClaim, process
  <2>2. ASSUME NEW i \in JobId PROVE DebtKept(i)
    BY <2>1 DEF DebtKept, InDebt
  <2> QED
    BY <2>1, <2>2, UncountedDebt
<1> QED
  BY <1>1, <1>2 DEF Claiming

\* Steps that end in Settle without an answer leave only what the row says.
LEMMA SettlingDebt == ASSUME BInv, UNCHANGED counts, Settling PROVE DebtInv'
<1>0. /\ mode = "up" => threads \in {{}, {"apply"}, {"read"}, {"write"}}
      /\ threads # {} => phase = "settling"
      /\ phase = "sending" => threads = {}
      /\ threads # {} \/ phase = "sending" => wJob \in JobId
      /\ None \notin JobId
  BY KeysAreInts DEF BInv, ClaimInv, IInv, WorkerInv, HasClaim
<1>1. CASE SendRaises \/ \E step \in threads : ThreadFails(step)
  <2>1. faults' = faults + 1
    BY <1>1 DEF SendRaises, ThreadFails, Fault
  <2> QED
    BY <2>1, UncountedDebt
<1>2. ASSUME NEW r \in SendResults, SendReturns(r) PROVE DebtInv'
  <2>1. CASE r \in {"rate_limited", "auth_error"}
    <3>1. faults' = faults + 1
      BY <1>2, <2>1 DEF SendReturns, Accepted, Refused, Unanswered, Fault
    <3> QED
      BY <3>1, UncountedDebt
  <2>2. CASE r \notin {"rate_limited", "auth_error"}
    <3>1. /\ faults' = faults /\ jobs' = jobs /\ mode' = mode /\ mode = "up"
          /\ wJob' = wJob /\ threads' = {"apply"} /\ result' = r
      BY <1>2, <2>2 DEF SendReturns, Accepted, Refused, Unanswered, Settle, table
    <3>2. \A j \in JobId : DebtKept(j)
      BY <2>2, <3>1 DEF DebtKept, InDebt, Counted
    <3> QED
      BY <3>1, <3>2, UncountedDebt
  <2> QED
    BY <2>1, <2>2
<1>3. CASE ReleaseRead \/ ReleaseWrite
  <2>1. mode' = mode /\ faults' = faults /\ (wJob' = wJob \/ wJob' = None)
        /\ threads # {} /\ phase = "settling"
    BY <1>0, <1>3 DEF ReleaseRead, ReleaseWrite, Settle, process
  <2>2. ASSUME NEW j \in JobId, j # wJob PROVE DebtKept(j)
    <3>1. jobs'[j] = jobs[j] /\ wJob' # j
      BY <1>0, <1>3, <2>1, <2>2 DEF ReleaseRead, ReleaseWrite, table, BInv, IInv, TypeOK
    <3> QED
      BY <2>2, <3>1 DEF DebtKept, InDebt
  <2>3. ASSUME NEW j \in JobId, j = wJob PROVE DebtKept(j)
    <3>1. CASE mode # "up"
      BY <2>3, <3>1 DEF DebtKept, InDebt
    <3>2. CASE mode = "up" /\ ReleaseWrite
      <4>1. threads = {"write"}
        BY <1>0, <3>2 DEF ReleaseWrite
      <4> QED
        BY <2>1, <2>3, <4>1 DEF DebtKept, InDebt
    <3>3. CASE mode = "up" /\ ReleaseRead
      <4>1. threads = {"read"} /\ jobs' = jobs
        BY <1>0, <3>3 DEF ReleaseRead, table
      <4>2. jobs[wJob].status = "cancelled" => wJob' = None
        BY <3>3, <4>1 DEF ReleaseRead, ReleaseNeeded, Settle
      <4> QED
        BY <1>0, <2>3, <4>1, <4>2 DEF DebtKept, InDebt
    <3> QED
      BY <1>3, <3>1, <3>2, <3>3
  <2> QED
    BY <2>1, <2>2, <2>3, UncountedDebt
<1> QED
  BY <1>1, <1>2, <1>3 DEF Settling

LEMMA ManagerDebt == ASSUME BInv, UNCHANGED counts, Manager PROVE DebtInv'
<1>1. CASE Stop \/ Crash
  <2>1. faults' = faults + 1
    BY <1>1 DEF Stop, Crash, Fault
  <2> QED
    BY <2>1, UncountedDebt
<1>2. CASE ExitProcess \/ Restart
  <2>1. /\ wJob = None /\ UNCHANGED <<wJob, faults>> /\ None \notin JobId
        /\ \A j \in JobId : jobs[j].status = "cancelled" => jobs'[j].status = "cancelled"
    BY <1>2, KeysAreInts DEF ExitProcess, Restart, worker, table, BInv, IInv, WorkerInv,
       HasClaim
  <2>2. \A j \in JobId : DebtKept(j)
    BY <2>1 DEF DebtKept, InDebt
  <2> QED
    BY <2>1, <2>2, UncountedDebt
<1>3. ASSUME NEW i \in JobId, RequeueStale(i) PROVE DebtInv'
  <2>1. UNCHANGED <<wJob, phase, mode, threads, result, faults>>
    BY <1>3 DEF RequeueStale, worker, process
  <2>2. \A j \in JobId : jobs[j].status = "cancelled" => jobs'[j].status = "cancelled"
    BY <1>3 DEF RequeueStale, Stale, BInv, IInv, TypeOK
  <2> QED
    BY <2>1, <2>2, StatusDebt
<1> QED
  BY <1>1, <1>2, <1>3 DEF Manager

LEMMA RestDebt ==
    ASSUME BInv, UNCHANGED counts, Polling \/ PseudoGram \/ UNCHANGED vars
    PROVE  DebtInv'
<1>1. CASE \E p \in rBatch : ReconPollFails(p)
  BY <1>1, UncountedDebt DEF ReconPollFails, Fault
<1>2. CASE ReconApplyFails
  BY <1>2, UncountedDebt DEF ReconApplyFails, Fault
<1>3. CASE ReconLoad \/ (\E p \in rBatch : ReconPoll(p)) \/ PseudoGram \/ UNCHANGED vars
  <2>1. UNCHANGED <<jobs, wJob, phase, mode, threads, result, faults>>
    BY <1>3 DEF ReconLoad, ReconPoll, PseudoGram, DMOutcome, LateArrives, vars, table,
       worker, process
  <2> QED
    BY <2>1, StatusDebt
<1> QED
  BY <1>1, <1>2, <1>3 DEF Polling

LEMMA NextDebt == ASSUME BInv, IInv', [BNext]_bvars PROVE DebtInv'
<1>1. CASE Uncounted
  BY <1>1, EventWorkerDebt, ClaimingDebt, SettlingDebt, ManagerDebt, RestDebt DEF Uncounted
<1>2. CASE UNCHANGED bvars
  BY <1>2, RestDebt DEF bvars
<1> QED
  BY <1>1, <1>2, RequestDebt, ResultDebt, OutcomeDebt DEF BNext

-----------------------------------------------------------------------------
LEMMA NextIsQueueStep == [BNext]_bvars => [Next]_vars
BY DEF BNext, bvars, Request, Result, Outcome, Uncounted, Next, DMWorker, Reconciler

LEMMA NextCounts == ASSUME BInv, [BNext]_bvars
                    PROVE  attempts' \in [JobId -> Nat] /\ requests' \in [JobId -> Nat]
<1>1. attempts \in [JobId -> Nat] /\ requests \in [JobId -> Nat]
  BY DEF BInv, CountInv
<1>2. CASE Request
  <2>1. wJob \in JobId /\ requests' = [requests EXCEPT ![wJob] = @ + 1]
        /\ attempts' = attempts
    BY <1>2 DEF Request, SendRequest, BInv, IInv, WorkerInv, HasClaim
  <2> QED
    BY <1>1, <2>1, CountsGrow
<1>3. CASE Result
  <2>1. wJob \in JobId /\ requests' = requests
        /\ attempts' \in {attempts, [attempts EXCEPT ![wJob] = @ + 1]}
    BY <1>3 DEF Result, ApplyResult, BInv, IInv, WorkerInv, HasClaim
  <2> QED
    BY <1>1, <2>1, CountsGrow
<1>4. CASE Outcome
  <2>1. rCur.job \in JobId /\ requests' = requests
        /\ attempts' \in {attempts, [attempts EXCEPT ![rCur.job] = @ + 1]}
    BY <1>4 DEF Outcome, ReconApply, BInv, IInv, TypeOK
  <2> QED
    BY <1>1, <2>1, CountsGrow
<1>5. CASE Uncounted \/ UNCHANGED bvars
  BY <1>1, <1>5 DEF Uncounted, bvars, counts
<1> QED
  BY <1>2, <1>3, <1>4, <1>5 DEF BNext

\* IInv, ClaimInv and what was spent and owed, throughout.
THEOREM BudgetInvariant == BSpec => []BInv
<1>1. BInit => BInv
  BY InitIInv, InitClaimInv, InitClaimedOpen, InitBudget DEF BInit, BInv
<1>2. BInv /\ [BNext]_bvars => BInv'
  <2> SUFFICES ASSUME BInv, [BNext]_bvars PROVE BInv'
    OBVIOUS
  <2>1. IInv' /\ ClaimInv' /\ ClaimedOpen'
    BY NextIsQueueStep, NextIInv, NextClaimInv, NextClaimedOpen DEF BInv
  <2> QED
    BY <2>1, NextCounts, NextBudget, NextDebt DEF BInv, CountInv
<1> QED
  BY <1>1, <1>2, PTL DEF BSpec

\* The two retry budgets bound dm_jobs.attempts together, for any budgets and any
\* number of faults (apply_send_result, apply_delivery_status).
THEOREM BudgetHolds == BSpec => []AttemptsBounded
<1>1. BInv => AttemptsBounded
  <2> SUFFICES ASSUME BInv, NEW j \in JobId
               PROVE  attempts[j] <= MaxDeliveryAttempts * CycleBudget
                                         + faults * MaxDMAttempts
    BY DEF AttemptsBounded
  <2>1. /\ jobs[j] \in Row
        /\ jobs[j].status # "failed" => jobs[j].cycle \in Cycles
        /\ attempts[j] \in Nat
        /\ attempts[j] + Reserve(j) <= Spent(jobs[j]) + faults * MaxDMAttempts
    BY DEF BInv, CountInv, BudgetInv, IInv, TypeOK, RowInv
  <2>2. Spent(jobs[j]) <= MaxDeliveryAttempts * CycleBudget /\ Spent(jobs[j]) \in Nat
    BY <2>1, SpentIsBounded, SpentIsCounted
  <2>3. /\ faults * MaxDMAttempts \in Nat /\ Reserve(j) \in Nat
        /\ MaxDeliveryAttempts * CycleBudget \in Nat
    BY FaultCost, CycleCost, BudgetsArePositive DEF BInv, Reserve
  <2> HIDE DEF Reserve
  <2> QED
    BY <2>1, <2>2, <2>3
<1> QED
  BY <1>1, BudgetInvariant, PTL

\* Every request of a job was counted in its attempts, is under way, or is the work
\* of a fault; but one, when the job was cancelled under a slow send.
THEOREM RequestsPaid == BSpec => []RequestsAreCounted
<1>1. BInv => RequestsAreCounted
  <2> SUFFICES ASSUME BInv, NEW j \in JobId
               PROVE  requests[j] <= attempts[j] + faults
                          + IF wJob = j \/ jobs[j].status = "cancelled" THEN 1 ELSE 0
    BY DEF RequestsAreCounted
  <2>1. /\ requests[j] \in Nat /\ attempts[j] \in Nat /\ faults \in Nat
        /\ requests[j] <= attempts[j] + faults + IF InDebt(j) THEN 1 ELSE 0
    BY FaultCost DEF BInv, CountInv, DebtInv
  <2>2. InDebt(j) => wJob = j \/ jobs[j].status = "cancelled"
    BY DEF InDebt
  <2> QED
    BY <2>1, <2>2
<1> QED
  BY <1>1, BudgetInvariant, PTL

=============================================================================
