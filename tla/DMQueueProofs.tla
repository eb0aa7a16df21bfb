--------------------------- MODULE DMQueueProofs ----------------------------
(***************************************************************************)
(* TLAPS proofs about DMQueue, for every number of jobs, faults, slots,    *)
(* comments, every budget and both values of SlowSend.                     *)
(***************************************************************************)
EXTENDS DMQueue, JobRowProofs

-----------------------------------------------------------------------------
(* The inductive invariant.                                                *)

HasClaim == phase \in {"acquiring", "sending", "settling"}

\* What run_once holds in each phase: the key of a held claim is the row's
\* current one, whatever others did to the row's status meanwhile.
WorkerInv ==
    /\ ~HasClaim => wJob = None /\ wKey = None
    /\ HasClaim => wJob \in JobId /\ Exists(wJob) /\ wKey = jobs[wJob].cycle
    /\ threads # {} <=> phase = "settling"
    /\ "apply" \in threads <=> result # None
    /\ result = "accepted" => dm[wJob][wKey] # "none"
    /\ mode = "up" =>
           /\ "apply" \in threads => threads = {"apply"}
           /\ HasClaim => jobs[wJob].status # "accepted"
    /\ mode # "up" => phase \notin {"acquiring", "sending"} /\ rBatch = {}
    /\ mode = "down" => phase = "idle" /\ rCur = None

\* What the status of a row says about the rest of it and about PseudoGram.
RowInv ==
    \A j \in JobId :
        /\ jobs[j].status # "failed" => jobs[j].cycle \in Cycles
        /\ jobs[j].status = "accepted" =>
               jobs[j].dmId = jobs[j].cycle /\ dm[j][jobs[j].cycle] # "none"
        /\ jobs[j].status = "delivered" => dm[j][jobs[j].cycle] = "delivered"
        /\ jobs[j].status = "cancelled" => jobs[j].comment \in deleted

\* Keys before the current one have failed, keys after it are unused, and no
\* request with a later key is under way.
KeyInv ==
    \A j \in JobId, k \in Cycles :
        /\ k < jobs[j].cycle => dm[j][k] = "failed"
        /\ k > jobs[j].cycle => dm[j][k] = "none"
        /\ dm[j][k] # "none" => Exists(j)
        /\ <<j, k>> \in late => k <= jobs[j].cycle /\ Exists(j)

\* A poll is about a row that is still `accepted` for that DM and that neither
\* the worker nor the rest of the batch holds; a final answer stays true.
PollInv ==
    /\ \A p \in rBatch : jobs[p.job].status = "accepted" /\ jobs[p.job].cycle = p.key
    /\ rCur # None =>
           /\ jobs[rCur.job].status = "accepted" /\ jobs[rCur.job].cycle = rCur.key
           /\ rCur.job # wJob
           /\ \A p \in rBatch : p.job # rCur.job
           /\ rCur.answer # "queued" => dm[rCur.job][rCur.key] = rCur.answer

\* uq_dm_jobs_rule_user.
SlotInv ==
    \A i, j \in JobId :
        HoldsSlot(jobs[i]) /\ HoldsSlot(jobs[j]) /\ jobs[i].slot = jobs[j].slot => i = j

IInv == TypeOK /\ WorkerInv /\ RowInv /\ KeyInv /\ PollInv /\ SlotInv

-----------------------------------------------------------------------------
(* Ids and keys.                                                           *)

LEMMA KeysAreInts ==
    /\ Cycles \subseteq 0 .. MaxDeliveryAttempts
    /\ Cycles \subseteq Int
    /\ 0 \in Cycles
    /\ None \notin Cycles
    /\ None \notin JobId
  BY CyclesAreInts, NoneIsNoValue, BoundsAreNumbers DEF JobId

-----------------------------------------------------------------------------
(* Init.                                                                   *)

LEMMA InitIInv == Init => IInv
  <1> SUFFICES ASSUME Init PROVE IInv
    OBVIOUS
  <1> USE KeysAreInts DEF Init
  <1>1. NoRow \in Row /\ NoRow.status = "absent" /\ NoRow.cycle = 0
    BY BudgetsArePositive DEF NoRow, Row
  <1>2. TypeOK
    BY <1>1, BoundsAreNumbers DEF TypeOK, DMState
  <1>3. WorkerInv
    BY NoneIsNoResult DEF WorkerInv, HasClaim, SendResults
  <1>4. RowInv
    BY <1>1 DEF RowInv
  <1>5. KeyInv
    BY <1>1 DEF KeyInv, Cycles
  <1>6. PollInv
    BY DEF PollInv
  <1>7. SlotInv
    BY <1>1 DEF SlotInv, HoldsSlot
  <1> QED
    BY <1>2, <1>3, <1>4, <1>5, <1>6, <1>7 DEF IInv

-----------------------------------------------------------------------------
(* Steps that many actions share.                                          *)

\* A step that leaves the table and PseudoGram alone.
LEMMA DataFrame ==
    ASSUME IInv, UNCHANGED <<table, provider>>
    PROVE  RowInv' /\ KeyInv' /\ SlotInv'
  BY DEF IInv, table, provider, RowInv, KeyInv, SlotInv, Exists, HoldsSlot

\* The worker gives up on a request that may still arrive.
LEMMA LateFrame ==
    ASSUME IInv, HasClaim, UNCHANGED <<table, dm>>,
           late' \in {late, late \cup {<<wJob, wKey>>}}
    PROVE  RowInv' /\ KeyInv' /\ SlotInv'
  <1>1. /\ wJob \in JobId /\ Exists(wJob) /\ wKey = jobs[wJob].cycle
        /\ jobs[wJob].cycle \in Int
    BY BudgetsArePositive DEF IInv, WorkerInv, TypeOK, Row
  <1>2. KeyInv'
    <2> SUFFICES ASSUME NEW j \in JobId, NEW k \in Cycles
                 PROVE  /\ k < jobs[j].cycle => dm[j][k] = "failed"
                        /\ k > jobs[j].cycle => dm[j][k] = "none"
                        /\ dm[j][k] # "none" => Exists(j)
                        /\ <<j, k>> \in late' => k <= jobs[j].cycle /\ Exists(j)
      BY DEF KeyInv, Exists, table
    <2>1. <<j, k>> \in late' => <<j, k>> \in late \/ (j = wJob /\ k = wKey)
      <3>1. CASE late' = late
        BY <3>1
      <3>2. CASE late' = late \cup {<<wJob, wKey>>}
        <4>1. <<j, k>> = <<wJob, wKey>> => j = wJob /\ k = wKey
          OBVIOUS
        <4> QED
          BY <3>2, <4>1
      <3> QED
        BY <3>1, <3>2
    <2> QED
      BY <1>1, <2>1 DEF IInv, KeyInv
  <1> QED
    BY <1>2 DEF IInv, table, RowInv, SlotInv, HoldsSlot

\* A step that changes statuses only, to `queued`, `sending` or `cancelled`,
\* of rows that hold their slot and have a key left.
LEMMA StatusFrame ==
    ASSUME IInv, UNCHANGED <<deleted, provider>>,
           jobs' \in [JobId -> Row],
           \A j \in JobId :
              /\ jobs'[j].slot = jobs[j].slot /\ jobs'[j].comment = jobs[j].comment
              /\ jobs'[j].cycle = jobs[j].cycle /\ jobs'[j].dmId = jobs[j].dmId
              /\ \/ jobs'[j].status = jobs[j].status
                 \/ /\ jobs'[j].status \in {"queued", "sending", "cancelled"}
                    /\ jobs'[j].status = "cancelled" => jobs[j].comment \in deleted
                    /\ HoldsSlot(jobs[j])
                    /\ jobs[j].cycle \in Cycles
    PROVE  RowInv' /\ KeyInv' /\ SlotInv'
  <1>1. RowInv'
    BY DEF IInv, TypeOK, RowInv, provider
  <1>2. KeyInv'
    <2>1. \A j \in JobId : jobs'[j].cycle = jobs[j].cycle /\ (Exists(j) => Exists(j)')
      BY DEF Exists, HoldsSlot
    <2> QED
      BY <2>1 DEF IInv, KeyInv, provider
  <1>3. SlotInv'
    BY DEF IInv, SlotInv, HoldsSlot
  <1> QED
    BY <1>1, <1>2, <1>3

-----------------------------------------------------------------------------
(* The event worker.                                                       *)

\* The rows of one commit: each was absent, is queued now for the comment, and has
\* a slot of its own that nobody held.
LEMMA CreatedRows ==
    ASSUME IInv, NEW J \in SUBSET JobId, NEW c \in Origins, CreateJobs(J, c)
    PROVE  /\ jobs \in [JobId -> Row] /\ jobs' \in [JobId -> Row]
           /\ \A j \in J :
                 /\ jobs[j].status = "absent"
                 /\ jobs'[j].status = "queued" /\ jobs'[j].slot \in Slots
                 /\ jobs'[j].comment = c /\ jobs'[j].cycle = 0
                 /\ \A i \in J : jobs'[i].slot = jobs'[j].slot => i = j
                 /\ \A i \in JobId : HoldsSlot(jobs[i]) => jobs[i].slot # jobs'[j].slot
           /\ \A j \in JobId \ J : jobs'[j] = jobs[j]
           /\ mode # "down" /\ c \notin deleted
           /\ UNCHANGED <<deleted, provider, worker, recon, process>>
  <1>1. PICK slot \in [J -> Slots] :
           /\ \A i, j \in J : slot[i] = slot[j] => i = j
           /\ \A j \in J : ~Conflict(j, NewRow(slot[j], c))
           /\ jobs' = [j \in JobId |-> IF j \in J THEN NewRow(slot[j], c) ELSE jobs[j]]
    BY DEF CreateJobs
  <1>2. jobs \in [JobId -> Row] /\ \A j \in J : jobs[j].status = "absent"
    BY DEF CreateJobs, IInv, TypeOK, Exists
  <1>3. ASSUME NEW j \in J
        PROVE  /\ jobs'[j] = NewRow(slot[j], c) /\ jobs'[j] \in Row /\ slot[j] \in Slots
               /\ jobs'[j].status = "queued" /\ jobs'[j].slot = slot[j]
               /\ jobs'[j].comment = c /\ jobs'[j].cycle = 0
    <2>1. slot[j] \in Slots /\ c \in Comments \cup {None}
      BY OriginsAreComments
    <2>2. jobs'[j] = NewRow(slot[j], c)
      BY <1>1
    <2> QED
      BY <2>1, <2>2, NewRowFacts
  <1>4. ASSUME NEW j \in J, NEW i \in JobId, HoldsSlot(jobs[i])
        PROVE  jobs[i].slot # jobs'[j].slot
    <2>1. HoldsSlot(NewRow(slot[j], c)) /\ NewRow(slot[j], c).slot = slot[j]
      BY <1>3 DEF HoldsSlot
    <2>2. i # j
      BY <1>2, <1>4 DEF HoldsSlot
    <2> QED
      BY <1>1, <1>3, <1>4, <2>1, <2>2 DEF Conflict
  <1>5. \A j \in JobId \ J : jobs'[j] = jobs[j]
    BY <1>1
  <1>6. jobs' \in [JobId -> Row]
    <2>1. \A j \in JobId : jobs'[j] \in Row
      BY <1>2, <1>3, <1>5
    <2>2. jobs' = [j \in JobId |-> jobs'[j]]
      BY <1>1
    <2> QED
      BY <2>1, <2>2
  <1>7. \A i, j \in J : jobs'[i].slot = jobs'[j].slot => i = j
    BY <1>1, <1>3
  <1>8. /\ mode # "down" /\ c \notin deleted
        /\ UNCHANGED <<deleted, provider, worker, recon, process>>
    BY DEF CreateJobs
  <1> QED
    BY <1>2, <1>3, <1>4, <1>5, <1>6, <1>7, <1>8

LEMMA CreateJobsStep ==
    ASSUME IInv, NEW J \in SUBSET JobId, NEW c \in Origins, CreateJobs(J, c)
    PROVE  IInv'
  <1>1. /\ jobs \in [JobId -> Row] /\ jobs' \in [JobId -> Row]
        /\ \A j \in J :
              /\ jobs[j].status = "absent"
              /\ jobs'[j].status = "queued" /\ jobs'[j].cycle = 0
              /\ \A i \in J : jobs'[i].slot = jobs'[j].slot => i = j
              /\ \A i \in JobId : HoldsSlot(jobs[i]) => jobs[i].slot # jobs'[j].slot
        /\ \A j \in JobId \ J : jobs'[j] = jobs[j]
        /\ UNCHANGED <<deleted, provider, worker, recon, process>>
    BY CreatedRows
  <1>2. \A j \in JobId : Exists(j) => jobs'[j] = jobs[j]
    BY <1>1 DEF Exists
  <1>3. TypeOK'
    BY <1>1 DEF IInv, TypeOK, provider, worker, recon, process
  <1>4. WorkerInv'
    BY <1>1, <1>2 DEF IInv, WorkerInv, HasClaim, Exists, provider, worker, recon, process
  <1>5. RowInv'
    BY <1>1, KeysAreInts DEF IInv, RowInv, provider
  <1>6. KeyInv'
    <2> SUFFICES ASSUME NEW j \in JobId, NEW k \in Cycles
                 PROVE  /\ k < jobs'[j].cycle => dm[j][k] = "failed"
                        /\ k > jobs'[j].cycle => dm[j][k] = "none"
                        /\ dm[j][k] # "none" => Exists(j)'
                        /\ <<j, k>> \in late => k <= jobs'[j].cycle /\ Exists(j)'
      BY <1>1 DEF KeyInv, provider
    <2>1. CASE j \in J
      <3>1. ~Exists(j) /\ Exists(j)' /\ jobs'[j].cycle = 0
        BY <1>1, <2>1 DEF Exists
      <3>2. dm[j][k] = "none" /\ <<j, k>> \notin late
        BY <3>1 DEF IInv, KeyInv
      <3> QED
        BY <3>1, <3>2, KeysAreInts DEF Cycles
    <2>2. CASE j \notin J
      BY <1>1, <2>2 DEF IInv, KeyInv, Exists
    <2> QED
      BY <2>1, <2>2
  <1>7. PollInv'
    <2>1. \A p \in rBatch : p.job \in JobId
      BY DEF IInv, TypeOK, Polls
    <2>2. rCur # None => rCur.job \in JobId
      BY DEF IInv, TypeOK
    <2> QED
      BY <1>1, <1>2, <2>1, <2>2 DEF IInv, PollInv, Exists, provider, worker, recon
  <1>8. SlotInv'
    BY <1>1 DEF IInv, SlotInv, HoldsSlot
  <1> QED
    BY <1>3, <1>4, <1>5, <1>6, <1>7, <1>8 DEF IInv

LEMMA RecordDeletionStep ==
    ASSUME IInv, NEW c \in Comments, RecordDeletion(c)
    PROVE  IInv'
  <1> USE DEF RecordDeletion, IInv
  <1>1. TypeOK'
    BY DEF TypeOK, provider, worker, recon, process
  <1>2. WorkerInv'
    BY DEF WorkerInv, HasClaim, Exists, provider, worker, recon, process
  <1>3. RowInv'
    BY DEF RowInv, provider
  <1>4. KeyInv' /\ SlotInv'
    BY DEF KeyInv, SlotInv, HoldsSlot, Exists, provider
  <1>5. PollInv'
    BY DEF PollInv, provider, worker, recon
  <1> QED
    BY <1>1, <1>2, <1>3, <1>4, <1>5

LEMMA CancelJobsStep ==
    ASSUME IInv, NEW c \in Comments, CancelJobs(c)
    PROVE  IInv'
  <1>1. /\ jobs' = [j \in JobId |-> IF Cancellable(j, c) THEN Cancel(jobs[j])
                                                          ELSE jobs[j]]
        /\ c \in deleted /\ jobs \in [JobId -> Row]
        /\ UNCHANGED <<deleted, provider, worker, recon, process>>
    BY DEF CancelJobs, IInv, TypeOK
  <1>2. \A j \in JobId :
           /\ jobs'[j] \in Row
           /\ jobs'[j].slot = jobs[j].slot /\ jobs'[j].comment = jobs[j].comment
           /\ jobs'[j].cycle = jobs[j].cycle /\ jobs'[j].dmId = jobs[j].dmId
           /\ \/ jobs'[j] = jobs[j]
              \/ /\ jobs[j].status \in {"queued", "retry_wait"}
                 /\ jobs'[j].status = "cancelled" /\ jobs[j].comment \in deleted
    <2> SUFFICES ASSUME NEW j \in JobId
                 PROVE  /\ jobs'[j] \in Row
                        /\ jobs'[j].slot = jobs[j].slot /\ jobs'[j].comment = jobs[j].comment
                        /\ jobs'[j].cycle = jobs[j].cycle /\ jobs'[j].dmId = jobs[j].dmId
                        /\ \/ jobs'[j] = jobs[j]
                           \/ /\ jobs[j].status \in {"queued", "retry_wait"}
                              /\ jobs'[j].status = "cancelled"
                              /\ jobs[j].comment \in deleted
      OBVIOUS
    <2> jobs[j] \in Row
      BY <1>1
    <2>1. CASE Cancellable(j, c)
      BY <1>1, <2>1, StatusWrites DEF Cancellable, CancellableStatuses
    <2>2. CASE ~Cancellable(j, c)
      BY <1>1, <2>2
    <2> QED
      BY <2>1, <2>2
  <1>3. jobs' \in [JobId -> Row]
    BY <1>1, <1>2
  <1>4. TypeOK'
    BY <1>1, <1>3 DEF IInv, TypeOK, provider, worker, recon, process
  <1>5. WorkerInv'
    BY <1>1, <1>2 DEF IInv, WorkerInv, HasClaim, Exists, provider, worker, recon, process
  <1>6. RowInv' /\ KeyInv' /\ SlotInv'
    BY <1>1, <1>2, <1>3, StatusFrame DEF HoldsSlot, IInv, RowInv
  <1>7. PollInv'
    BY <1>1, <1>2 DEF IInv, PollInv, TypeOK, Polls, provider, worker, recon
  <1> QED
    BY <1>4, <1>5, <1>6, <1>7 DEF IInv

-----------------------------------------------------------------------------
(* The DM worker.                                                          *)

Threads == {"apply", "read", "write"}

LEMMA HeldKey ==
    ASSUME IInv, HasClaim
    PROVE  /\ wJob \in JobId /\ jobs[wJob] \in Row /\ jobs[wJob].status # "absent"
           /\ wKey = jobs[wJob].cycle /\ wKey \in Cycles
  <1>1. wJob \in JobId /\ jobs[wJob] \in Row
    BY DEF IInv, WorkerInv, TypeOK
  <1>2. jobs[wJob].cycle # None
    BY <1>1, NoneIsNoValue, BudgetsArePositive DEF Row
  <1> QED
    BY <1>1, <1>2 DEF IInv, WorkerInv, TypeOK, Exists

\* What a Settle establishes, whatever else its step does: the claim is kept
\* exactly while steps remain.
LEMMA SettleWorker ==
    ASSUME IInv, HasClaim,
           NEW steps \in SUBSET Threads, NEW r \in SendResults \cup {None},
           Settle(steps, r),
           "apply" \in steps => r # None,
           "apply" \in steps /\ r = "accepted" => dm'[wJob][wKey] # "none",
           jobs'[wJob].status # "absent", jobs'[wJob].cycle = jobs[wJob].cycle,
           mode' \in {"up", "stopping"},
           mode' = "up" /\ "apply" \in steps => steps = {"apply"},
           mode' = "up" /\ steps # {} => jobs'[wJob].status # "accepted",
           mode' = "stopping" => rBatch' = {}
    PROVE  /\ WorkerInv'
           /\ phase' \in {"idle", "settling"} /\ threads' \subseteq Threads
           /\ wJob' \in {wJob, None} /\ wKey' \in Cycles \cup {None}
           /\ result' \in SendResults \cup {None}
  <1>1. wJob \in JobId /\ wKey = jobs[wJob].cycle /\ wKey \in Cycles
    BY HeldKey
  <1>2. CASE steps = {}
    BY <1>1, <1>2, NoneIsNoResult
    DEF Settle, WorkerInv, HasClaim, SendResults
  <1>3. CASE steps # {}
    BY <1>1, <1>3, NoneIsNoResult
    DEF Settle, WorkerInv, HasClaim, Exists, SendResults
  <1> QED
    BY <1>2, <1>3

\* A worker step that leaves the table and the polls alone and ends in Settle
\* without a new result.
LEMMA SettleStep ==
    ASSUME IInv, HasClaim, mode \in {"up", "stopping"}, mode' = mode,
           NEW steps \in SUBSET Threads, Settle(steps, result),
           "apply" \in steps => "apply" \in threads,
           mode = "up" /\ "apply" \in steps => steps = {"apply"},
           faults' \in 0 .. MaxFaults,
           UNCHANGED <<table, provider, cand, recon>>
    PROVE  IInv'
  <1>1. result \in SendResults \cup {None} /\ wJob \in JobId
    BY KeysAreInts DEF IInv, TypeOK, WorkerInv
  <1>2. /\ WorkerInv'
        /\ phase' \in {"idle", "settling"} /\ threads' \subseteq Threads
        /\ wJob' \in {wJob, None} /\ wKey' \in Cycles \cup {None}
        /\ result' \in SendResults \cup {None}
    <2>1. "apply" \in steps => result # None
      BY DEF IInv, WorkerInv
    <2>2. result = "accepted" => dm'[wJob][wKey] # "none"
      BY DEF IInv, WorkerInv, provider
    <2>3. /\ jobs'[wJob].status # "absent" /\ jobs'[wJob].cycle = jobs[wJob].cycle
          /\ mode' = "up" => jobs'[wJob].status # "accepted"
          /\ mode' = "stopping" => rBatch' = {}
      BY DEF IInv, WorkerInv, Exists, table, recon
    <2> QED
      BY <1>1, <2>1, <2>2, <2>3, SettleWorker
  <1>3. TypeOK'
    BY <1>1, <1>2 DEF IInv, TypeOK, Threads, table, provider, recon
  <1>4. PollInv'
    BY <1>1, <1>2, KeysAreInts DEF IInv, TypeOK, PollInv, table, provider, recon
  <1> QED
    BY <1>2, <1>3, <1>4, DataFrame DEF IInv

LEMMA SelectCandidatesStep ==
    ASSUME IInv, SelectCandidates
    PROVE  IInv'
  <1> USE DEF SelectCandidates, table, provider, recon, process
  <1>1. cand' \subseteq JobId
    BY DEF Queued, Waiting
  <1>2. TypeOK'
    BY <1>1 DEF IInv, TypeOK
  <1>3. WorkerInv'
    BY DEF IInv, WorkerInv, HasClaim, Exists
  <1>4. PollInv'
    BY DEF IInv, PollInv
  <1> QED
    BY <1>2, <1>3, <1>4, DataFrame DEF IInv

LEMMA ClaimNoneStep ==
    ASSUME IInv, ClaimNone
    PROVE  IInv'
  <1> USE DEF ClaimNone, table, provider, recon, process
  <1>1. TypeOK'
    BY DEF IInv, TypeOK
  <1>2. WorkerInv'
    BY DEF IInv, WorkerInv, HasClaim, Exists
  <1>3. PollInv'
    BY DEF IInv, PollInv
  <1> QED
    BY <1>1, <1>2, <1>3, DataFrame DEF IInv

\* The effect on the table of a claim that commits.
LEMMA ClaimWrites ==
    ASSUME IInv, NEW j \in JobId, FirstClaimable(j),
           jobs' = [jobs EXCEPT ![j] = Claim(@)],
           UNCHANGED <<deleted, provider>>
    PROVE  /\ jobs' \in [JobId -> Row] /\ RowInv' /\ KeyInv' /\ SlotInv'
           /\ jobs[j].status \in {"queued", "retry_wait"} /\ jobs[j].cycle \in Cycles
           /\ jobs'[j].status = "sending" /\ jobs'[j].cycle = jobs[j].cycle
           /\ \A x \in JobId \ {j} : jobs'[x] = jobs[x]
  <1>1. jobs \in [JobId -> Row] /\ jobs[j] \in Row
    BY DEF IInv, TypeOK
  <1>2. jobs[j].status \in {"queued", "retry_wait"} /\ jobs[j].cycle \in Cycles
    BY DEF IInv, RowInv, FirstClaimable, Claimable, Queued, Waiting
  <1>3. /\ jobs'[j] = Claim(jobs[j]) /\ jobs' \in [JobId -> Row]
        /\ \A x \in JobId \ {j} : jobs'[x] = jobs[x]
    BY <1>1, StatusWrites
  <1>4. /\ jobs'[j].status = "sending" /\ jobs'[j].cycle = jobs[j].cycle
        /\ jobs'[j].slot = jobs[j].slot /\ jobs'[j].comment = jobs[j].comment
        /\ jobs'[j].dmId = jobs[j].dmId
    BY <1>1, <1>3, StatusWrites
  <1>5. RowInv' /\ KeyInv' /\ SlotInv'
    BY <1>2, <1>3, <1>4, StatusFrame DEF HoldsSlot
  <1> QED
    BY <1>2, <1>3, <1>4, <1>5

LEMMA ClaimNextJobStep ==
    ASSUME IInv, NEW j \in JobId, ClaimNextJob(j)
    PROVE  IInv'
  <1>1. /\ jobs' \in [JobId -> Row] /\ RowInv' /\ KeyInv' /\ SlotInv'
        /\ jobs[j].status \in {"queued", "retry_wait"} /\ jobs[j].cycle \in Cycles
        /\ jobs'[j].status = "sending" /\ jobs'[j].cycle = jobs[j].cycle
        /\ \A x \in JobId \ {j} : jobs'[x] = jobs[x]
    BY ClaimWrites DEF ClaimNextJob
  <1>2. /\ mode = "up" /\ mode' = mode /\ phase = "selected" /\ phase' = "acquiring"
        /\ wJob' = j /\ wKey' = jobs[j].cycle /\ cand' = {}
        /\ UNCHANGED <<deleted, provider, result, threads, recon, process>>
    BY DEF ClaimNextJob, IdempotencyKey, process
  <1>3. TypeOK'
    BY <1>1, <1>2 DEF IInv, TypeOK, provider, recon, process
  <1>4. WorkerInv'
    <2>1. threads = {} /\ result = None
      BY <1>2 DEF IInv, WorkerInv
    <2> QED
      BY <1>1, <1>2, <2>1, NoneIsNoResult
      DEF WorkerInv, HasClaim, Exists, SendResults, process
  <1>5. PollInv'
    BY <1>1, <1>2 DEF IInv, TypeOK, Polls, PollInv, provider, recon
  <1> QED
    BY <1>1, <1>3, <1>4, <1>5 DEF IInv

LEMMA LoseClaimStep ==
    ASSUME IInv, NEW j \in JobId, LoseClaim(j)
    PROVE  IInv'
  <1>1. /\ jobs' \in [JobId -> Row] /\ RowInv' /\ KeyInv' /\ SlotInv'
        /\ jobs[j].status \in {"queued", "retry_wait"} /\ jobs[j].cycle \in Cycles
        /\ jobs'[j].status = "sending" /\ jobs'[j].cycle = jobs[j].cycle
        /\ \A x \in JobId \ {j} : jobs'[x] = jobs[x]
    BY ClaimWrites DEF LoseClaim
  <1>2. /\ phase = "selected" /\ phase' = "idle" /\ cand' = {}
        /\ UNCHANGED <<deleted, provider, wJob, wKey, result, threads, recon, mode>>
        /\ faults' \in 0 .. MaxFaults
    BY BoundsAreNumbers DEF LoseClaim, Fault, IInv, TypeOK
  <1>3. TypeOK'
    BY <1>1, <1>2 DEF IInv, TypeOK, provider, recon
  <1>4. WorkerInv'
    BY <1>1, <1>2 DEF IInv, WorkerInv, HasClaim, recon, provider
  <1>5. PollInv'
    BY <1>1, <1>2 DEF IInv, TypeOK, Polls, PollInv, provider, recon
  <1> QED
    BY <1>1, <1>3, <1>4, <1>5 DEF IInv

LEMMA SendRequestStep ==
    ASSUME IInv, SendRequest
    PROVE  IInv'
  <1> USE DEF SendRequest, table, provider, recon, process
  <1>1. TypeOK'
    BY DEF IInv, TypeOK
  <1>2. WorkerInv'
    BY DEF IInv, WorkerInv, HasClaim, Exists
  <1>3. PollInv'
    BY DEF IInv, PollInv
  <1> QED
    BY <1>1, <1>2, <1>3, DataFrame DEF IInv

\* A request for a key that is not newer than the row's current one lands.
LEMMA LandStep ==
    ASSUME IInv, NEW j \in JobId, NEW k \in Cycles, Land(j, k),
           k <= jobs[j].cycle, Exists(j), UNCHANGED <<table, recon>>,
           late' \subseteq late
    PROVE  /\ dm' \in [JobId -> [Cycles -> DMState]] /\ dm'[j][k] # "none"
           /\ \A x \in JobId, y \in Cycles : dm[x][y] # "none" => dm'[x][y] = dm[x][y]
           /\ RowInv' /\ KeyInv' /\ SlotInv'
           /\ wJob' \in {wJob, None} => PollInv'
  <1>1. /\ dm' \in [JobId -> [Cycles -> DMState]] /\ dm'[j][k] # "none"
        /\ \A x \in JobId, y \in Cycles :
              dm'[x][y] = dm[x][y] \/ (x = j /\ y = k /\ dm[x][y] = "none")
    <2>1. dm \in [JobId -> [Cycles -> DMState]]
      BY DEF IInv, TypeOK
    <2>2. CASE dm[j][k] = "none"
      <3>1. dm' = [dm EXCEPT ![j][k] = "queued"]
        BY <2>2 DEF Land
      <3>2. /\ dm'[j] = [dm[j] EXCEPT ![k] = "queued"]
            /\ \A x \in JobId \ {j} : dm'[x] = dm[x]
        BY <2>1, <3>1
      <3>3. dm' \in [JobId -> [Cycles -> DMState]]
        BY <2>1, <3>1 DEF DMState
      <3>4. dm'[j][k] = "queued" /\ \A y \in Cycles \ {k} : dm'[j][y] = dm[j][y]
        BY <2>1, <3>2
      <3> QED
        BY <2>2, <3>2, <3>3, <3>4
    <2>3. CASE dm[j][k] # "none"
      <3>1. dm' = dm
        BY <2>3 DEF Land
      <3> QED
        BY <2>1, <2>3, <3>1
    <2> QED
      BY <2>2, <2>3
  <1>2. jobs[j].cycle \in Int /\ k \in Int
    BY KeysAreInts, BudgetsArePositive DEF IInv, TypeOK, Row
  <1>3. RowInv'
    <2> SUFFICES ASSUME NEW x \in JobId
                 PROVE  /\ jobs[x].status # "failed" => jobs[x].cycle \in Cycles
                        /\ jobs[x].status = "accepted" =>
                              /\ jobs[x].dmId = jobs[x].cycle
                              /\ dm'[x][jobs[x].cycle] # "none"
                        /\ jobs[x].status = "delivered" =>
                              dm'[x][jobs[x].cycle] = "delivered"
                        /\ jobs[x].status = "cancelled" => jobs[x].comment \in deleted
      BY DEF RowInv, table
    <2> QED
      BY <1>1 DEF IInv, RowInv
  <1>4. KeyInv'
    <2> SUFFICES ASSUME NEW x \in JobId, NEW y \in Cycles
                 PROVE  /\ y < jobs[x].cycle => dm'[x][y] = "failed"
                        /\ y > jobs[x].cycle => dm'[x][y] = "none"
                        /\ dm'[x][y] # "none" => Exists(x)
                        /\ <<x, y>> \in late' => y <= jobs[x].cycle /\ Exists(x)
      BY DEF KeyInv, Exists, table
    <2>1. CASE dm'[x][y] = dm[x][y]
      BY <2>1 DEF IInv, KeyInv
    <2>2. CASE x = j /\ y = k /\ dm[x][y] = "none"
      BY <1>2, <2>2 DEF IInv, KeyInv
    <2> QED
      BY <1>1, <2>1, <2>2
  <1>5. SlotInv'
    BY DEF IInv, SlotInv, HoldsSlot, table
  <1>6. wJob' \in {wJob, None} => PollInv'
    <2> SUFFICES ASSUME rCur # None, rCur.answer # "queued"
                 PROVE  dm'[rCur.job][rCur.key] = rCur.answer
      BY KeysAreInts DEF IInv, TypeOK, PollInv, table, recon
    <2>1. /\ rCur.job \in JobId /\ rCur.key \in Cycles /\ rCur.answer # "none"
          /\ dm[rCur.job][rCur.key] = rCur.answer
      BY DEF IInv, TypeOK, PollInv, Answers
    <2> QED
      BY <1>1, <2>1
  <1> QED
    BY <1>1, <1>3, <1>4, <1>5, <1>6

LEMMA SendReturnsStep ==
    ASSUME IInv, NEW r \in SendResults, SendReturns(r)
    PROVE  IInv'
  <1>1. /\ HasClaim /\ phase = "sending" /\ mode = "up" /\ mode' = mode
        /\ Settle({"apply"}, r) /\ UNCHANGED <<table, cand, recon>>
    BY DEF SendReturns, HasClaim
  <1>2. /\ wJob \in JobId /\ jobs[wJob] \in Row /\ jobs[wJob].status # "absent"
        /\ wKey = jobs[wJob].cycle /\ wKey \in Cycles
    BY <1>1, HeldKey
  <1>3. phase' = "settling" /\ wJob' = wJob /\ wKey' = wKey /\ result' = r
    BY <1>1 DEF Settle
  <1>4. CASE Accepted(r)
    <2>1. Land(wJob, wKey) /\ UNCHANGED <<late, faults>>
      BY <1>4 DEF Accepted
    <2>2. wKey <= jobs[wJob].cycle
      BY <1>2, KeysAreInts
    <2>3. /\ dm' \in [JobId -> [Cycles -> DMState]] /\ dm'[wJob][wKey] # "none"
          /\ RowInv' /\ KeyInv' /\ SlotInv' /\ PollInv'
      BY <1>1, <1>2, <1>3, <2>1, <2>2, LandStep DEF Exists
    <2>4. WorkerInv'
      BY <1>1, <1>2, <1>3, <2>3, NoneIsNoResult
      DEF IInv, WorkerInv, HasClaim, Exists, Settle, table, recon
    <2>5. TypeOK'
      BY <1>1, <1>2, <1>3, <2>1, <2>3 DEF IInv, TypeOK, Settle, table, recon
    <2> QED
      BY <2>3, <2>4, <2>5 DEF IInv
  <1>5. CASE Refused(r)
    <2>1. UNCHANGED provider /\ faults' \in 0 .. MaxFaults /\ r # "accepted"
      BY <1>5, BoundsAreNumbers DEF Refused, Fault, IInv, TypeOK
    <2>2. WorkerInv'
      BY <1>1, <1>2, <1>3, <2>1, NoneIsNoResult
      DEF IInv, WorkerInv, HasClaim, Exists, Settle, table, recon
    <2>3. TypeOK'
      BY <1>1, <1>2, <1>3, <2>1 DEF IInv, TypeOK, Settle, table, recon, provider
    <2>4. PollInv'
      BY <1>1, <1>3, <2>1 DEF IInv, PollInv, table, recon, provider
    <2> QED
      BY <1>1, <2>1, <2>2, <2>3, <2>4, DataFrame DEF IInv
  <1>6. CASE Unanswered(r)
    <2>1. /\ late' = late \cup {<<wJob, wKey>>} /\ UNCHANGED <<dm, faults>>
          /\ r # "accepted"
      BY <1>6 DEF Unanswered
    <2>2. WorkerInv'
      BY <1>1, <1>2, <1>3, <2>1, NoneIsNoResult
      DEF IInv, WorkerInv, HasClaim, Exists, Settle, table, recon
    <2>3. TypeOK'
      BY <1>1, <1>2, <1>3, <2>1 DEF IInv, TypeOK, Settle, table, recon
    <2>4. PollInv'
      BY <1>1, <1>3, <2>1 DEF IInv, PollInv, table, recon
    <2> QED
      BY <1>1, <1>2, <2>1, <2>2, <2>3, <2>4, LateFrame DEF IInv
  <1> QED
    BY <1>4, <1>5, <1>6 DEF SendReturns

LEMMA SendRaisesStep ==
    ASSUME IInv, SendRaises
    PROVE  IInv'
  <1>1. /\ HasClaim /\ phase = "sending" /\ mode = "up" /\ mode' = mode
        /\ Settle({"read"}, None) /\ UNCHANGED <<table, dm, cand, recon>>
        /\ late' = late \cup {<<wJob, wKey>>} /\ faults' \in 0 .. MaxFaults
    BY BoundsAreNumbers DEF SendRaises, HasClaim, Fault, IInv, TypeOK
  <1>2. /\ wJob \in JobId /\ jobs[wJob] \in Row /\ jobs[wJob].status # "absent"
        /\ wKey = jobs[wJob].cycle /\ wKey \in Cycles
    BY <1>1, HeldKey
  <1>3. phase' = "settling" /\ wJob' = wJob /\ wKey' = wKey /\ result' = None
    BY <1>1 DEF Settle
  <1>4. WorkerInv'
    BY <1>1, <1>2, <1>3, NoneIsNoResult
    DEF IInv, WorkerInv, HasClaim, Exists, Settle, SendResults, table, recon
  <1>5. TypeOK'
    BY <1>1, <1>2, <1>3 DEF IInv, TypeOK, Settle, table, recon
  <1>6. PollInv'
    BY <1>1, <1>3 DEF IInv, PollInv, table, recon
  <1> QED
    BY <1>1, <1>2, <1>4, <1>5, <1>6, LateFrame DEF IInv

\* Writing a row with the claimed row's key and slot, as the release and apply
\* threads do, once the unique index has let it pass.
LEMMA HeldRowWritten ==
    ASSUME IInv, HasClaim, NEW row \in Row, ~Conflict(wJob, row),
           row.slot = jobs[wJob].slot, row.comment = jobs[wJob].comment,
           row.cycle = jobs[wJob].cycle,
           row.status \notin {"absent", "cancelled", "delivered"},
           row.status = "accepted" =>
               row.dmId = row.cycle /\ dm[wJob][row.cycle] # "none",
           jobs' = [jobs EXCEPT ![wJob] = row], UNCHANGED <<deleted, provider>>
    PROVE  /\ jobs' \in [JobId -> Row] /\ RowInv' /\ KeyInv' /\ SlotInv'
           /\ jobs'[wJob] = row /\ \A x \in JobId \ {wJob} : jobs'[x] = jobs[x]
  <1>1. /\ wJob \in JobId /\ jobs[wJob] \in Row /\ jobs[wJob].status # "absent"
        /\ wKey = jobs[wJob].cycle /\ wKey \in Cycles
    BY HeldKey
  <1>2. /\ jobs' \in [JobId -> Row] /\ jobs'[wJob] = row
        /\ \A x \in JobId \ {wJob} : jobs'[x] = jobs[x]
    BY <1>1 DEF IInv, TypeOK
  <1>3. RowInv'
    BY <1>1, <1>2 DEF IInv, RowInv, provider
  <1>4. KeyInv'
    BY <1>1, <1>2 DEF IInv, KeyInv, Exists, provider
  <1>5. SlotInv'
    BY <1>1, <1>2 DEF IInv, SlotInv, Conflict, HoldsSlot
  <1> QED
    BY <1>2, <1>3, <1>4, <1>5

\* The rest of the invariant after such a write.
LEMMA HeldRowSettles ==
    ASSUME IInv, HasClaim, NEW row \in Row,
           jobs' \in [JobId -> Row], jobs'[wJob] = row,
           \A x \in JobId \ {wJob} : jobs'[x] = jobs[x],
           row.cycle = jobs[wJob].cycle, row.status # "absent",
           NEW steps \in SUBSET threads, Settle(steps, result),
           mode \in {"up", "stopping"},
           mode = "up" => "apply" \notin steps,
           mode = "up" /\ steps # {} => row.status # "accepted",
           UNCHANGED <<deleted, provider, cand, recon, process>>
    PROVE  TypeOK' /\ WorkerInv' /\ PollInv'
  <1>1. result \in SendResults \cup {None} /\ threads \subseteq Threads
    BY DEF IInv, TypeOK, Threads
  <1>2. /\ WorkerInv'
        /\ phase' \in {"idle", "settling"} /\ threads' \subseteq Threads
        /\ wJob' \in {wJob, None} /\ wKey' \in Cycles \cup {None}
        /\ result' \in SendResults \cup {None}
    <2>1. "apply" \in steps => result # None
      BY DEF IInv, WorkerInv
    <2>2. result = "accepted" => dm'[wJob][wKey] # "none"
      BY DEF IInv, WorkerInv, provider
    <2>3. /\ mode' \in {"up", "stopping"} /\ (mode' = "up" => "apply" \notin steps)
          /\ mode' = "up" /\ steps # {} => jobs'[wJob].status # "accepted"
      BY DEF process
    <2>4. mode' = "stopping" => rBatch' = {}
      BY DEF IInv, WorkerInv, process, recon
    <2>5. steps \in SUBSET Threads
      BY <1>1
    <2> QED
      BY <1>1, <2>1, <2>2, <2>3, <2>4, <2>5, SettleWorker
  <1>3. wJob \in JobId
    BY HeldKey
  <1>4. TypeOK'
    BY <1>2, <1>3 DEF IInv, TypeOK, Threads, provider, recon, process
  <1>5. PollInv'
    <2>1. \A p \in rBatch : p.job # wJob
      BY DEF IInv, WorkerInv, PollInv
    <2>2. rCur # None => rCur.job \in JobId /\ rCur.job # wJob /\ rCur.job # None
      BY KeysAreInts DEF IInv, TypeOK, PollInv
    <2>3. \A p \in rBatch : p.job \in JobId
      BY DEF IInv, TypeOK, Polls
    <2> QED
      BY <1>2, <2>1, <2>2, <2>3 DEF IInv, PollInv, provider, recon
  <1> QED
    BY <1>2, <1>4, <1>5

\* Threads run only while a claim is held and the process is not down.
LEMMA ThreadsRun ==
    ASSUME IInv, threads # {}
    PROVE  HasClaim /\ phase = "settling" /\ mode \in {"up", "stopping"}
  BY DEF IInv, WorkerInv, TypeOK, HasClaim

LEMMA AfterFailureStep ==
    ASSUME IInv, NEW step \in threads, AfterFailure(step), mode' = mode,
           faults' \in 0 .. MaxFaults, UNCHANGED <<table, provider, cand, recon>>
    PROVE  IInv'
  <1>1. HasClaim /\ mode \in {"up", "stopping"} /\ threads \subseteq Threads
    BY ThreadsRun DEF IInv, TypeOK, Threads
  <1>2. CASE step = "apply" /\ mode = "up"
    <2>1. Settle({"read"}, result)
      BY <1>2 DEF AfterFailure
    <2> QED
      BY <1>1, <2>1, SettleStep DEF Threads
  <1>3. CASE ~(step = "apply" /\ mode = "up")
    <2>1. Settle(threads \ {step}, result)
      BY <1>3 DEF AfterFailure
    <2>2. mode = "up" => "apply" \notin threads \ {step}
      BY <1>3 DEF IInv, WorkerInv
    <2> QED
      BY <1>1, <2>1, <2>2, SettleStep
  <1> QED
    BY <1>2, <1>3

LEMMA ApplyResultStep ==
    ASSUME IInv, ApplyResult
    PROVE  IInv'
  <1> DEFINE row == ApplySendResult(jobs[wJob], result, wKey)
  <1>1. /\ HasClaim /\ "apply" \in threads /\ mode \in {"up", "stopping"}
        /\ UNCHANGED <<deleted, provider, cand, recon, process>>
    BY ThreadsRun DEF ApplyResult
  <1>2. /\ wJob \in JobId /\ jobs[wJob] \in Row /\ jobs[wJob].status # "absent"
        /\ wKey = jobs[wJob].cycle /\ wKey \in Cycles
    BY <1>1, HeldKey
  <1>3. result \in SendResults /\ (result = "accepted" => dm[wJob][wKey] # "none")
    BY <1>1 DEF IInv, TypeOK, WorkerInv
  <1>4. /\ row \in Row /\ row.slot = jobs[wJob].slot
        /\ row.comment = jobs[wJob].comment /\ row.cycle = jobs[wJob].cycle
        /\ row.status \in {"accepted", "retry_wait", "failed"}
        /\ row.status = "accepted" => row.dmId = row.cycle /\ dm[wJob][row.cycle] # "none"
    BY <1>2, <1>3, SendResultFacts
  <1>5. CASE ~Conflict(wJob, row)
    <2>1. /\ jobs' = [jobs EXCEPT ![wJob] = row]
          /\ Settle(threads \ {"apply"}, result)
      BY <1>5 DEF ApplyResult
    <2>2. mode = "up" => threads \ {"apply"} = {}
      BY <1>1 DEF IInv, WorkerInv
    <2> HIDE DEF row
    <2>3. /\ jobs' \in [JobId -> Row] /\ RowInv' /\ KeyInv' /\ SlotInv'
          /\ jobs'[wJob] = row /\ \A x \in JobId \ {wJob} : jobs'[x] = jobs[x]
      BY <1>1, <1>4, <1>5, <2>1, HeldRowWritten
    <2>4. TypeOK' /\ WorkerInv' /\ PollInv'
      BY <1>1, <1>4, <2>1, <2>2, <2>3, HeldRowSettles
    <2> QED
      BY <2>3, <2>4 DEF IInv
  <1>6. CASE Conflict(wJob, row)
    <2>1. AfterFailure("apply") /\ UNCHANGED jobs
      BY <1>6 DEF ApplyResult
    <2> QED
      BY <1>1, <2>1, AfterFailureStep DEF table, process, IInv, TypeOK
  <1> QED
    BY <1>5, <1>6

LEMMA ReleaseReadStep ==
    ASSUME IInv, ReleaseRead
    PROVE  IInv'
  <1> DEFINE steps == (threads \ {"read"}) \cup
                        (IF ReleaseNeeded(wJob) THEN {"write"} ELSE {})
  <1>1. /\ HasClaim /\ mode \in {"up", "stopping"} /\ "read" \in threads
        /\ Settle(steps, result) /\ mode' = mode
        /\ UNCHANGED <<table, provider, cand, recon>> /\ faults' \in 0 .. MaxFaults
    BY ThreadsRun DEF ReleaseRead, process, IInv, TypeOK
  <1>2. /\ steps \in SUBSET Threads /\ ("apply" \in steps => "apply" \in threads)
        /\ mode = "up" => "apply" \notin threads
    BY <1>1 DEF IInv, TypeOK, WorkerInv, Threads
  <1> HIDE DEF steps
  <1> QED
    BY <1>1, <1>2, SettleStep

LEMMA ReleaseWriteStep ==
    ASSUME IInv, ReleaseWrite
    PROVE  IInv'
  <1> DEFINE row == Requeue(jobs[wJob])
  <1>1. /\ HasClaim /\ "write" \in threads /\ mode \in {"up", "stopping"}
        /\ Settle(threads \ {"write"}, result)
        /\ UNCHANGED <<deleted, provider, cand, recon, process>>
    BY ThreadsRun DEF ReleaseWrite
  <1>2. /\ wJob \in JobId /\ jobs[wJob] \in Row /\ jobs[wJob].status # "absent"
    BY <1>1, HeldKey
  <1>3. /\ row \in Row /\ row.slot = jobs[wJob].slot /\ row.status = "queued"
        /\ row.comment = jobs[wJob].comment /\ row.cycle = jobs[wJob].cycle
    BY <1>2, StatusWrites
  <1>4. "apply" \notin threads \/ mode = "stopping"
    BY <1>1 DEF IInv, WorkerInv
  <1>5. CASE ~Conflict(wJob, row)
    <2>1. jobs' = [jobs EXCEPT ![wJob] = row]
      BY <1>5 DEF ReleaseWrite
    <2> HIDE DEF row
    <2>2. /\ jobs' \in [JobId -> Row] /\ RowInv' /\ KeyInv' /\ SlotInv'
          /\ jobs'[wJob] = row /\ \A x \in JobId \ {wJob} : jobs'[x] = jobs[x]
      BY <1>1, <1>3, <1>5, <2>1, HeldRowWritten
    <2>3. TypeOK' /\ WorkerInv' /\ PollInv'
      BY <1>1, <1>3, <1>4, <2>2, HeldRowSettles
    <2> QED
      BY <2>2, <2>3 DEF IInv
  <1>6. CASE Conflict(wJob, row)
    <2>1. UNCHANGED jobs
      BY <1>6 DEF ReleaseWrite
    <2>2. threads \ {"write"} \in SUBSET Threads
      BY DEF IInv, TypeOK, Threads
    <2> QED
      BY <1>1, <1>4, <2>1, <2>2, SettleStep DEF table, process, IInv, TypeOK
  <1> QED
    BY <1>5, <1>6

LEMMA ThreadFailsStep ==
    ASSUME IInv, NEW step \in threads, ThreadFails(step)
    PROVE  IInv'
  BY AfterFailureStep, BoundsAreNumbers DEF ThreadFails, Fault, IInv, TypeOK

-----------------------------------------------------------------------------
(* The reconciler.                                                         *)

LEMMA ReconLoadStep ==
    ASSUME IInv, ReconLoad
    PROVE  IInv'
  <1> USE DEF ReconLoad, table, provider, worker, process
  <1>1. TypeOK'
    BY DEF IInv, TypeOK, Pollable
  <1>2. WorkerInv'
    BY DEF IInv, WorkerInv, HasClaim, Exists
  <1>3. PollInv'
    BY DEF IInv, RowInv, PollInv, Pollable, Polls
  <1> QED
    BY <1>1, <1>2, <1>3, DataFrame DEF IInv

LEMMA ReconPollStep ==
    ASSUME IInv, NEW p \in rBatch, ReconPoll(p)
    PROVE  IInv'
  <1> DEFINE poll == [job |-> p.job, key |-> p.key, answer |-> dm[p.job][p.key]]
  <1>1. /\ mode = "up" /\ rCur = None /\ rBatch' = rBatch \ {p} /\ rCur' = poll
        /\ dm[p.job][p.key] # "none"
        /\ UNCHANGED <<table, provider, worker, process>>
    BY DEF ReconPoll
  <1>2. p.job \in JobId /\ p.key \in Cycles /\ dm[p.job][p.key] \in Answers
    BY <1>1 DEF IInv, TypeOK, Polls, DMState, Answers
  <1>3. /\ jobs[p.job].status = "accepted" /\ jobs[p.job].cycle = p.key
        /\ p.job # wJob
    <2>1. jobs[p.job].status = "accepted" /\ jobs[p.job].cycle = p.key
      BY DEF IInv, PollInv
    <2>2. HasClaim => jobs[wJob].status # "accepted"
      BY <1>1 DEF IInv, WorkerInv
    <2>3. ~HasClaim => wJob = None
      BY DEF IInv, WorkerInv
    <2> QED
      BY <1>2, <2>1, <2>2, <2>3, KeysAreInts
  <1>4. TypeOK'
    BY <1>1, <1>2 DEF IInv, TypeOK, table, provider, worker, process
  <1>5. WorkerInv'
    BY <1>1 DEF IInv, WorkerInv, HasClaim, Exists, table, provider, worker, process
  <1>6. PollInv'
    <2>1. \A q \in rBatch \ {p} : q.job # p.job
      <3> SUFFICES ASSUME NEW q \in rBatch, q.job = p.job
                   PROVE  q = p
        OBVIOUS
      <3>1. q.key = p.key
        BY DEF IInv, PollInv
      <3> QED
        BY <3>1 DEF IInv, TypeOK, Polls
    <2> QED
      BY <1>1, <1>2, <1>3, <2>1 DEF IInv, PollInv, table, provider, worker
  <1> QED
    BY <1>1, <1>4, <1>5, <1>6, DataFrame DEF IInv

LEMMA ReconPollFailsStep ==
    ASSUME IInv, NEW p \in rBatch, ReconPollFails(p)
    PROVE  IInv'
  <1> USE BoundsAreNumbers DEF ReconPollFails, Fault, table, provider, worker
  <1>1. TypeOK'
    BY DEF IInv, TypeOK
  <1>2. WorkerInv'
    BY DEF IInv, WorkerInv, HasClaim, Exists
  <1>3. PollInv'
    BY DEF IInv, PollInv
  <1> QED
    BY <1>1, <1>2, <1>3, DataFrame DEF IInv

LEMMA ReconApplyFailsStep ==
    ASSUME IInv, ReconApplyFails
    PROVE  IInv'
  <1> USE BoundsAreNumbers DEF ReconApplyFails, Fault, table, provider, worker
  <1>1. TypeOK'
    BY DEF IInv, TypeOK
  <1>2. WorkerInv'
    BY DEF IInv, WorkerInv, HasClaim, Exists
  <1>3. PollInv'
    BY DEF IInv, PollInv
  <1> QED
    BY <1>1, <1>2, <1>3, DataFrame DEF IInv

LEMMA ReconApplyStep ==
    ASSUME IInv, ReconApply
    PROVE  IInv'
  <1> DEFINE j == rCur.job
             row == ApplyDeliveryStatus(jobs[j], rCur.answer)
  <1>1. /\ rCur # None /\ rCur' = None
        /\ UNCHANGED <<deleted, provider, worker, rBatch, process>>
    BY DEF ReconApply
  <1>2. /\ j \in JobId /\ rCur.answer \in Answers /\ rCur.key \in Cycles
        /\ jobs \in [JobId -> Row] /\ jobs[j] \in Row
        /\ jobs[j].status = "accepted" /\ jobs[j].cycle = rCur.key /\ j # wJob
        /\ rCur.answer # "queued" => dm[j][rCur.key] = rCur.answer
    BY <1>1 DEF IInv, TypeOK, PollInv
  <1>3. /\ row \in Row /\ row.status # "absent"
        /\ row.slot = jobs[j].slot /\ row.comment = jobs[j].comment
        /\ rCur.answer = "queued" => row = jobs[j]
        /\ rCur.answer = "delivered" =>
               row.status = "delivered" /\ row.cycle = jobs[j].cycle
        /\ rCur.answer = "failed" =>
               /\ row.status \in {"retry_wait", "failed"}
               /\ row.cycle = jobs[j].cycle + 1
               /\ row.status = "retry_wait" => row.cycle \in Cycles
    BY <1>2, DeliveryStatusFacts
  <1>4. /\ jobs' \in [JobId -> Row] /\ jobs'[j] = row
        /\ \A x \in JobId \ {j} : jobs'[x] = jobs[x]
    <2>1. jobs' = [jobs EXCEPT ![j] = row]
      BY <1>2 DEF ReconApply
    <2> HIDE DEF row, j
    <2> QED
      BY <1>2, <1>3, <2>1
  <1>5. rCur.answer \in {"queued", "delivered", "failed"}
    BY <1>2 DEF Answers
  <1>6. jobs[j].cycle \in Int /\ jobs[j].cycle \in Cycles
    BY <1>2, KeysAreInts
  <1> HIDE DEF row, j
  <1>7. TypeOK'
    BY <1>1, <1>4 DEF IInv, TypeOK, provider, worker, process
  <1>8. WorkerInv'
    BY <1>1, <1>2, <1>4
    DEF IInv, WorkerInv, HasClaim, Exists, provider, worker, process
  <1>9. RowInv'
    BY <1>1, <1>2, <1>3, <1>4, <1>5 DEF IInv, RowInv, provider
  <1>10. KeyInv'
    <2> SUFFICES ASSUME NEW x \in JobId, NEW k \in Cycles
                 PROVE  /\ k < jobs'[x].cycle => dm[x][k] = "failed"
                        /\ k > jobs'[x].cycle => dm[x][k] = "none"
                        /\ dm[x][k] # "none" => Exists(x)'
                        /\ <<x, k>> \in late => k <= jobs'[x].cycle /\ Exists(x)'
      BY <1>1 DEF KeyInv, provider
    <2>1. CASE x # j
      BY <1>4, <2>1 DEF IInv, KeyInv, Exists
    <2>2. CASE x = j /\ rCur.answer = "failed"
      <3>1. k \in Int
        BY KeysAreInts
      <3>2. k < jobs[j].cycle + 1 => k < jobs[j].cycle \/ k = jobs[j].cycle
        BY <1>6, <3>1
      <3> QED
        BY <1>2, <1>3, <1>4, <1>6, <2>2, <3>1, <3>2 DEF IInv, KeyInv, Exists
    <2>3. CASE x = j /\ rCur.answer # "failed"
      BY <1>3, <1>4, <1>5, <2>3 DEF IInv, KeyInv, Exists
    <2> QED
      BY <2>1, <2>2, <2>3
  <1>11. PollInv'
    BY <1>1, <1>4 DEF IInv, TypeOK, Polls, PollInv, provider, worker, j
  <1>12. SlotInv'
    BY <1>2, <1>3, <1>4 DEF IInv, SlotInv, HoldsSlot
  <1> QED
    BY <1>7, <1>8, <1>9, <1>10, <1>11, <1>12 DEF IInv

-----------------------------------------------------------------------------
(* Maintenance and the life of the process.                                *)

\* Sweeps move rows from `sending` to `queued`.
LEMMA SweepWrites ==
    ASSUME IInv, NEW S \in SUBSET JobId, \A j \in S : jobs[j].status = "sending",
           jobs' = [j \in JobId |-> IF j \in S THEN Requeue(jobs[j]) ELSE jobs[j]],
           UNCHANGED <<deleted, provider>>
    PROVE  /\ jobs' \in [JobId -> Row] /\ RowInv' /\ KeyInv' /\ SlotInv'
           /\ \A j \in JobId :
                 \/ jobs'[j] = jobs[j]
                 \/ /\ jobs[j].status = "sending" /\ jobs'[j].status = "queued"
                    /\ jobs'[j].cycle = jobs[j].cycle
  <1>1. \A j \in JobId :
           /\ jobs[j] \in Row /\ jobs'[j] \in Row
           /\ jobs'[j].slot = jobs[j].slot /\ jobs'[j].comment = jobs[j].comment
           /\ jobs'[j].cycle = jobs[j].cycle /\ jobs'[j].dmId = jobs[j].dmId
           /\ \/ jobs'[j] = jobs[j]
              \/ /\ jobs[j].status = "sending" /\ jobs'[j].status = "queued"
                 /\ jobs[j].cycle \in Cycles
    BY StatusWrites DEF IInv, TypeOK, RowInv
  <1>2. jobs' \in [JobId -> Row]
    BY <1>1
  <1> QED
    BY <1>1, <1>2, StatusFrame DEF HoldsSlot

LEMMA RequeueStaleStep ==
    ASSUME IInv, NEW j \in JobId, RequeueStale(j)
    PROVE  IInv'
  <1>1. /\ jobs[j].status = "sending"
        /\ jobs' = [x \in JobId |-> IF x \in {j} THEN Requeue(jobs[x]) ELSE jobs[x]]
        /\ UNCHANGED <<deleted, provider, worker, recon, process>>
    BY DEF RequeueStale, Stale, IInv, TypeOK
  <1>2. /\ jobs' \in [JobId -> Row] /\ RowInv' /\ KeyInv' /\ SlotInv'
        /\ \A x \in JobId :
              \/ jobs'[x] = jobs[x]
              \/ /\ jobs[x].status = "sending" /\ jobs'[x].status = "queued"
                 /\ jobs'[x].cycle = jobs[x].cycle
    BY <1>1, SweepWrites
  <1>3. TypeOK'
    BY <1>1, <1>2 DEF IInv, TypeOK, provider, worker, recon, process
  <1>4. WorkerInv'
    BY <1>1, <1>2 DEF IInv, WorkerInv, HasClaim, Exists, provider, worker, recon, process
  <1>5. PollInv'
    BY <1>1, <1>2 DEF IInv, TypeOK, Polls, PollInv, provider, worker, recon
  <1> QED
    BY <1>2, <1>3, <1>4, <1>5 DEF IInv

LEMMA StopStep ==
    ASSUME IInv, Stop
    PROVE  IInv'
  <1>1. /\ mode = "up" /\ mode' = "stopping" /\ rBatch' = {} /\ faults' \in 0 .. MaxFaults
        /\ UNCHANGED <<table, dm, cand, rCur>>
        /\ late' = IF phase = "sending" THEN late \cup {<<wJob, wKey>>} ELSE late
    BY BoundsAreNumbers DEF Stop, Fault, IInv, TypeOK
  <1>2. RowInv' /\ KeyInv' /\ SlotInv'
    <2>1. CASE phase = "sending"
      BY <1>1, <2>1, LateFrame DEF HasClaim
    <2>2. CASE phase # "sending"
      BY <1>1, <2>2, DataFrame DEF provider
    <2> QED
      BY <2>1, <2>2
  <1>3. /\ WorkerInv' /\ wJob' \in {wJob, None}
        /\ phase' \in {"idle", "selected", "settling"} /\ threads' \subseteq Threads
        /\ wKey' \in Cycles \cup {None} /\ result' \in SendResults \cup {None}
    <2>1. CASE phase \in {"acquiring", "sending"} \/ "apply" \in threads
      <3>1. Settle(threads \cup {"read"}, result) /\ HasClaim
        BY <2>1, ThreadsRun DEF Stop, HasClaim
      <3>2. /\ threads \cup {"read"} \in SUBSET Threads
            /\ result \in SendResults \cup {None}
            /\ "apply" \in threads \cup {"read"} => result # None
            /\ result = "accepted" => dm'[wJob][wKey] # "none"
        BY <1>1 DEF IInv, TypeOK, WorkerInv, Threads
      <3>3. jobs'[wJob].status # "absent" /\ jobs'[wJob].cycle = jobs[wJob].cycle
        BY <1>1, <3>1 DEF IInv, WorkerInv, Exists, table
      <3>4. /\ WorkerInv'
            /\ phase' \in {"idle", "settling"} /\ threads' \subseteq Threads
            /\ wJob' \in {wJob, None} /\ wKey' \in Cycles \cup {None}
            /\ result' \in SendResults \cup {None}
        BY <1>1, <3>1, <3>2, <3>3, SettleWorker
      <3> QED
        BY <3>4
    <2>2. CASE ~(phase \in {"acquiring", "sending"} \/ "apply" \in threads)
      <3>1. UNCHANGED <<phase, wJob, wKey, result, threads>>
        BY <2>2 DEF Stop
      <3>2. phase \in {"idle", "selected", "settling"}
        BY <2>2 DEF IInv, TypeOK
      <3> QED
        BY <1>1, <3>1, <3>2
        DEF IInv, TypeOK, WorkerInv, HasClaim, Exists, Threads, table
    <2> QED
      BY <2>1, <2>2
  <1>4. TypeOK'
    <2>1. late' \subseteq JobId \X Cycles
      BY <1>1, HeldKey DEF IInv, TypeOK, HasClaim
    <2> QED
      BY <1>1, <1>3, <2>1 DEF IInv, TypeOK, Threads, table
  <1>5. PollInv'
    BY <1>1, <1>3, KeysAreInts DEF IInv, TypeOK, PollInv, table
  <1> QED
    BY <1>2, <1>3, <1>4, <1>5 DEF IInv

LEMMA ExitProcessStep ==
    ASSUME IInv, ExitProcess
    PROVE  IInv'
  <1> USE DEF ExitProcess, table, provider, worker, recon
  <1>1. TypeOK'
    BY DEF IInv, TypeOK
  <1>2. WorkerInv'
    BY DEF IInv, WorkerInv, HasClaim, Exists
  <1>3. PollInv'
    BY DEF IInv, PollInv
  <1> QED
    BY <1>1, <1>2, <1>3, DataFrame DEF IInv

LEMMA CrashStep ==
    ASSUME IInv, Crash
    PROVE  IInv'
  <1>1. /\ mode' = "down" /\ faults' \in 0 .. MaxFaults /\ Forget
        /\ UNCHANGED <<table, dm>>
        /\ late' = IF phase = "sending" THEN late \cup {<<wJob, wKey>>} ELSE late
    BY BoundsAreNumbers DEF Crash, Fault, IInv, TypeOK
  <1>2. RowInv' /\ KeyInv' /\ SlotInv'
    <2>1. CASE phase = "sending"
      BY <1>1, <2>1, LateFrame DEF HasClaim
    <2>2. CASE phase # "sending"
      BY <1>1, <2>2, DataFrame DEF provider
    <2> QED
      BY <2>1, <2>2
  <1>3. TypeOK'
    <2>1. late' \subseteq JobId \X Cycles
      BY <1>1, HeldKey DEF IInv, TypeOK, HasClaim
    <2> QED
      BY <1>1, <2>1 DEF IInv, TypeOK, Forget, table
  <1>4. WorkerInv' /\ PollInv'
    BY <1>1, NoneIsNoResult DEF WorkerInv, HasClaim, PollInv, Forget, SendResults
  <1> QED
    BY <1>2, <1>3, <1>4 DEF IInv

LEMMA RestartStep ==
    ASSUME IInv, Restart
    PROVE  IInv'
  <1> DEFINE S == {j \in JobId : jobs[j].status = "sending"}
  <1>1. /\ jobs' = [j \in JobId |-> IF j \in S THEN Requeue(jobs[j]) ELSE jobs[j]]
        /\ mode = "down" /\ mode' = "up"
        /\ UNCHANGED <<deleted, provider, worker, recon, faults>>
    BY DEF Restart
  <1>2. S \in SUBSET JobId /\ \A j \in S : jobs[j].status = "sending"
    OBVIOUS
  <1> HIDE DEF S
  <1>3. jobs' \in [JobId -> Row] /\ RowInv' /\ KeyInv' /\ SlotInv'
    BY <1>1, <1>2, SweepWrites
  <1>4. TypeOK'
    BY <1>1, <1>3 DEF IInv, TypeOK, provider, worker, recon
  <1>5. WorkerInv' /\ PollInv'
    BY <1>1 DEF IInv, WorkerInv, HasClaim, PollInv, provider, worker, recon
  <1> QED
    BY <1>3, <1>4, <1>5 DEF IInv

-----------------------------------------------------------------------------
(* PseudoGram.                                                             *)

LEMMA LateArrivesStep ==
    ASSUME IInv, NEW j \in JobId, NEW k \in Cycles, LateArrives(j, k)
    PROVE  IInv'
  <1>1. /\ <<j, k>> \in late /\ Land(j, k) /\ late' \subseteq late
        /\ UNCHANGED <<table, worker, recon, process>>
    BY DEF LateArrives
  <1>2. k <= jobs[j].cycle /\ Exists(j)
    BY <1>1 DEF IInv, KeyInv
  <1>3. /\ dm' \in [JobId -> [Cycles -> DMState]]
        /\ \A x \in JobId, y \in Cycles : dm[x][y] # "none" => dm'[x][y] = dm[x][y]
        /\ RowInv' /\ KeyInv' /\ SlotInv'
        /\ wJob' \in {wJob, None} => PollInv'
    BY <1>1, <1>2, LandStep
  <1>4. TypeOK'
    BY <1>1, <1>3 DEF IInv, TypeOK, table, worker, recon, process
  <1>5. WorkerInv'
    <2>1. result = "accepted" => wJob \in JobId /\ wKey \in Cycles
      <3>1. result = "accepted" => "apply" \in threads
        BY NoneIsNoResult DEF IInv, WorkerInv, SendResults
      <3> QED
        BY <3>1, ThreadsRun, HeldKey
    <2> QED
      BY <1>1, <1>3, <2>1
      DEF IInv, WorkerInv, HasClaim, Exists, table, worker, recon, process
  <1> QED
    BY <1>1, <1>3, <1>4, <1>5 DEF IInv, worker

LEMMA DMOutcomeStep ==
    ASSUME IInv, NEW j \in JobId, NEW k \in Cycles, DMOutcome(j, k)
    PROVE  IInv'
  <1>1. /\ dm[j][k] = "queued" /\ UNCHANGED <<table, late, worker, recon, process>>
        /\ dm' \in [JobId -> [Cycles -> DMState]]
        /\ dm'[j][k] \in {"delivered", "failed"}
        /\ \A x \in JobId, y \in Cycles : (x # j \/ y # k) => dm'[x][y] = dm[x][y]
    <2>1. PICK outcome \in {"delivered", "failed"} : dm' = [dm EXCEPT ![j][k] = outcome]
      BY DEF DMOutcome
    <2>2. dm \in [JobId -> [Cycles -> DMState]]
      BY DEF IInv, TypeOK
    <2>3. dm' \in [JobId -> [Cycles -> DMState]]
      BY <2>1, <2>2 DEF DMState
    <2>4. /\ dm'[j] = [dm[j] EXCEPT ![k] = outcome]
          /\ \A x \in JobId \ {j} : dm'[x] = dm[x]
      BY <2>1, <2>2
    <2>5. dm'[j][k] = outcome /\ \A y \in Cycles \ {k} : dm'[j][y] = dm[j][y]
      BY <2>2, <2>4
    <2> QED
      BY <2>3, <2>4, <2>5 DEF DMOutcome
  <1>2. \A x \in JobId, y \in Cycles :
           /\ dm'[x][y] = "none" <=> dm[x][y] = "none"
           /\ dm[x][y] \in {"delivered", "failed"} => dm'[x][y] = dm[x][y]
    BY <1>1
  <1>3. TypeOK'
    BY <1>1 DEF IInv, TypeOK, table, worker, recon, process
  <1>4. WorkerInv'
    <2>1. result = "accepted" => wJob \in JobId /\ wKey \in Cycles
      <3>1. result = "accepted" => "apply" \in threads
        BY NoneIsNoResult DEF IInv, WorkerInv, SendResults
      <3> QED
        BY <3>1, ThreadsRun, HeldKey
    <2> QED
      BY <1>1, <1>2, <2>1
      DEF IInv, WorkerInv, HasClaim, Exists, table, worker, recon, process
  <1>5. RowInv'
    BY <1>1, <1>2 DEF IInv, RowInv, table
  <1>6. KeyInv'
    <2> SUFFICES ASSUME NEW x \in JobId, NEW y \in Cycles
                 PROVE  /\ y < jobs[x].cycle => dm'[x][y] = "failed"
                        /\ y > jobs[x].cycle => dm'[x][y] = "none"
                        /\ dm'[x][y] # "none" => Exists(x)
                        /\ <<x, y>> \in late => y <= jobs[x].cycle /\ Exists(x)
      BY <1>1 DEF KeyInv, Exists, table
    <2>1. /\ y < jobs[x].cycle => dm[x][y] = "failed"
          /\ y > jobs[x].cycle => dm[x][y] = "none"
          /\ dm[x][y] # "none" => Exists(x)
          /\ <<x, y>> \in late => y <= jobs[x].cycle /\ Exists(x)
      BY DEF IInv, KeyInv
    <2> QED
      BY <1>2, <2>1
  <1>7. PollInv'
    <2>1. rCur # None => /\ rCur.job \in JobId /\ rCur.key \in Cycles
                         /\ rCur.answer \in Answers
      BY DEF IInv, TypeOK
    <2> QED
      BY <1>1, <1>2, <2>1 DEF IInv, PollInv, Answers, table, worker, recon
  <1>8. SlotInv'
    BY <1>1 DEF IInv, SlotInv, HoldsSlot, table
  <1> QED
    BY <1>3, <1>4, <1>5, <1>6, <1>7, <1>8 DEF IInv

-----------------------------------------------------------------------------
(* The theorems.                                                           *)

\* IInv is inductive: every step of every actor keeps it.
LEMMA NextIInv == IInv /\ [Next]_vars => IInv'
  <1> SUFFICES ASSUME IInv, [Next]_vars PROVE IInv'
    OBVIOUS
  <1>1. CASE EventWorker
    BY <1>1, CreateJobsStep, RecordDeletionStep, CancelJobsStep DEF EventWorker
  <1>2. CASE DMWorker
    <2>1. CASE SelectCandidates \/ ClaimNone \/ SendRequest \/ SendRaises
      BY <2>1, SelectCandidatesStep, ClaimNoneStep, SendRequestStep, SendRaisesStep
    <2>2. CASE \E j \in JobId : ClaimNextJob(j) \/ LoseClaim(j)
      BY <2>2, ClaimNextJobStep, LoseClaimStep
    <2>3. CASE \E r \in SendResults : SendReturns(r)
      BY <2>3, SendReturnsStep
    <2>4. CASE ApplyResult \/ ReleaseRead \/ ReleaseWrite
      BY <2>4, ApplyResultStep, ReleaseReadStep, ReleaseWriteStep
    <2>5. CASE \E step \in threads : ThreadFails(step)
      BY <2>5, ThreadFailsStep
    <2> QED
      BY <1>2, <2>1, <2>2, <2>3, <2>4, <2>5 DEF DMWorker, Claiming, Settling
  <1>3. CASE Reconciler
    BY <1>3, ReconLoadStep, ReconPollStep, ReconPollFailsStep, ReconApplyStep,
       ReconApplyFailsStep DEF Reconciler, Polling
  <1>4. CASE Manager
    BY <1>4, StopStep, ExitProcessStep, CrashStep, RestartStep, RequeueStaleStep
    DEF Manager
  <1>5. CASE PseudoGram
    BY <1>5, DMOutcomeStep, LateArrivesStep DEF PseudoGram
  <1>6. CASE UNCHANGED vars
    <2>1. TypeOK'
      BY <1>6 DEF vars, table, provider, worker, recon, process, IInv, TypeOK
    <2>2. WorkerInv'
      BY <1>6
      DEF vars, table, provider, worker, recon, process, IInv, WorkerInv, HasClaim, Exists
    <2>3. PollInv'
      BY <1>6 DEF vars, table, provider, worker, recon, IInv, PollInv
    <2>4. UNCHANGED <<table, provider>>
      BY <1>6 DEF vars
    <2> QED
      BY <2>1, <2>2, <2>3, <2>4, DataFrame DEF IInv
  <1> QED
    BY <1>1, <1>2, <1>3, <1>4, <1>5, <1>6 DEF Next

THEOREM Invariant == Spec => []IInv
  BY InitIInv, NextIInv, PTL DEF Spec

\* Every reachable state is well typed: budgets and keys never leave their
\* range, so IdempotencyKey always names one of the cycles.
THEOREM TypeCorrect == Spec => []TypeOK
  <1>1. IInv => TypeOK
    BY DEF IInv
  <1> QED
    BY <1>1, Invariant, PTL

\* IInv pins every DM that is not dead to its job's current key.
LEMMA LiveIsCurrent ==
    ASSUME IInv, NEW j \in JobId, NEW k \in Cycles, Live(j, k)
    PROVE  k = jobs[j].cycle /\ Exists(j)
  <1>1. jobs[j].cycle \in Int /\ k \in Int
    BY KeysAreInts, BudgetsArePositive DEF IInv, TypeOK, Row
  <1>2. ~(k < jobs[j].cycle) /\ ~(k > jobs[j].cycle) /\ Exists(j)
    BY DEF IInv, KeyInv, Live
  <1> QED
    BY <1>1, <1>2

\* No job ever has two DMs that were delivered or may still be, however its
\* requests time out, are retried, arrive late or outlive a restart.
THEOREM OneLiveDM == Spec => []OneLiveDMPerJob
  <1>1. IInv => OneLiveDMPerJob
    BY LiveIsCurrent DEF OneLiveDMPerJob
  <1> QED
    BY <1>1, Invariant, PTL

\* send_cycle only ever counts deliveries that PseudoGram reported as failed.
THEOREM FailuresCounted == Spec => []CycleCountsFailures
  <1>1. IInv => CycleCountsFailures
    BY DEF IInv, KeyInv, CycleCountsFailures
  <1> QED
    BY <1>1, Invariant, PTL

\* A row counted in /stats.sent has a DM that was delivered.
THEOREM SentHonest == Spec => []SentIsDelivered
  <1>1. IInv => SentIsDelivered
    BY DEF IInv, RowInv, SentIsDelivered
  <1> QED
    BY <1>1, Invariant, PTL

\* An answer is applied to the DM it was asked for.
THEOREM PollsStayCurrent == Spec => []PollsAreCurrent
  <1>1. IInv => PollsAreCurrent
    BY DEF IInv, PollInv, PollsAreCurrent
  <1> QED
    BY <1>1, Invariant, PTL

\* Two live DMs for one (rule, user) pair are possible only through a job that
\* was cancelled for a deleted comment.
THEOREM SecondDM == Spec => []SecondDMNeedsDeletedComment
  <1>1. IInv => SecondDMNeedsDeletedComment
    <2> SUFFICES ASSUME IInv, NEW i \in JobId, NEW j \in JobId,
                        i # j, jobs[i].slot = jobs[j].slot,
                        \E k \in Cycles : Live(i, k), \E k \in Cycles : Live(j, k)
                 PROVE  \E x \in {i, j} : /\ jobs[x].status = "cancelled"
                                          /\ jobs[x].comment \in deleted
      BY DEF SecondDMNeedsDeletedComment
    <2>1. Exists(i) /\ Exists(j)
      BY LiveIsCurrent
    <2>2. ~HoldsSlot(jobs[i]) \/ ~HoldsSlot(jobs[j])
      BY DEF IInv, SlotInv
    <2>3. PICK x \in {i, j} : jobs[x].status = "cancelled"
      BY <2>1, <2>2 DEF HoldsSlot, Exists
    <2> QED
      BY <2>3 DEF IInv, RowInv
  <1> QED
    BY <1>1, Invariant, PTL

-----------------------------------------------------------------------------
(* Who writes a row.                                                          *)

\* IInv says what a row and PseudoGram have to do with each other; the boards need
\* besides that nothing takes a claimed row to `delivered`, and that while the
\* process is up and sends are fast nothing moves a claimed row at all.
ClaimInv ==
    /\ mode = "up" => threads \in {{}, {"apply"}, {"read"}, {"write"}}
    /\ HasClaim => jobs[wJob].status # "delivered"
    /\ mode = "up" /\ ~SlowSend /\ HasClaim => jobs[wJob].status = "sending"

-----------------------------------------------------------------------------
(* ClaimInv is kept.                                                       *)

LEMMA InitClaimInv == Init => ClaimInv
BY DEF Init, ClaimInv, HasClaim

\* A step that leaves the worker and the process alone, and the claimed row as it
\* is or, where a claim may be requeued, pending or withdrawn.
LEMMA RowsMove ==
    ASSUME IInv, ClaimInv, UNCHANGED <<phase, wJob, threads, mode>>,
           HasClaim => \/ jobs'[wJob].status = jobs[wJob].status
                       \/ /\ jobs'[wJob].status # "delivered"
                          /\ jobs[wJob].status = "sending" => SlowSend
    PROVE  ClaimInv'
BY DEF ClaimInv, HasClaim

LEMMA EventWorkerClaims == ASSUME IInv, ClaimInv, EventWorker PROVE ClaimInv'
<1>1. UNCHANGED <<phase, wJob, threads, mode>>
  BY DEF EventWorker, CreateJobs, RecordDeletion, CancelJobs, worker, process
<1>2. ASSUME NEW J \in SUBSET JobId, NEW c \in Origins, CreateJobs(J, c)
      PROVE  HasClaim => jobs'[wJob].status = jobs[wJob].status
  BY <1>2, CreatedRows DEF IInv, WorkerInv, Exists
<1>3. ASSUME NEW c \in Comments, CancelJobs(c), HasClaim
      PROVE  \/ jobs'[wJob].status = jobs[wJob].status
             \/ /\ jobs'[wJob].status # "delivered" /\ jobs[wJob].status # "sending"
  BY <1>3 DEF CancelJobs, Cancellable, CancellableStatuses, Cancel, IInv, WorkerInv,
              TypeOK, Row
<1>4. ASSUME NEW c \in Comments, RecordDeletion(c) PROVE jobs' = jobs
  BY <1>4 DEF RecordDeletion
<1> QED
  BY <1>1, <1>2, <1>3, <1>4, RowsMove DEF EventWorker

LEMMA SelectClaims == ASSUME IInv, ClaimInv, Claiming PROVE ClaimInv'
<1>1. CASE SelectCandidates \/ ClaimNone
  BY <1>1 DEF SelectCandidates, ClaimNone, ClaimInv, HasClaim, table, process
<1>2. ASSUME NEW j \in JobId, ClaimNextJob(j) PROVE ClaimInv'
  BY <1>2 DEF ClaimNextJob, ClaimInv, HasClaim, Claim, IInv, TypeOK, Row, process
<1>3. ASSUME NEW j \in JobId, LoseClaim(j) PROVE ClaimInv'
  BY <1>3 DEF LoseClaim, ClaimInv, HasClaim
<1> QED
  BY <1>1, <1>2, <1>3 DEF Claiming

\* Settle keeps the claim as long as a step is left.
LEMMA SettleClaims ==
    ASSUME IInv, ClaimInv, NEW steps, NEW r, Settle(steps, r), HasClaim, mode' = mode,
           mode = "up" => steps \in {{}, {"read"}, {"write"}, {"apply"}},
           steps = {} \/ jobs'[wJob].status = jobs[wJob].status
           \/ (mode # "up" /\ jobs'[wJob].status # "delivered")
    PROVE  ClaimInv'
BY DEF Settle, ClaimInv, HasClaim

LEMMA ApplyClaims == ASSUME IInv, ClaimInv, ApplyResult PROVE ClaimInv'
<1> DEFINE row == ApplySendResult(jobs[wJob], result, wKey)
<1>1. /\ HasClaim /\ "apply" \in threads /\ result \in SendResults /\ wJob \in JobId
      /\ wKey \in Cycles /\ jobs[wJob] \in Row /\ jobs[wJob].status # "absent"
      /\ mode' = mode
  <2>1. HasClaim /\ "apply" \in threads /\ result # None /\ mode' = mode
    BY DEF ApplyResult, IInv, WorkerInv, HasClaim, process
  <2> QED
    BY <2>1, HeldKey DEF IInv, WorkerInv, TypeOK, Exists
<1>2. row.status \in {"accepted", "retry_wait", "failed"}
  BY <1>1, SendResultFacts
<1> HIDE DEF row
<1>3. mode = "up" => threads = {"apply"}
  BY <1>1 DEF IInv, WorkerInv
<1>4. CASE Settle(threads \ {"apply"}, result) /\ jobs' = [jobs EXCEPT ![wJob] = row]
  <2>1. mode = "up" => threads \ {"apply"} = {}
    BY <1>3
  <2>2. jobs'[wJob].status # "delivered"
    BY <1>1, <1>2, <1>4 DEF IInv, TypeOK
  <2> QED
    BY <1>1, <1>4, <2>1, <2>2, SettleClaims
<1>5. CASE AfterFailure("apply") /\ UNCHANGED jobs
  <2>1. CASE mode = "up"
    BY <1>1, <1>5, <2>1, SettleClaims DEF AfterFailure
  <2>2. CASE mode # "up"
    BY <1>1, <1>5, <2>2, SettleClaims DEF AfterFailure
  <2> QED
    BY <2>1, <2>2
<1> QED
  BY <1>4, <1>5 DEF ApplyResult, row

LEMMA SettlingClaims == ASSUME IInv, ClaimInv, Settling PROVE ClaimInv'
<1>1. CASE SendRaises
  <2>1. HasClaim /\ Settle({"read"}, None) /\ mode' = mode /\ jobs' = jobs
    BY <1>1 DEF SendRaises, HasClaim, table
  <2> QED
    BY <2>1, SettleClaims
<1>2. ASSUME NEW r \in SendResults, SendReturns(r) PROVE ClaimInv'
  <2>1. HasClaim /\ Settle({"apply"}, r) /\ mode' = mode /\ jobs' = jobs
    BY <1>2 DEF SendReturns, HasClaim, table
  <2> QED
    BY <2>1, SettleClaims
<1>3. CASE ReleaseRead
  <2> DEFINE steps == (threads \ {"read"}) \cup
                          (IF ReleaseNeeded(wJob) THEN {"write"} ELSE {})
  <2>1. HasClaim /\ Settle(steps, result) /\ mode' = mode /\ jobs' = jobs
    BY <1>3 DEF ReleaseRead, IInv, WorkerInv, HasClaim, table, process
  <2>2. mode = "up" => threads = {"read"}
    BY <1>3 DEF ReleaseRead, ClaimInv
  <2>3. mode = "up" => steps \in {{}, {"write"}}
    BY <2>2
  <2> HIDE DEF steps
  <2> QED
    BY <2>1, <2>3, SettleClaims
<1>4. CASE ReleaseWrite
  <2>1. HasClaim /\ Settle(threads \ {"write"}, result) /\ mode' = mode
        /\ wJob \in JobId /\ jobs[wJob] \in Row
    BY <1>4 DEF ReleaseWrite, IInv, WorkerInv, HasClaim, TypeOK, process
  <2>2. mode = "up" => threads \ {"write"} = {}
    BY <1>4 DEF ReleaseWrite, ClaimInv
  <2>3. jobs'[wJob].status # "delivered"
    BY <1>4, <2>1, StatusWrites DEF ReleaseWrite, ClaimInv, IInv, TypeOK
  <2> QED
    BY <2>1, <2>2, <2>3, SettleClaims
<1>5. ASSUME NEW step \in threads, ThreadFails(step) PROVE ClaimInv'
  <2>1. HasClaim /\ AfterFailure(step) /\ mode' = mode /\ jobs' = jobs
    BY <1>5 DEF ThreadFails, IInv, WorkerInv, HasClaim, table
  <2>2. mode = "up" => threads \ {step} = {}
    BY <1>5 DEF ClaimInv
  <2>3. CASE step = "apply" /\ mode = "up"
    BY <2>1, <2>3, SettleClaims DEF AfterFailure
  <2>4. CASE ~(step = "apply" /\ mode = "up")
    BY <2>1, <2>2, <2>4, SettleClaims DEF AfterFailure
  <2> QED
    BY <2>3, <2>4
<1> QED
  BY <1>1, <1>2, <1>3, <1>4, <1>5 DEF Settling

LEMMA ReconcilerClaims == ASSUME IInv, ClaimInv, Reconciler PROVE ClaimInv'
<1>1. UNCHANGED <<phase, wJob, threads, mode>>
  BY DEF Reconciler, Polling, ReconLoad, ReconPoll, ReconPollFails, ReconApply,
         ReconApplyFails, worker, process
<1>2. CASE Polling
  <2>1. jobs' = jobs
    BY <1>2 DEF Polling, ReconLoad, ReconPoll, ReconPollFails, ReconApplyFails, table
  <2> QED
    BY <1>1, <2>1, RowsMove
<1>3. CASE ReconApply
  <2>1. HasClaim => jobs'[wJob] = jobs[wJob]
    BY <1>3 DEF ReconApply, IInv, PollInv, TypeOK, WorkerInv
  <2> QED
    BY <1>1, <2>1, RowsMove
<1> QED
  BY <1>2, <1>3 DEF Reconciler

LEMMA ManagerClaims == ASSUME IInv, ClaimInv, Manager PROVE ClaimInv'
<1>1. CASE Stop
  <2>1. mode' # "up" /\ jobs' = jobs
    BY <1>1 DEF Stop, table
  <2>2. HasClaim' => HasClaim /\ wJob' = wJob
    BY <1>1 DEF Stop, Settle, HasClaim, IInv, WorkerInv
  <2> QED
    BY <2>1, <2>2 DEF ClaimInv
<1>2. CASE ExitProcess \/ Crash
  BY <1>2 DEF ExitProcess, Crash, Forget, ClaimInv, HasClaim, worker
<1>3. CASE Restart
  BY <1>3 DEF Restart, ClaimInv, HasClaim, IInv, WorkerInv, worker
<1>4. ASSUME NEW j \in JobId, RequeueStale(j) PROVE ClaimInv'
  <2>1. HasClaim /\ j = wJob => SlowSend /\ jobs'[wJob].status = "queued"
    BY <1>4, StatusWrites DEF RequeueStale, Stale, HoldsClaim, IInv, TypeOK
  <2>2. HasClaim /\ j # wJob => jobs'[wJob] = jobs[wJob]
    BY <1>4 DEF RequeueStale, IInv, TypeOK, WorkerInv
  <2>3. UNCHANGED <<phase, wJob, threads, mode>>
    BY <1>4 DEF RequeueStale, worker, process
  <2> QED
    BY <2>1, <2>2, <2>3, RowsMove
<1> QED
  BY <1>1, <1>2, <1>3, <1>4 DEF Manager

LEMMA NextClaimInv == IInv /\ ClaimInv /\ [Next]_vars => ClaimInv'
<1> SUFFICES ASSUME IInv, ClaimInv, [Next]_vars PROVE ClaimInv'
  OBVIOUS
<1>1. CASE SendRequest
  BY <1>1 DEF SendRequest, ClaimInv, HasClaim, table, process
<1>2. CASE PseudoGram \/ UNCHANGED vars
  <2>1. UNCHANGED <<jobs, phase, wJob, threads, mode>>
    BY <1>2 DEF PseudoGram, DMOutcome, LateArrives, vars, table, worker, process
  <2> QED
    BY <2>1, RowsMove
<1> QED
  BY <1>1, <1>2, EventWorkerClaims, SelectClaims, ApplyClaims, SettlingClaims,
     ReconcilerClaims, ManagerClaims DEF Next, DMWorker

\* Both invariants hold throughout.
THEOREM ClaimInvariant == Spec => [](IInv /\ ClaimInv)
BY InitIInv, NextIInv, InitClaimInv, NextClaimInv, PTL DEF Spec

\* While the process is up and sends are faster than sending_stale_seconds, a
\* claimed row is the worker's alone (claim_next_job, requeue_stale_sending).
THEOREM ClaimIsOwned == ASSUME ~SlowSend PROVE Spec => []WorkerOwnsClaim
<1>1. IInv /\ ClaimInv => WorkerOwnsClaim
  BY DEF ClaimInv, IInv, WorkerInv, WorkerOwnsClaim
<1> QED
  BY <1>1, ClaimInvariant, PTL

-----------------------------------------------------------------------------
(* The board.                                                              *)

BoardMove == [Board!Next]_(Board!bvars)

\* What a row's status says on the board, and that every row says something.
LEMMA StateOf ==
    ASSUME NEW row \in Row
    PROVE  /\ BoardState(row) \in {"unposted", "pending", "sent", "failed", "withdrawn"}
           /\ BoardState(row) = "unposted" <=> row.status = "absent"
           /\ BoardState(row) = "pending" <=> row.status \in PendingStatuses
           /\ BoardState(row) = "sent" <=> row.status = "delivered"
           /\ BoardState(row) = "failed" <=> row.status = "failed"
           /\ BoardState(row) = "withdrawn" <=> row.status = "cancelled"
BY DEF BoardState, PendingStatuses, Row, Statuses

\* On the board a row holds its slot unless the partial index lets go of it.
LEMMA HoldersHold ==
    ASSUME NEW row \in Row
    PROVE  BoardState(row) \in {"pending", "sent", "failed"} <=> HoldsSlot(row)
BY StateOf DEF HoldsSlot, PendingStatuses, Row, Statuses

\* A step that changes no statistic, no DM and no hands.
LEMMA Unseen ==
    ASSUME \A j \in JobId : /\ jobs'[j].slot = jobs[j].slot
                            /\ BoardState(jobs'[j]) = BoardState(jobs[j]),
           dm' = dm, mode' = "stopping" <=> mode = "stopping"
    PROVE  BoardMove
BY DEF BoardMove, Board!bvars, Live

LEMMA InitBoard == Init => Board!Init
<1> SUFFICES ASSUME Init PROVE Board!Init
  OBVIOUS
<1>1. \A j \in JobId : jobs[j].slot = None /\ BoardState(jobs[j]) = "unposted"
  BY DEF Init, NoRow, BoardState, PendingStatuses
<1>2. \A j \in JobId, k \in Cycles : dm[j][k] = "none"
  BY DEF Init
<1>3. (mode # "stopping" /\ ~SlowSend) \in BOOLEAN
  OBVIOUS
<1> QED
  BY <1>1, <1>2, <1>3 DEF Board!Init, Live

\* One row changes: a claim, a retry or a requeue is not seen; `sent` needs a DM
\* that arrived, and only where rows have two writers is an end undone.
LEMMA OneRow ==
    ASSUME IInv, NEW j \in JobId, NEW row \in Row, jobs' = [jobs EXCEPT ![j] = row],
           row.slot = jobs[j].slot, dm' = dm, mode' = mode,
           \/ BoardState(row) = BoardState(jobs[j])
           \/ BoardState(jobs[j]) = "pending" /\ BoardState(row) = "failed"
           \/ /\ BoardState(jobs[j]) = "pending" /\ BoardState(row) = "sent"
              /\ \E k \in Cycles : dm[j][k] = "delivered"
           \/ /\ mode = "stopping" \/ SlowSend
              /\ BoardState(jobs[j]) \in {"failed", "withdrawn"}
              /\ BoardState(row) \in {"pending", "failed"}
              /\ ~Conflict(j, row)
    PROVE  BoardMove
<1> DEFINE state == [i \in JobId |-> BoardState(jobs[i])]
           slot == [i \in JobId |-> jobs[i].slot]
<1>1. jobs \in [JobId -> Row]
  BY DEF IInv, TypeOK
<1>2. /\ \A i \in JobId : jobs'[i] = IF i = j THEN row ELSE jobs[i]
  BY <1>1
<1>3. state' = [state EXCEPT ![j] = BoardState(row)] /\ slot' = slot
  <2>1. state' = [i \in JobId |-> BoardState(jobs'[i])]
    OBVIOUS
  <2>2. \A i \in JobId : BoardState(jobs'[i]) = IF i = j THEN BoardState(row) ELSE state[i]
    BY <1>2
  <2>3. slot' = slot
    BY <1>2
  <2> QED
    BY <2>1, <2>2, <2>3
<1>4. UNCHANGED <<{i \in JobId : \E k \in Cycles : Live(i, k)},
                  {i \in JobId : \E k \in Cycles : dm[i][k] = "delivered"},
                  mode # "stopping" /\ ~SlowSend>>
  BY DEF Live
<1>5. state[j] = BoardState(jobs[j])
  OBVIOUS
<1>6. CASE BoardState(row) = BoardState(jobs[j])
  BY <1>2, <1>6, Unseen
<1>7. CASE BoardState(jobs[j]) = "pending" /\ BoardState(row) = "failed"
  <2>1. Board!GiveUp(j)
    BY <1>3, <1>4, <1>5, <1>7 DEF Board!GiveUp
  <2> QED
    BY <2>1 DEF BoardMove, Board!Next
<1>8. CASE /\ BoardState(jobs[j]) = "pending" /\ BoardState(row) = "sent"
           /\ \E k \in Cycles : dm[j][k] = "delivered"
  <2>1. Board!Confirm(j)
    BY <1>3, <1>4, <1>5, <1>8 DEF Board!Confirm
  <2> QED
    BY <2>1 DEF BoardMove, Board!Next
<1>9. CASE /\ mode = "stopping" \/ SlowSend
           /\ BoardState(jobs[j]) \in {"failed", "withdrawn"}
           /\ BoardState(row) \in {"pending", "failed"}
           /\ ~Conflict(j, row)
  <2>1. \A i \in JobId \ {j} : ~Board!Holds(i, slot[j])
    BY <1>1, <1>9, HoldersHold DEF Conflict, Board!Holds
  <2>2. Board!Reopen(j)
    BY <1>3, <1>4, <1>5, <1>9, <2>1 DEF Board!Reopen
  <2> QED
    BY <2>2 DEF BoardMove, Board!Next
<1> QED
  BY <1>6, <1>7, <1>8, <1>9

\* A request lands, at once or late: the first one of a cycle makes a DM appear.
LEMMA LandAppears ==
    ASSUME IInv, NEW j \in JobId, NEW k \in Cycles, Exists(j), Land(j, k),
           jobs' = jobs, mode' = mode
    PROVE  BoardMove
<1> DEFINE live == {i \in JobId : \E c \in Cycles : Live(i, c)}
           arrived == {i \in JobId : \E c \in Cycles : dm[i][c] = "delivered"}
<1>1. CASE dm[j][k] # "none"
  BY <1>1, Unseen DEF Land
<1>2. CASE dm[j][k] = "none"
  <2>1. /\ dm \in [JobId -> [Cycles -> DMState]]
        /\ dm' = [dm EXCEPT ![j][k] = "queued"]
    BY <1>2 DEF IInv, TypeOK, Land
  <2>2. \A i \in JobId, c \in Cycles :
            dm'[i][c] = IF i = j /\ c = k THEN "queued" ELSE dm[i][c]
    BY <2>1
  <2>3. live' = live \cup {j} /\ arrived' = arrived
    BY <1>2, <2>2 DEF Live
  <2>4. UNCHANGED <<[i \in JobId |-> jobs[i].slot], [i \in JobId |-> BoardState(jobs[i])],
                    mode # "stopping" /\ ~SlowSend>>
    OBVIOUS
  <2>5. CASE j \in live
    <3>1. live' = live
      BY <2>3, <2>5
    <3> QED
      BY <2>3, <2>4, <3>1 DEF BoardMove, Board!bvars
  <2>6. CASE j \notin live
    <3>1. BoardState(jobs[j]) # "unposted"
      BY StateOf DEF IInv, TypeOK, Exists
    <3>2. Board!Appear(j)
      BY <2>3, <2>4, <2>6, <3>1 DEF Board!Appear
    <3> QED
      BY <3>2 DEF BoardMove, Board!Next
  <2> QED
    BY <2>5, <2>6
<1> QED
  BY <1>1, <1>2

LEMMA CreateJobsBoard ==
    ASSUME IInv, NEW J \in SUBSET JobId, NEW c \in Origins, CreateJobs(J, c)
    PROVE  BoardMove
<1> DEFINE state == [i \in JobId |-> BoardState(jobs[i])]
           slot == [i \in JobId |-> jobs[i].slot]
           to == [i \in J |-> jobs'[i].slot]
<1>1. /\ jobs \in [JobId -> Row] /\ jobs' \in [JobId -> Row]
      /\ \A j \in J :
            /\ jobs[j].status = "absent"
            /\ jobs'[j].status = "queued" /\ jobs'[j].slot \in Slots
            /\ \A i \in J : jobs'[i].slot = jobs'[j].slot => i = j
            /\ \A i \in JobId : HoldsSlot(jobs[i]) => jobs[i].slot # jobs'[j].slot
      /\ \A j \in JobId \ J : jobs'[j] = jobs[j]
  BY CreatedRows
<1>2. dm' = dm /\ mode' = mode
  BY DEF CreateJobs, provider, process
<1>3. \A j \in J : state[j] = "unposted" /\ BoardState(jobs'[j]) = "pending"
  BY <1>1, StateOf DEF PendingStatuses
<1>4. state' = [j \in JobId |-> IF j \in J THEN "pending" ELSE state[j]]
  <2>1. state' = [i \in JobId |-> BoardState(jobs'[i])]
    OBVIOUS
  <2> QED
    BY <1>1, <1>3, <2>1
<1>5. slot' = [j \in JobId |-> IF j \in J THEN to[j] ELSE slot[j]]
  BY <1>1
<1>6. to \in [J -> Slots] /\ \A i, j \in J : to[i] = to[j] => i = j
  BY <1>1
<1>7. \A j \in J, i \in JobId : ~Board!Holds(i, to[j])
  BY <1>1, HoldersHold DEF Board!Holds
<1>8. UNCHANGED <<{i \in JobId : \E k \in Cycles : Live(i, k)},
                  {i \in JobId : \E k \in Cycles : dm[i][k] = "delivered"},
                  mode # "stopping" /\ ~SlowSend>>
  BY <1>2 DEF Live
<1>9. Board!Post(J)
  <2> HIDE DEF to
  <2> QED
    BY <1>3, <1>4, <1>5, <1>6, <1>7, <1>8 DEF Board!Post
<1> QED
  BY <1>9 DEF BoardMove, Board!Next

LEMMA CancelJobsBoard ==
    ASSUME IInv, NEW c \in Comments, CancelJobs(c) PROVE BoardMove
<1> DEFINE state == [i \in JobId |-> BoardState(jobs[i])]
           J == {j \in JobId : Cancellable(j, c)}
<1>1. jobs \in [JobId -> Row] /\ dm' = dm /\ mode' = mode
  BY DEF CancelJobs, IInv, TypeOK, provider, process
<1>2. \A j \in JobId : jobs'[j] = IF j \in J THEN Cancel(jobs[j]) ELSE jobs[j]
  BY DEF CancelJobs
<1>3. \A j \in J : state[j] = "pending" /\ BoardState(Cancel(jobs[j])) = "withdrawn"
  BY <1>1, StateOf, StatusWrites DEF Cancellable, CancellableStatuses, PendingStatuses
<1>4. state' = [j \in JobId |-> IF j \in J THEN "withdrawn" ELSE state[j]]
  <2>1. state' = [j \in JobId |-> BoardState(jobs'[j])]
    OBVIOUS
  <2> QED
    BY <1>2, <1>3, <2>1
<1>5. UNCHANGED [j \in JobId |-> jobs[j].slot]
  BY <1>1, <1>2, StatusWrites
<1>6. UNCHANGED <<{i \in JobId : \E k \in Cycles : Live(i, k)},
                  {i \in JobId : \E k \in Cycles : dm[i][k] = "delivered"},
                  mode # "stopping" /\ ~SlowSend>>
  BY <1>1 DEF Live
<1>7. Board!Withdraw(J)
  BY <1>3, <1>4, <1>5, <1>6 DEF Board!Withdraw
<1> QED
  BY <1>7 DEF BoardMove, Board!Next

\* A claim, a sweep and a restart write pending rows and leave them pending.
LEMMA PendingRows ==
    ASSUME IInv, dm' = dm, mode' = "stopping" <=> mode = "stopping",
           \A j \in JobId :
              \/ jobs'[j] = jobs[j]
              \/ /\ jobs[j].status \in PendingStatuses
                 /\ jobs'[j] \in {Claim(jobs[j]), Requeue(jobs[j])}
    PROVE  BoardMove
<1>1. jobs \in [JobId -> Row]
  BY DEF IInv, TypeOK
<1>2. ASSUME NEW j \in JobId
      PROVE  /\ jobs'[j].slot = jobs[j].slot
             /\ BoardState(jobs'[j]) = BoardState(jobs[j])
  <2>1. CASE jobs'[j] = jobs[j]
    BY <2>1
  <2>2. CASE /\ jobs[j].status \in PendingStatuses
             /\ jobs'[j] \in {Claim(jobs[j]), Requeue(jobs[j])}
    <3>1. /\ jobs'[j] \in Row /\ jobs'[j].slot = jobs[j].slot
          /\ jobs'[j].status \in PendingStatuses
      BY <1>1, <2>2, StatusWrites DEF PendingStatuses
    <3> QED
      BY <1>1, <2>2, <3>1, StateOf
  <2> QED
    BY <2>1, <2>2
<1> QED
  BY <1>2, Unseen

\* The two helpers of run_once write the claimed row: it is pending, or there are
\* two writers, or it was an end other than `sent`.
LEMMA WorkerWrites ==
    ASSUME IInv, ClaimInv, HasClaim, mode # "down", NEW row \in Row,
           jobs' = [jobs EXCEPT ![wJob] = row], row.slot = jobs[wJob].slot,
           dm' = dm, mode' = mode, ~Conflict(wJob, row),
           row.status \in {"queued", "accepted", "retry_wait", "failed"}
    PROVE  BoardMove
<1>1. wJob \in JobId /\ jobs[wJob] \in Row /\ jobs[wJob].status \notin {"absent", "delivered"}
  BY HeldKey DEF ClaimInv
<1>2. BoardState(row) \in {"pending", "failed"}
  BY StateOf DEF PendingStatuses
<1>3. BoardState(jobs[wJob]) \in {"pending", "failed", "withdrawn"}
  BY <1>1, StateOf
<1>4. CASE BoardState(jobs[wJob]) = "pending"
  BY <1>1, <1>2, <1>4, OneRow
<1>5. CASE BoardState(jobs[wJob]) # "pending"
  <2>1. mode = "stopping" \/ SlowSend
    <3>1. jobs[wJob].status # "sending"
      BY <1>1, <1>5, StateOf DEF PendingStatuses
    <3> QED
      BY <3>1, SlowSendIsBoolean DEF ClaimInv, IInv, TypeOK
  <2> QED
    BY <1>1, <1>2, <1>3, <1>5, <2>1, OneRow
<1> QED
  BY <1>4, <1>5

LEMMA ApplyResultBoard == ASSUME IInv, ClaimInv, ApplyResult PROVE BoardMove
<1> DEFINE row == ApplySendResult(jobs[wJob], result, wKey)
<1>1. /\ HasClaim /\ result \in SendResults /\ mode # "down" /\ mode' = mode /\ dm' = dm
  BY DEF ApplyResult, IInv, TypeOK, WorkerInv, HasClaim, provider, process
<1>2. /\ row \in Row /\ row.slot = jobs[wJob].slot
      /\ row.status \in {"accepted", "retry_wait", "failed"}
  BY <1>1, HeldKey, SendResultFacts
<1> HIDE DEF row
<1>3. CASE ~Conflict(wJob, row) /\ jobs' = [jobs EXCEPT ![wJob] = row]
  BY <1>1, <1>2, <1>3, WorkerWrites
<1>4. CASE UNCHANGED jobs
  BY <1>1, <1>4, Unseen
<1> QED
  BY <1>3, <1>4 DEF ApplyResult, row

LEMMA ReleaseWriteBoard == ASSUME IInv, ClaimInv, ReleaseWrite PROVE BoardMove
<1>1. /\ HasClaim /\ mode # "down" /\ mode' = mode /\ dm' = dm
  BY DEF ReleaseWrite, IInv, WorkerInv, HasClaim, provider, process
<1>2. /\ Requeue(jobs[wJob]) \in Row /\ Requeue(jobs[wJob]).status = "queued"
      /\ Requeue(jobs[wJob]).slot = jobs[wJob].slot
  BY <1>1, HeldKey, StatusWrites
<1>3. CASE /\ ~Conflict(wJob, Requeue(jobs[wJob]))
           /\ jobs' = [jobs EXCEPT ![wJob] = Requeue(jobs[wJob])]
  BY <1>1, <1>2, <1>3, WorkerWrites
<1>4. CASE jobs' = jobs
  BY <1>1, <1>4, Unseen
<1> QED
  BY <1>3, <1>4 DEF ReleaseWrite

\* An answer of GET /v1/dm: `sent` is only said of a DM that was delivered.
LEMMA ReconApplyBoard == ASSUME IInv, ReconApply PROVE BoardMove
<1> DEFINE j == rCur.job
           row == ApplyDeliveryStatus(jobs[j], rCur.answer)
<1>1. /\ j \in JobId /\ rCur.answer \in Answers /\ jobs[j] \in Row
      /\ jobs[j].status = "accepted" /\ jobs[j].cycle \in Cycles
      /\ rCur.key = jobs[j].cycle /\ dm' = dm /\ mode' = mode
      /\ rCur.answer # "queued" => dm[j][rCur.key] = rCur.answer
  BY DEF ReconApply, IInv, TypeOK, PollInv, RowInv, provider, process
<1>2. /\ row \in Row /\ row.slot = jobs[j].slot
      /\ rCur.answer = "queued" => row = jobs[j]
      /\ rCur.answer = "delivered" => row.status = "delivered"
      /\ rCur.answer = "failed" => row.status \in {"retry_wait", "failed"}
  BY <1>1, DeliveryStatusFacts
<1>3. jobs' = [jobs EXCEPT ![j] = row]
  BY <1>1 DEF ReconApply
<1> HIDE DEF row, j
<1>4. BoardState(jobs[j]) = "pending"
  BY <1>1, StateOf DEF PendingStatuses
<1>5. CASE rCur.answer = "queued"
  BY <1>1, <1>2, <1>3, <1>5, OneRow
<1>6. CASE rCur.answer = "delivered"
  <2>1. BoardState(row) = "sent"
    BY <1>2, <1>6, StateOf
  <2> QED
    BY <1>1, <1>2, <1>3, <1>4, <1>6, <2>1, OneRow
<1>7. CASE rCur.answer = "failed"
  <2>1. BoardState(row) \in {"pending", "failed"}
    BY <1>2, <1>7, StateOf DEF PendingStatuses
  <2> QED
    BY <1>1, <1>2, <1>3, <1>4, <2>1, OneRow
<1> QED
  BY <1>1, <1>5, <1>6, <1>7 DEF Answers

\* The process changes hands and writes nothing, or starts and requeues its claims.
LEMMA ManagerBoard == ASSUME IInv, Manager PROVE BoardMove
<1>1. ASSUME NEW j \in JobId, RequeueStale(j) PROVE BoardMove
  BY <1>1, PendingRows
  DEF RequeueStale, Stale, PendingStatuses, IInv, TypeOK, provider, process
<1>2. CASE Restart
  BY <1>2, PendingRows DEF Restart, PendingStatuses, provider
<1>3. CASE Stop \/ ExitProcess \/ Crash
  <2>1. UNCHANGED <<jobs, dm>>
    BY <1>3 DEF Stop, ExitProcess, Crash, table, provider
  <2>2. CASE mode' = "stopping" <=> mode = "stopping"
    BY <2>1, <2>2, Unseen
  <2>3. CASE ~(mode' = "stopping" <=> mode = "stopping")
    <3>1. CASE SlowSend
      BY <2>1, <3>1 DEF BoardMove, Board!bvars, Live
    <3>2. CASE ~SlowSend
      <4>1. Board!ChangeHands
        BY <2>1, <2>3, <3>2 DEF Board!ChangeHands, Live
      <4> QED
        BY <4>1 DEF BoardMove, Board!Next
    <3> QED
      BY <3>1, <3>2
  <2> QED
    BY <2>2, <2>3
<1> QED
  BY <1>1, <1>2, <1>3 DEF Manager

\* The fate of a DM is the fate of the only live DM of its job.
LEMMA DMOutcomeBoard ==
    ASSUME IInv, NEW j \in JobId, NEW k \in Cycles, DMOutcome(j, k) PROVE BoardMove
<1> DEFINE live == {i \in JobId : \E c \in Cycles : Live(i, c)}
           arrived == {i \in JobId : \E c \in Cycles : dm[i][c] = "delivered"}
<1>1. PICK outcome \in {"delivered", "failed"} : dm' = [dm EXCEPT ![j][k] = outcome]
  BY DEF DMOutcome
<1>2. dm \in [JobId -> [Cycles -> DMState]] /\ dm[j][k] = "queued"
  BY DEF DMOutcome, IInv, TypeOK
<1>3. \A i \in JobId, c \in Cycles :
          dm'[i][c] = IF i = j /\ c = k THEN outcome ELSE dm[i][c]
  BY <1>1, <1>2
<1>4. \A c \in Cycles : Live(j, c) => c = k
  BY <1>2, LiveIsCurrent DEF Live
<1>5. j \in live /\ j \notin arrived
  BY <1>2, <1>4 DEF Live
<1>6. UNCHANGED <<[i \in JobId |-> jobs[i].slot], [i \in JobId |-> BoardState(jobs[i])],
                  mode # "stopping" /\ ~SlowSend>>
  BY DEF DMOutcome, table, process
<1>7. CASE outcome = "delivered"
  <2>1. live' = live /\ arrived' = arrived \cup {j}
    BY <1>2, <1>3, <1>7 DEF Live
  <2>2. Board!Arrive(j)
    BY <1>5, <1>6, <2>1 DEF Board!Arrive
  <2> QED
    BY <2>2 DEF BoardMove, Board!Next
<1>8. CASE outcome = "failed"
  <2>1. live' = live \ {j} /\ arrived' = arrived
    BY <1>2, <1>3, <1>4, <1>8 DEF Live
  <2>2. Board!Vanish(j)
    BY <1>5, <1>6, <2>1 DEF Board!Vanish
  <2> QED
    BY <2>2 DEF BoardMove, Board!Next
<1> QED
  BY <1>7, <1>8

LEMMA SendReturnsBoard ==
    ASSUME IInv, NEW r \in SendResults, SendReturns(r) PROVE BoardMove
<1>1. /\ HasClaim /\ jobs' = jobs /\ mode' = mode
      /\ dm' = dm \/ Land(wJob, wKey)
  BY DEF SendReturns, Accepted, Refused, Unanswered, HasClaim, table, provider
<1>2. CASE dm' = dm
  BY <1>1, <1>2, Unseen
<1>3. CASE Land(wJob, wKey)
  BY <1>1, <1>3, HeldKey, LandAppears DEF Exists
<1> QED
  BY <1>1, <1>2, <1>3

\* Every step of the queue is a move on the board, or not seen there.
LEMMA NextBoard == IInv /\ ClaimInv /\ [Next]_vars => BoardMove
<1> SUFFICES ASSUME IInv, ClaimInv, [Next]_vars PROVE BoardMove
  OBVIOUS
<1>1. CASE EventWorker
  <2>1. ASSUME NEW c \in Comments, RecordDeletion(c) PROVE BoardMove
    BY <2>1, Unseen DEF RecordDeletion, provider, process
  <2> QED
    BY <1>1, <2>1, CreateJobsBoard, CancelJobsBoard DEF EventWorker
<1>2. CASE Claiming
  <2>1. CASE SelectCandidates \/ ClaimNone
    BY <2>1, Unseen DEF SelectCandidates, ClaimNone, table, provider, process
  <2>2. ASSUME NEW j \in JobId, ClaimNextJob(j) \/ LoseClaim(j) PROVE BoardMove
    BY <2>2, PendingRows DEF ClaimNextJob, LoseClaim, FirstClaimable, Claimable, Queued,
       Waiting, PendingStatuses, IInv, TypeOK, provider, process
  <2> QED
    BY <1>2, <2>1, <2>2 DEF Claiming
<1>3. CASE Settling
  <2>1. CASE SendRaises \/ ReleaseRead
    BY <2>1, Unseen DEF SendRaises, ReleaseRead, table, provider, process
  <2>2. ASSUME NEW step \in threads, ThreadFails(step) PROVE BoardMove
    BY <2>2, Unseen DEF ThreadFails, table, provider
  <2> QED
    BY <1>3, <2>1, <2>2, ReleaseWriteBoard, SendReturnsBoard DEF Settling
<1>4. CASE SendRequest \/ Polling \/ UNCHANGED vars
  BY <1>4, Unseen DEF SendRequest, Polling, ReconLoad, ReconPoll, ReconPollFails,
     ReconApplyFails, vars, table, provider, process
<1>5. CASE PseudoGram
  <2>1. ASSUME NEW j \in JobId, NEW k \in Cycles, LateArrives(j, k) PROVE BoardMove
    <3>1. Exists(j)
      BY <2>1 DEF LateArrives, IInv, KeyInv
    <3> QED
      BY <2>1, <3>1, LandAppears DEF LateArrives, table, process
  <2> QED
    BY <1>5, <2>1, DMOutcomeBoard DEF PseudoGram
<1> QED
  BY <1>1, <1>2, <1>3, <1>4, <1>5, ApplyResultBoard, ReconApplyBoard, ManagerBoard
  DEF Next, DMWorker, Reconciler

\* The queue keeps the promise of DMBoard, for any number of jobs, slots, budgets
\* and faults, whether or not sends are fast: one live DM, `sent` only of a DM that
\* arrived and for good, one job to a slot.
THEOREM QueueImplementsBoard == Spec => ImplementsBoard
BY InitBoard, NextBoard, ClaimInvariant, PTL DEF ImplementsBoard, Board!Spec, Spec, BoardMove

\* With fast sends a final status is final while no shutdown is under way: the
\* board undoes no end then, and who claims finds no finished row.
THEOREM FinalStays == ASSUME ~SlowSend PROVE Spec => FinalStatusStays
<1>1. IInv /\ ClaimInv /\ [Next]_vars =>
        [\A j \in JobId : mode # "stopping" /\ jobs[j].status \in FinalStatuses
                              => jobs'[j].status = jobs[j].status]_vars
  <2> SUFFICES ASSUME IInv, ClaimInv, Next, NEW j \in JobId, mode # "stopping",
                      jobs[j].status \in FinalStatuses
               PROVE  jobs'[j].status = jobs[j].status
    OBVIOUS
  <2>0. jobs \in [JobId -> Row] /\ jobs[j].status \notin PendingStatuses \cup {"absent"}
    BY DEF IInv, TypeOK, FinalStatuses, Statuses
  <2>1. CASE EventWorker
    <3>1. ASSUME NEW J \in SUBSET JobId, NEW c \in Origins, CreateJobs(J, c)
          PROVE  jobs'[j].status = jobs[j].status
      BY <2>0, <3>1, CreatedRows
    <3>2. ASSUME NEW c \in Comments, RecordDeletion(c) \/ CancelJobs(c)
          PROVE  jobs'[j].status = jobs[j].status
      BY <2>0, <3>2 DEF RecordDeletion, CancelJobs, Cancellable, CancellableStatuses,
                        PendingStatuses
    <3> QED
      BY <2>1, <3>1, <3>2 DEF EventWorker
  <2>2. CASE Claiming
    BY <2>0, <2>2 DEF Claiming, SelectCandidates, ClaimNone, ClaimNextJob, LoseClaim,
       FirstClaimable, Claimable, Queued, Waiting, PendingStatuses, table
  <2>3. ASSUME HasClaim, mode # "down"
        PROVE  jobs[wJob].status = "sending" /\ wJob \in JobId
    BY <2>3, HeldKey DEF ClaimInv, IInv, TypeOK
  <2>4. CASE ApplyResult
    <3>1. HasClaim /\ mode # "down"
      BY <2>4 DEF ApplyResult, IInv, WorkerInv, HasClaim
    <3> QED
      BY <2>0, <2>3, <2>4, <3>1 DEF ApplyResult, PendingStatuses
  <2>5. CASE ReleaseWrite
    <3>1. HasClaim /\ mode # "down"
      BY <2>5 DEF ReleaseWrite, IInv, WorkerInv, HasClaim
    <3> QED
      BY <2>0, <2>3, <2>5, <3>1 DEF ReleaseWrite, PendingStatuses
  <2>6. CASE Settling /\ ~ReleaseWrite
    BY <2>6 DEF Settling, SendRaises, ReleaseRead, SendReturns, ThreadFails, table
  <2>7. CASE Reconciler
    BY <2>0, <2>7 DEF Reconciler, Polling, ReconLoad, ReconPoll, ReconPollFails,
       ReconApply, ReconApplyFails, PendingStatuses, table
  <2>8. CASE Manager
    BY <2>0, <2>8 DEF Manager, Stop, ExitProcess, Crash, Restart, RequeueStale, Stale,
       PendingStatuses, table
  <2>9. CASE SendRequest \/ PseudoGram
    BY <2>9 DEF SendRequest, PseudoGram, DMOutcome, LateArrives, table
  <2> QED
    BY <2>1, <2>2, <2>4, <2>5, <2>6, <2>7, <2>8, <2>9 DEF Next, DMWorker
<1> QED
  BY <1>1, ClaimInvariant, PTL DEF Spec, FinalStatusStays

-----------------------------------------------------------------------------
(* The intake's side: what the queue does with the rows is what IntakeBoard   *)
(* allows.                                                                    *)

IntakeMove == [Intake!Next]_(Intake!ivars)

\* A step that leaves both tables alone and changes no hands.
LEMMA IntakeUnseen ==
    ASSUME jobs' = jobs, deleted' = deleted, mode' = "stopping" <=> mode = "stopping"
    PROVE  IntakeMove
BY DEF IntakeMove, Intake!ivars

LEMMA InitIntake == Init => Intake!Init
<1> SUFFICES ASSUME Init PROVE Intake!Init
  OBVIOUS
<1>1. \A j \in JobId : Entry(jobs[j]) = Intake!Blank
  BY DEF Init, Entry, Stage, NoRow, Intake!Blank
<1>2. (mode # "stopping" /\ ~SlowSend) \in BOOLEAN
  OBVIOUS
<1> QED
  BY <1>1, <1>2 DEF Init, Intake!Init

\* Rows that hold their slots are written and hold them still.
LEMMA HandledRows ==
    ASSUME IInv, deleted' = deleted, mode' = "stopping" <=> mode = "stopping",
           \A j \in JobId :
              \/ jobs'[j] = jobs[j]
              \/ /\ jobs'[j] \in Row /\ HoldsSlot(jobs[j]) /\ HoldsSlot(jobs'[j])
                 /\ jobs'[j].slot = jobs[j].slot /\ jobs'[j].comment = jobs[j].comment
    PROVE  IntakeMove
<1> DEFINE old == [j \in JobId |-> Entry(jobs[j])]
           new == [j \in JobId |-> Entry(jobs'[j])]
           posted == {j \in JobId : old[j].stage \in {"waiting", "taken"}}
           stage == [j \in posted |-> new[j].stage]
<1>1. jobs \in [JobId -> Row]
  BY DEF IInv, TypeOK
<1>2. ASSUME NEW j \in posted PROVE new[j].stage \in {"waiting", "taken"}
                                    /\ new[j] = [old[j] EXCEPT !.stage = new[j].stage]
  <2>1. CASE jobs'[j] = jobs[j]
    BY <2>1 DEF Entry
  <2>2. CASE /\ jobs'[j] \in Row /\ HoldsSlot(jobs'[j])
             /\ jobs'[j].slot = jobs[j].slot /\ jobs'[j].comment = jobs[j].comment
    <3>1. Stage(jobs'[j]) \in {"waiting", "taken"}
      BY <2>2, StageFacts
    <3> QED
      BY <2>2, <3>1 DEF Entry
  <2> QED
    BY <2>1, <2>2
<1>3. \A j \in JobId \ posted : new[j] = old[j]
  BY <1>1, StageFacts
<1>4. posted = Intake!Posted
  BY DEF Intake!Posted
<1>5. new = [j \in JobId |-> IF j \in Intake!Posted THEN Intake!At(j, stage[j]) ELSE old[j]]
  BY <1>2, <1>3, <1>4 DEF Intake!At
<1>6. stage \in [Intake!Posted -> {"waiting", "taken"}]
  BY <1>2, <1>4
<1>7. UNCHANGED <<deleted, mode # "stopping" /\ ~SlowSend>>
  OBVIOUS
<1>8. [j \in JobId |-> Entry(jobs[j])]' = new
  OBVIOUS
<1>9. Intake!Handle
  <2> HIDE DEF new, stage
  <2> QED
    BY <1>5, <1>6, <1>7, <1>8, Zenon DEF Intake!Handle
<1> QED
  BY <1>9 DEF IntakeMove, Intake!Next

LEMMA CreateJobsIntake ==
    ASSUME IInv, NEW J \in SUBSET JobId, NEW c \in Origins, CreateJobs(J, c)
    PROVE  IntakeMove
<1> DEFINE old == [i \in JobId |-> Entry(jobs[i])]
           new == [i \in JobId |-> Entry(jobs'[i])]
           slot == [i \in J |-> jobs'[i].slot]
<1>1. /\ jobs \in [JobId -> Row] /\ jobs' \in [JobId -> Row]
      /\ \A j \in J :
            /\ jobs[j].status = "absent"
            /\ jobs'[j].status = "queued" /\ jobs'[j].slot \in Slots
            /\ jobs'[j].comment = c
            /\ \A i \in J : jobs'[i].slot = jobs'[j].slot => i = j
            /\ \A i \in JobId : HoldsSlot(jobs[i]) => jobs[i].slot # jobs'[j].slot
      /\ \A j \in JobId \ J : jobs'[j] = jobs[j]
      /\ c \notin deleted
  BY CreatedRows
<1>2. UNCHANGED <<deleted, mode # "stopping" /\ ~SlowSend>>
  BY DEF CreateJobs, process
<1>3. \A j \in J : new[j] = [stage |-> "waiting", slot |-> slot[j], comment |-> c]
  BY <1>1 DEF Entry, Stage
<1>4. new = [i \in JobId |-> IF i \in J
                             THEN [stage |-> "waiting", slot |-> slot[i], comment |-> c]
                             ELSE old[i]]
  BY <1>1, <1>3
<1>5. \A j \in J : old[j].stage = "unposted"
  BY <1>1, StageFacts
<1>6. \A j \in J : Intake!Free(slot[j], JobId)
  BY <1>1, StageFacts DEF Intake!Free, Intake!Posted
<1>7. slot \in [J -> Slots] /\ \A h, i \in J : slot[h] = slot[i] => h = i
  BY <1>1
<1>8. [i \in JobId |-> Entry(jobs[i])]' = new
  OBVIOUS
<1>9. Intake!Post(J, c)
  <2> HIDE DEF new, slot
  <2>1. \E s \in [J -> Slots] :
            /\ \A h, i \in J : s[h] = s[i] => h = i
            /\ \A j \in J : Intake!Free(s[j], JobId)
            /\ new = [i \in JobId |->
                          IF i \in J THEN [stage |-> "waiting", slot |-> s[i], comment |-> c]
                          ELSE old[i]]
    BY <1>4, <1>6, <1>7, Zenon
  <2> QED
    BY <1>1, <1>2, <1>5, <1>8, <2>1, Zenon DEF Intake!Post
<1> QED
  BY <1>9, OriginsAreComments DEF IntakeMove, Intake!Next

LEMMA CancelJobsIntake ==
    ASSUME IInv, NEW c \in Comments, CancelJobs(c) PROVE IntakeMove
<1> DEFINE old == [i \in JobId |-> Entry(jobs[i])]
           new == [i \in JobId |-> Entry(jobs'[i])]
<1>1. /\ jobs \in [JobId -> Row] /\ c \in deleted
      /\ UNCHANGED <<deleted, mode # "stopping" /\ ~SlowSend>>
  BY DEF CancelJobs, IInv, TypeOK, process
<1>2. ASSUME NEW j \in JobId
      PROVE  new[j] = IF Intake!Waits(j, c) THEN Intake!At(j, "withdrawn") ELSE old[j]
  <2>1. Intake!Waits(j, c) <=> Cancellable(j, c)
    BY <1>1, StageFacts DEF Intake!Waits, Cancellable
  <2>2. Cancellable(j, c) => jobs'[j] = Cancel(jobs[j])
    BY DEF CancelJobs
  <2>3. ~Cancellable(j, c) => jobs'[j] = jobs[j]
    BY DEF CancelJobs
  <2>4. Entry(Cancel(jobs[j])) = [Entry(jobs[j]) EXCEPT !.stage = "withdrawn"]
    BY <1>1, StatusWrites DEF Entry, Stage
  <2> QED
    BY <2>1, <2>2, <2>3, <2>4 DEF Intake!At
<1>3. new = [j \in JobId |-> IF Intake!Waits(j, c) THEN Intake!At(j, "withdrawn") ELSE old[j]]
  BY <1>2
<1>4. Intake!Withdraw(c)
  BY <1>1, <1>3 DEF Intake!Withdraw
<1> QED
  BY <1>4 DEF IntakeMove, Intake!Next

\* The two helpers of run_once write the claimed row: it is taken or waits, or there
\* are two writers and it was withdrawn.
LEMMA WorkerWritesIntake ==
    ASSUME IInv, ClaimInv, HasClaim, mode # "down", NEW row \in Row,
           jobs' = [jobs EXCEPT ![wJob] = row],
           row.slot = jobs[wJob].slot, row.comment = jobs[wJob].comment,
           deleted' = deleted, mode' = mode, ~Conflict(wJob, row),
           row.status \in {"queued", "accepted", "retry_wait", "failed"}
    PROVE  IntakeMove
<1>1. /\ jobs \in [JobId -> Row] /\ wJob \in JobId /\ jobs[wJob] \in Row
      /\ jobs[wJob].status # "absent" /\ HoldsSlot(row)
  BY HeldKey DEF IInv, TypeOK, HoldsSlot
<1>2. CASE HoldsSlot(jobs[wJob])
  BY <1>1, <1>2, HandledRows
<1>3. CASE ~HoldsSlot(jobs[wJob])
  <2> DEFINE old == [i \in JobId |-> Entry(jobs[i])]
  <2>1. jobs[wJob].status = "cancelled" /\ Stage(jobs[wJob]) = "withdrawn"
    BY <1>1, <1>3, StageFacts DEF HoldsSlot
  <2>2. mode = "stopping" \/ SlowSend
    BY <2>1, SlowSendIsBoolean DEF ClaimInv, IInv, TypeOK
  <2>3. Intake!Free(jobs[wJob].slot, JobId \ {wJob})
    BY <1>1, StageFacts DEF Intake!Free, Intake!Posted, Conflict
  <2>4. Stage(row) \in {"waiting", "taken"}
    BY <1>1, StageFacts
  <2>5. [i \in JobId |-> Entry(jobs[i])]' = [old EXCEPT ![wJob] = Intake!At(wJob, Stage(row))]
    <3>1. Entry(row) = Intake!At(wJob, Stage(row))
      BY <1>1 DEF Entry, Intake!At
    <3> QED
      BY <1>1, <3>1
  <2>6. Intake!Revive(wJob)
    BY <1>1, <2>1, <2>2, <2>3, <2>4, <2>5 DEF Intake!Revive, Entry
  <2> QED
    BY <1>1, <2>6 DEF IntakeMove, Intake!Next
<1> QED
  BY <1>2, <1>3

LEMMA ApplyResultIntake == ASSUME IInv, ClaimInv, ApplyResult PROVE IntakeMove
<1> DEFINE row == ApplySendResult(jobs[wJob], result, wKey)
<1>1. /\ HasClaim /\ result \in SendResults /\ mode # "down"
      /\ mode' = mode /\ deleted' = deleted
  BY DEF ApplyResult, IInv, TypeOK, WorkerInv, HasClaim, process
<1>2. /\ row \in Row /\ row.slot = jobs[wJob].slot /\ row.comment = jobs[wJob].comment
      /\ row.status \in {"accepted", "retry_wait", "failed"}
  BY <1>1, HeldKey, SendResultFacts
<1> HIDE DEF row
<1>3. CASE ~Conflict(wJob, row) /\ jobs' = [jobs EXCEPT ![wJob] = row]
  BY <1>1, <1>2, <1>3, WorkerWritesIntake
<1>4. CASE UNCHANGED jobs
  BY <1>1, <1>4, IntakeUnseen
<1> QED
  BY <1>3, <1>4 DEF ApplyResult, row

LEMMA ReleaseWriteIntake == ASSUME IInv, ClaimInv, ReleaseWrite PROVE IntakeMove
<1>1. HasClaim /\ mode # "down" /\ mode' = mode /\ deleted' = deleted
  BY DEF ReleaseWrite, IInv, WorkerInv, HasClaim, process
<1>2. /\ Requeue(jobs[wJob]) \in Row /\ Requeue(jobs[wJob]).status = "queued"
      /\ Requeue(jobs[wJob]).slot = jobs[wJob].slot
      /\ Requeue(jobs[wJob]).comment = jobs[wJob].comment
  BY <1>1, HeldKey, StatusWrites
<1>3. CASE /\ ~Conflict(wJob, Requeue(jobs[wJob]))
           /\ jobs' = [jobs EXCEPT ![wJob] = Requeue(jobs[wJob])]
  BY <1>1, <1>2, <1>3, WorkerWritesIntake
<1>4. CASE jobs' = jobs
  BY <1>1, <1>4, IntakeUnseen
<1> QED
  BY <1>3, <1>4 DEF ReleaseWrite

\* An answer of GET /v1/dm is written to a row that holds its slot, and only there.
LEMMA ReconApplyIntake == ASSUME IInv, ReconApply PROVE IntakeMove
<1> DEFINE j == rCur.job
           row == ApplyDeliveryStatus(jobs[j], rCur.answer)
<1>1. /\ j \in JobId /\ rCur.answer \in Answers /\ jobs \in [JobId -> Row] /\ jobs[j] \in Row
      /\ jobs[j].status = "accepted" /\ jobs[j].cycle \in Cycles
      /\ deleted' = deleted /\ mode' = mode
  BY DEF ReconApply, IInv, TypeOK, PollInv, RowInv, process
<1>2. /\ row \in Row /\ row.slot = jobs[j].slot /\ row.comment = jobs[j].comment
      /\ row.status \in {"accepted", "delivered", "retry_wait", "failed"}
  BY <1>1, DeliveryStatusFacts DEF Answers
<1>3. jobs' = [jobs EXCEPT ![j] = row]
  BY <1>1 DEF ReconApply
<1> HIDE DEF row, j
<1> QED
  BY <1>1, <1>2, <1>3, HandledRows DEF HoldsSlot

\* A claim, a sweep and a restart.
LEMMA ClaimsIntake ==
    ASSUME IInv, deleted' = deleted, mode' = "stopping" <=> mode = "stopping",
           \A j \in JobId :
              \/ jobs'[j] = jobs[j]
              \/ /\ jobs[j].status \in {"queued", "retry_wait", "sending"}
                 /\ jobs'[j] \in {Claim(jobs[j]), Requeue(jobs[j])}
    PROVE  IntakeMove
<1>1. jobs \in [JobId -> Row]
  BY DEF IInv, TypeOK
<1>2. ASSUME NEW j \in JobId,
             jobs[j].status \in {"queued", "retry_wait", "sending"},
             jobs'[j] \in {Claim(jobs[j]), Requeue(jobs[j])}
      PROVE  /\ jobs'[j] \in Row /\ HoldsSlot(jobs[j]) /\ HoldsSlot(jobs'[j])
             /\ jobs'[j].slot = jobs[j].slot /\ jobs'[j].comment = jobs[j].comment
  BY <1>1, <1>2, StatusWrites DEF HoldsSlot
<1> QED
  BY <1>2, HandledRows

LEMMA ManagerIntake == ASSUME IInv, Manager PROVE IntakeMove
<1>1. ASSUME NEW j \in JobId, RequeueStale(j) PROVE IntakeMove
  BY <1>1, ClaimsIntake DEF RequeueStale, Stale, IInv, TypeOK, process
<1>2. CASE Restart
  BY <1>2, ClaimsIntake DEF Restart
<1>3. CASE Stop \/ ExitProcess \/ Crash
  <2>1. UNCHANGED <<jobs, deleted>>
    BY <1>3 DEF Stop, ExitProcess, Crash, table
  <2>2. CASE (mode' = "stopping" <=> mode = "stopping") \/ SlowSend
    BY <2>1, <2>2, IntakeUnseen DEF IntakeMove, Intake!ivars
  <2>3. CASE ~(mode' = "stopping" <=> mode = "stopping") /\ ~SlowSend
    <3>1. Intake!ChangeHands
      BY <2>1, <2>3 DEF Intake!ChangeHands
    <3> QED
      BY <3>1 DEF IntakeMove, Intake!Next
  <2> QED
    BY <2>2, <2>3
<1> QED
  BY <1>1, <1>2, <1>3 DEF Manager

LEMMA NextIntake == IInv /\ ClaimInv /\ [Next]_vars => IntakeMove
<1> SUFFICES ASSUME IInv, ClaimInv, [Next]_vars PROVE IntakeMove
  OBVIOUS
<1>1. CASE EventWorker
  <2>1. ASSUME NEW c \in Comments, RecordDeletion(c) PROVE IntakeMove
    <3>1. Intake!Delete(c)
      BY <2>1 DEF RecordDeletion, Intake!Delete, process
    <3> QED
      BY <3>1 DEF IntakeMove, Intake!Next
  <2> QED
    BY <1>1, <2>1, CreateJobsIntake, CancelJobsIntake DEF EventWorker
<1>2. CASE Claiming
  <2>1. CASE SelectCandidates \/ ClaimNone
    BY <2>1, IntakeUnseen DEF SelectCandidates, ClaimNone, table, process
  <2>2. ASSUME NEW j \in JobId, ClaimNextJob(j) \/ LoseClaim(j) PROVE IntakeMove
    BY <2>2, ClaimsIntake DEF ClaimNextJob, LoseClaim, FirstClaimable, Claimable, Queued,
       Waiting, IInv, TypeOK, process
  <2> QED
    BY <1>2, <2>1, <2>2 DEF Claiming
<1>3. CASE Settling
  <2>1. CASE SendRaises \/ ReleaseRead \/ \E r \in SendResults : SendReturns(r)
    BY <2>1, IntakeUnseen DEF SendRaises, ReleaseRead, SendReturns, table, process
  <2>2. ASSUME NEW step \in threads, ThreadFails(step) PROVE IntakeMove
    BY <2>2, IntakeUnseen DEF ThreadFails, table
  <2> QED
    BY <1>3, <2>1, <2>2, ReleaseWriteIntake DEF Settling
<1>4. CASE SendRequest \/ Polling \/ PseudoGram \/ UNCHANGED vars
  BY <1>4, IntakeUnseen DEF SendRequest, Polling, ReconLoad, ReconPoll, ReconPollFails,
     ReconApplyFails, PseudoGram, DMOutcome, LateArrives, vars, table, process
<1> QED
  BY <1>1, <1>2, <1>3, <1>4, ApplyResultIntake, ReconApplyIntake, ManagerIntake
  DEF Next, DMWorker, Reconciler

\* The queue implements what EventIntake implements, too: the rows it takes, puts back
\* and finishes are those IntakeBoard lets it have, for any number of jobs, slots,
\* budgets and faults (claim_next_job, apply_send_result, cancel_jobs_for_comment).
THEOREM QueueImplementsIntake == Spec => ImplementsIntake
BY InitIntake, NextIntake, ClaimInvariant, PTL DEF ImplementsIntake, Intake!Spec, Spec, IntakeMove
=============================================================================
