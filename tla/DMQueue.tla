------------------------------ MODULE DMQueue -------------------------------
(***************************************************************************)
(* The dm_jobs table and everyone who writes it: the event worker (creates *)
(* and cancels jobs), the one DM worker, the reconciler, the maintenance   *)
(* sweep, and the start and stop of the process; with PseudoGram on the    *)
(* other side of a connection that may lose or delay a request.            *)
(***************************************************************************)
EXTENDS JobRow

CONSTANTS
    MaxJobs,    \* bound: ids the database may hand out
    MaxFaults,  \* bound: crashes, stops, failed statements, throttled sends, ...
    SlowSend,   \* a live claim may outlast sending_stale_seconds
    Origins     \* the comments that events ask DMs for; None is an event without an id

ASSUME BoundsAreNumbers == MaxJobs \in Nat /\ MaxFaults \in Nat
ASSUME SlowSendIsBoolean == SlowSend \in BOOLEAN
ASSUME OriginsAreComments == Origins \subseteq Comments \cup {None}

JobId == 1 .. MaxJobs

VARIABLES
    jobs,     \* dm_jobs: row id -> row
    deleted,  \* deleted_comments
    dm,       \* PseudoGram: the DM created for each (job, cycle) key
    late,     \* keys of requests whose sender gave up but that may still arrive
    phase,    \* DM worker: where run_once stands
    cand,     \* DM worker: candidate_ids of claim_next_job
    wJob,     \* DM worker: the id in `claimed`
    wKey,     \* DM worker: the cycle in claimed["idempotency_key"]
    result,   \* DM worker: result of the send
    threads,  \* DM worker: database steps still to run in a to_thread helper
    rBatch,   \* reconciler: rows of _load_pending not polled yet
    rCur,     \* reconciler: the row polled and its answer, not applied yet
    mode,     \* process: up, stopping (tasks cancelled), down
    faults    \* faults so far

table    == <<jobs, deleted>>
provider == <<dm, late>>
worker   == <<phase, cand, wJob, wKey, result, threads>>
recon    == <<rBatch, rCur>>
process  == <<mode, faults>>
vars     == <<table, provider, worker, recon, process>>

DMState == {"none", "queued", "delivered", "failed"}
Answers == {"queued", "delivered", "failed"}
Polls   == [job : JobId, key : Cycles]

TypeOK ==
    /\ jobs \in [JobId -> Row]
    /\ deleted \subseteq Comments
    /\ dm \in [JobId -> [Cycles -> DMState]]
    /\ late \subseteq JobId \X Cycles
    /\ phase \in {"idle", "selected", "acquiring", "sending", "settling"}
    /\ cand \subseteq JobId
    /\ wJob \in JobId \cup {None}
    /\ wKey \in Cycles \cup {None}
    /\ result \in SendResults \cup {None}
    /\ threads \subseteq {"apply", "read", "write"}
    /\ rBatch \subseteq Polls
    /\ rCur \in [job : JobId, key : Cycles, answer : Answers] \cup {None}
    /\ mode \in {"up", "stopping", "down"}
    /\ faults \in 0 .. MaxFaults

Init ==
    /\ jobs = [j \in JobId |-> NoRow]
    /\ deleted = {}
    /\ dm = [j \in JobId |-> [k \in Cycles |-> "none"]]
    /\ late = {}
    /\ phase = "idle"
    /\ cand = {}
    /\ wJob = None
    /\ wKey = None
    /\ result = None
    /\ threads = {}
    /\ rBatch = {}
    /\ rCur = None
    /\ mode = "up"
    /\ faults = 0

-----------------------------------------------------------------------------
(* The table.                                                              *)

Exists(j) == jobs[j].status # "absent"

\* Writing `row` to id j would violate the unique index.
Conflict(j, row) ==
    HoldsSlot(row) /\ \E i \in JobId \ {j} :
                          HoldsSlot(jobs[i]) /\ jobs[i].slot = row.slot

\* Mutant: the key changes with every transient failure.
IdempotencyKey_PerTry(row) == (row.cycle + row.transient) % MaxDeliveryAttempts
\* DMJob.idempotency_key: a function of the row's id and its send cycle only.
IdempotencyKey(row) == row.cycle

Fault == faults < MaxFaults /\ faults' = faults + 1

\* The event worker commits the rows an event asks for, one by one or those of a
\* transaction together.  Ids come in order, a comment known to be deleted creates
\* nothing, and the unique index refuses a second row.
CreateJobs(J, c) ==
    /\ mode # "down"
    /\ c \notin deleted
    /\ \A j \in J : ~Exists(j) /\ \A i \in 1 .. (j - 1) : Exists(i) \/ i \in J
    /\ \E slot \in [J -> Slots] :
           /\ \A i, j \in J : slot[i] = slot[j] => i = j
           /\ \A j \in J : ~Conflict(j, NewRow(slot[j], c))
           /\ jobs' = [j \in JobId |-> IF j \in J THEN NewRow(slot[j], c) ELSE jobs[j]]
    /\ UNCHANGED <<deleted, provider, worker, recon, process>>

\* comment.deleted, first commit: on SQLite the row of deleted_comments is
\* visible to everyone when its savepoint is released.
RecordDeletion(c) ==
    /\ mode # "down"
    /\ c \notin deleted
    /\ deleted' = deleted \cup {c}
    /\ UNCHANGED <<jobs, provider, worker, recon, process>>

Cancellable(j, c) == jobs[j].comment = c /\ jobs[j].status \in CancellableStatuses

\* comment.deleted, second commit: one UPDATE over the comment's jobs.
CancelJobs(c) ==
    /\ mode # "down"
    /\ c \in deleted
    /\ \E j \in JobId : Cancellable(j, c)
    /\ jobs' = [j \in JobId |-> IF Cancellable(j, c) THEN Cancel(jobs[j])
                                                     ELSE jobs[j]]
    /\ UNCHANGED <<deleted, provider, worker, recon, process>>

-----------------------------------------------------------------------------
(* The DM worker.                                                          *)

Queued(j)  == jobs[j].status = "queued"
Waiting(j) == jobs[j].status = "retry_wait"

\* Mutant: the conditional UPDATE no longer looks at the status.
Claimable_Unchecked(j) == Exists(j)
\* The WHERE clause of the conditional UPDATE.
Claimable(j) == Queued(j) \/ Waiting(j)

\* SELECT of candidate ids; `due` are the retry_wait rows whose next_retry_at
\* has passed, which time makes any of them.
SelectCandidates ==
    /\ mode = "up" /\ phase = "idle"
    /\ \E due \in SUBSET {j \in JobId : Waiting(j)} :
           cand' = {j \in JobId : Queued(j)} \cup due
    /\ cand' # {}
    /\ phase' = "selected"
    /\ UNCHANGED <<table, provider, wJob, wKey, result, threads, recon, process>>

\* ORDER BY next_retry_at IS NULL DESC, next_retry_at, id; the order of two
\* set next_retry_at is left open.
Before(i, j) == ~jobs[i].retryAt /\ (jobs[j].retryAt \/ i < j)

FirstClaimable(j) ==
    /\ j \in cand /\ Claimable(j)
    /\ \A i \in cand \ {j} : Claimable(i) => ~Before(i, j)

ClaimNextJob(j) ==
    /\ mode = "up" /\ phase = "selected"
    /\ FirstClaimable(j)
    /\ jobs' = [jobs EXCEPT ![j] = Claim(@)]
    /\ phase' = "acquiring"
    /\ wJob' = j
    /\ wKey' = IdempotencyKey(jobs[j])
    /\ cand' = {}
    /\ UNCHANGED <<deleted, provider, result, threads, recon, process>>

\* The claim commits, but its outcome is lost: the read after the commit fails,
\* or the task was cancelled while the thread ran.  run_once releases nothing.
LoseClaim(j) ==
    /\ phase = "selected"
    /\ FirstClaimable(j)
    /\ \/ mode = "up" /\ Fault
       \/ mode = "stopping" /\ UNCHANGED faults
    /\ jobs' = [jobs EXCEPT ![j] = Claim(@)]
    /\ phase' = "idle"
    /\ cand' = {}
    /\ UNCHANGED <<deleted, provider, wJob, wKey, result, threads, recon, mode>>

ClaimNone ==
    /\ phase = "selected"
    /\ \A j \in cand : ~Claimable(j)
    /\ phase' = "idle"
    /\ cand' = {}
    /\ UNCHANGED <<table, provider, wJob, wKey, result, threads, recon, process>>

\* limiter.acquire() returns and the request leaves.
SendRequest ==
    /\ mode = "up" /\ phase = "acquiring"
    /\ phase' = "sending"
    /\ UNCHANGED <<table, provider, cand, wJob, wKey, result, threads, recon, process>>

\* An Idempotency-Key PseudoGram knows is answered with the DM it stands for; it is
\* assumed to know it for as long as the job lives.
Land(j, k) ==
    dm' = IF dm[j][k] = "none" THEN [dm EXCEPT ![j][k] = "queued"] ELSE dm

\* `steps` are the database steps run_once still waits for, or left running;
\* with none left the claim is forgotten and the loop goes on.
Settle(steps, r) ==
    /\ threads' = steps
    /\ phase'  = IF steps = {} THEN "idle" ELSE "settling"
    /\ wJob'   = IF steps = {} THEN None ELSE wJob
    /\ wKey'   = IF steps = {} THEN None ELSE wKey
    /\ result' = IF "apply" \in steps THEN r ELSE None

Accepted(r) ==
    /\ r \in {"accepted", "accepted_no_dm_id"}
    /\ Land(wJob, wKey)
    /\ UNCHANGED <<late, faults>>

Refused(r) ==
    /\ \/ r \in {"server_error", "unexpected"} /\ UNCHANGED faults
       \/ r \in {"rate_limited", "auth_error"} /\ Fault
       \/ r = "invalid" /\ dm[wJob][wKey] = "none" /\ UNCHANGED faults
    /\ UNCHANGED provider

\* A timeout or a broken connection: the request may arrive later, or never.
Unanswered(r) ==
    /\ r = "transport_error"
    /\ late' = late \cup {<<wJob, wKey>>}
    /\ UNCHANGED <<dm, faults>>

SendReturns(r) ==
    /\ mode = "up" /\ phase = "sending"
    /\ Accepted(r) \/ Refused(r) \/ Unanswered(r)
    /\ Settle({"apply"}, r)
    /\ UNCHANGED <<table, cand, recon, mode>>

\* An exception that is not an httpx.HTTPError.
SendRaises ==
    /\ mode = "up" /\ phase = "sending"
    /\ Fault
    /\ late' = late \cup {<<wJob, wKey>>}
    /\ Settle({"read"}, None)
    /\ UNCHANGED <<table, dm, cand, recon, mode>>

\* What remains once the thread running `step` has failed: an exception in
\* _apply makes run_once release the claim, unless the task was cancelled.
AfterFailure(step) ==
    Settle(IF step = "apply" /\ mode = "up" THEN {"read"} ELSE threads \ {step},
           result)

\* The row write of DMWorker._apply.
ApplyResult ==
    LET row == ApplySendResult(jobs[wJob], result, wKey)
    IN  /\ "apply" \in threads
        /\ \/ /\ ~Conflict(wJob, row)
              /\ jobs' = [jobs EXCEPT ![wJob] = row]
              /\ Settle(threads \ {"apply"}, result)
           \/ /\ Conflict(wJob, row)
              /\ AfterFailure("apply")
              /\ UNCHANGED jobs
        /\ UNCHANGED <<deleted, provider, cand, recon, process>>

ReleaseNeeded(j) == jobs[j].status = "sending"

\* _release_claim reads the row and, if it saw `sending`, writes `queued`.
ReleaseRead ==
    /\ "read" \in threads
    /\ Settle((threads \ {"read"}) \cup
                  (IF ReleaseNeeded(wJob) THEN {"write"} ELSE {}), result)
    /\ UNCHANGED <<table, provider, cand, recon, process>>

ReleaseWrite ==
    /\ "write" \in threads
    /\ jobs' = IF Conflict(wJob, Requeue(jobs[wJob])) THEN jobs
               ELSE [jobs EXCEPT ![wJob] = Requeue(@)]
    /\ Settle(threads \ {"write"}, result)
    /\ UNCHANGED <<deleted, provider, cand, recon, process>>

\* A statement of one of the two helpers fails and is rolled back.
ThreadFails(step) ==
    /\ step \in threads
    /\ Fault
    /\ AfterFailure(step)
    /\ UNCHANGED <<table, provider, cand, recon, mode>>

-----------------------------------------------------------------------------
(* The reconciler.                                                         *)

\* The rows _load_pending selects, as (job, key of its dm_id).
Pollable == {p \in Polls : /\ jobs[p.job].status = "accepted"
                           /\ jobs[p.job].dmId = p.key}

ReconLoad ==
    /\ mode = "up" /\ rBatch = {} /\ rCur = None
    /\ Pollable # {}
    /\ rBatch' = Pollable
    /\ UNCHANGED <<table, provider, worker, rCur, process>>

ReconPoll(p) ==
    /\ mode = "up" /\ rCur = None
    /\ p \in rBatch
    /\ dm[p.job][p.key] # "none"
    /\ rBatch' = rBatch \ {p}
    /\ rCur' = [job |-> p.job, key |-> p.key, answer |-> dm[p.job][p.key]]
    /\ UNCHANGED <<table, provider, worker, process>>

\* NOT_FOUND or ERROR: the row is skipped until the next round.
ReconPollFails(p) ==
    /\ mode = "up" /\ rCur = None
    /\ p \in rBatch
    /\ Fault
    /\ rBatch' = rBatch \ {p}
    /\ UNCHANGED <<table, provider, worker, rCur, mode>>

\* ReconciliationService._apply looks at the status and not at dm_id.
ReconApply ==
    /\ rCur # None
    /\ jobs' = IF jobs[rCur.job].status = "accepted"
               THEN [jobs EXCEPT ![rCur.job] = ApplyDeliveryStatus(@, rCur.answer)]
               ELSE jobs
    /\ rCur' = None
    /\ UNCHANGED <<deleted, provider, worker, rBatch, process>>

\* The exception leaves run_once and with it the rest of the batch.
ReconApplyFails ==
    /\ rCur # None
    /\ Fault
    /\ rCur' = None
    /\ rBatch' = {}
    /\ UNCHANGED <<table, provider, worker, mode>>

-----------------------------------------------------------------------------
(* Maintenance, and the life of the process.                               *)

HoldsClaim(j) == wJob = j

\* Mutant: the cutoff is forgotten, every `sending` row counts as stale.
Stale_NoCutoff(j) == jobs[j].status = "sending"
\* Mutant: only rows that were scheduled for a retry before are swept.
Stale_RetriedOnly(j) ==
    jobs[j].status = "sending" /\ jobs[j].retryAt /\ (SlowSend \/ ~HoldsClaim(j))
\* updated_at < cutoff: a claim the worker still works on is that old only if
\* the send is slower than sending_stale_seconds.
Stale(j) == jobs[j].status = "sending" /\ (SlowSend \/ ~HoldsClaim(j))

RequeueStale(j) ==
    /\ mode # "down"
    /\ Stale(j)
    /\ jobs' = [jobs EXCEPT ![j] = Requeue(@)]
    /\ UNCHANGED <<deleted, provider, worker, recon, process>>

\* WorkerManager.stop cancels the tasks.  Threads that already run go on; the
\* cancelled run_once starts one more, for _release_claim.
Stop ==
    /\ mode = "up" /\ Fault
    /\ mode' = "stopping"
    /\ rBatch' = {}
    /\ late' = IF phase = "sending" THEN late \cup {<<wJob, wKey>>} ELSE late
    /\ IF phase \in {"acquiring", "sending"} \/ "apply" \in threads
       THEN Settle(threads \cup {"read"}, result)
       ELSE UNCHANGED <<phase, wJob, wKey, result, threads>>
    /\ UNCHANGED <<table, dm, cand, rCur>>

Forget ==
    /\ phase' = "idle" /\ cand' = {} /\ wJob' = None /\ wKey' = None
    /\ result' = None /\ threads' = {} /\ rBatch' = {} /\ rCur' = None

ExitProcess ==
    /\ mode = "stopping" /\ phase = "idle" /\ rCur = None
    /\ mode' = "down"
    /\ UNCHANGED <<table, provider, worker, recon, faults>>

Crash ==
    /\ mode # "down" /\ Fault
    /\ mode' = "down"
    /\ late' = IF phase = "sending" THEN late \cup {<<wJob, wKey>>} ELSE late
    /\ Forget
    /\ UNCHANGED <<table, dm>>

\* WorkerManager.recover_state, before the tasks start.
Restart ==
    /\ mode = "down"
    /\ mode' = "up"
    /\ jobs' = [j \in JobId |-> IF jobs[j].status = "sending" THEN Requeue(jobs[j])
                                                             ELSE jobs[j]]
    /\ UNCHANGED <<deleted, provider, worker, recon, faults>>

-----------------------------------------------------------------------------
(* PseudoGram.                                                             *)

DMOutcome(j, k) ==
    /\ dm[j][k] = "queued"
    /\ \E outcome \in {"delivered", "failed"} : dm' = [dm EXCEPT ![j][k] = outcome]
    /\ UNCHANGED <<table, late, worker, recon, process>>

LateArrives(j, k) ==
    /\ <<j, k>> \in late
    /\ late' = late \ {<<j, k>>}
    /\ Land(j, k)
    /\ UNCHANGED <<table, worker, recon, process>>

-----------------------------------------------------------------------------
EventWorker ==
    \/ \E J \in (SUBSET JobId) \ {{}}, c \in Origins : CreateJobs(J, c)
    \/ \E c \in Comments : RecordDeletion(c) \/ CancelJobs(c)

Claiming ==
    \/ SelectCandidates \/ ClaimNone
    \/ \E j \in JobId : ClaimNextJob(j) \/ LoseClaim(j)

Settling ==
    \/ SendRaises \/ ReleaseRead \/ ReleaseWrite
    \/ \E r \in SendResults : SendReturns(r)
    \/ \E step \in threads : ThreadFails(step)

DMWorker == Claiming \/ SendRequest \/ ApplyResult \/ Settling

Polling ==
    \/ ReconLoad \/ ReconApplyFails
    \/ \E p \in rBatch : ReconPoll(p) \/ ReconPollFails(p)

Reconciler == Polling \/ ReconApply

Manager == Stop \/ ExitProcess \/ Crash \/ Restart \/ \E j \in JobId : RequeueStale(j)

PseudoGram == \E j \in JobId, k \in Cycles : DMOutcome(j, k) \/ LateArrives(j, k)

Next == EventWorker \/ DMWorker \/ Reconciler \/ Manager \/ PseudoGram

Spec == Init /\ [][Next]_vars

-----------------------------------------------------------------------------
(* Safety.                                                                 *)

Live(j, k) == dm[j][k] \in {"queued", "delivered"}

\* A job never has two DMs at PseudoGram that were delivered or still may be:
\* whatever times out, crashes, arrives late or is requeued, a new key is used
\* only once the previous DM is known to have failed (DMJob.idempotency_key,
\* apply_delivery_status).
OneLiveDMPerJob ==
    \A j \in JobId : \A k1, k2 \in Cycles : Live(j, k1) /\ Live(j, k2) => k1 = k2

\* send_cycle counts deliveries that really failed (the comment on the column):
\* no transient error, lost answer or stale poll ever advances it.
CycleCountsFailures ==
    \A j \in JobId : \A k \in Cycles : k < jobs[j].cycle => dm[j][k] = "failed"

\* /stats.sent is honest: a `delivered` row's current DM was delivered.
SentIsDelivered ==
    \A j \in JobId : jobs[j].status = "delivered" => dm[j][jobs[j].cycle] = "delivered"

\* What the reconciler loaded is still what it may act on when the answer comes:
\* the row is `accepted` for the same DM.  It is why _apply can do with a check
\* of the status and none of dm_id.
PollsAreCurrent ==
    /\ \A p \in rBatch : jobs[p.job].status = "accepted" /\ jobs[p.job].cycle = p.key
    /\ rCur # None =>
           jobs[rCur.job].status = "accepted" /\ jobs[rCur.job].cycle = rCur.key

\* Two live DMs for one (rule, user) pair only if one of the two jobs was
\* cancelled for a deleted comment: the partial unique index lets no other pair
\* of jobs through, whatever the release and apply threads write.
SecondDMNeedsDeletedComment ==
    \A i, j \in JobId :
        /\ i # j /\ jobs[i].slot = jobs[j].slot
        /\ \E k \in Cycles : Live(i, k)
        /\ \E k \in Cycles : Live(j, k)
        => \E x \in {i, j} : jobs[x].status = "cancelled" /\ jobs[x].comment \in deleted

\* While the process is up, the row of a claimed job is the worker's alone: no
\* sweep, cancellation or reconciliation moves it until the worker is done.
\* Needs sends that are faster than sending_stale_seconds.
WorkerOwnsClaim ==
    mode = "up" /\ wJob # None => jobs[wJob].status = "sending"

\* A job that left the `queued` statistic stays out of it, with the status it
\* had; sends faster than sending_stale_seconds, and no shutdown under way.
FinalStatusStays ==
    [][\A j \in JobId : mode # "stopping" /\ jobs[j].status \in FinalStatuses
                            => jobs'[j].status = jobs[j].status]_vars

-----------------------------------------------------------------------------
(* The abstract specification.                                             *)

\* What /stats says of a row.
BoardState(row) ==
    CASE row.status = "absent"          -> "unposted"
      [] row.status \in PendingStatuses -> "pending"
      [] row.status = "delivered"       -> "sent"
      [] row.status = "failed"          -> "failed"
      [] row.status = "cancelled"       -> "withdrawn"

Board == INSTANCE DMBoard WITH
    Job       <- JobId,
    slot      <- [j \in JobId |-> jobs[j].slot],
    state     <- [j \in JobId |-> BoardState(jobs[j])],
    live      <- {j \in JobId : \E k \in Cycles : Live(j, k)},
    arrived   <- {j \in JobId : \E k \in Cycles : dm[j][k] = "delivered"},
    exclusive <- mode # "stopping" /\ ~SlowSend

\* The queue keeps the promise of DMBoard, step by step: claims, retries, lost
\* answers, sweeps, polls and restarts are all either invisible on the board or
\* one of its moves, and `sent` in particular is final even during a shutdown
\* and with slow sends.
ImplementsBoard == Board!Spec

Intake == INSTANCE IntakeBoard WITH
    Job       <- JobId,
    board     <- [j \in JobId |-> Entry(jobs[j])],
    exclusive <- mode # "stopping" /\ ~SlowSend

\* The queue does with the rows what IntakeBoard allows, as the event worker does
\* in EventIntake: it takes no row that was withdrawn and brings none back, but for
\* a result written late, and then into a free slot (claim_next_job,
\* apply_send_result, cancel_jobs_for_comment).
ImplementsIntake == Intake!Spec

-----------------------------------------------------------------------------
(* Liveness.                                                               *)

\* No job is lost: each one is delivered, given up or cancelled in the end, under
\* the fairness Pipeline states for the loops of the process.
JobsFinish ==
    \A j \in JobId : jobs[j].status \in PendingStatuses
                         ~> jobs[j].status \in FinalStatuses

-----------------------------------------------------------------------------
(* What the documents say and the code does not do.                        *)

\* "Every job that was sent or can still be sent holds its slot, so nobody is
\* DMed twice."
NobodyDMedTwice ==
    \A i, j \in JobId :
        i # j /\ jobs[i].slot = jobs[j].slot =>
            \A k1, k2 \in Cycles : ~(Live(i, k1) /\ Live(j, k2))

\* "`failed` immediately, `last_error` stored, never retried."
FailedStaysFailed ==
    [][\A j \in JobId : jobs[j].status = "failed" => jobs'[j].status = "failed"]_vars
=============================================================================
