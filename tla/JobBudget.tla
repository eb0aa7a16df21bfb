----------------------------- MODULE JobBudget ------------------------------
(***************************************************************************)
(* DMQueue with the column dm_jobs.attempts, which no decision reads, and  *)
(* with the number of requests that really left for each job: what the     *)
(* two retry budgets bound together, whatever fails in between.            *)
(***************************************************************************)
EXTENDS DMQueue

VARIABLES
    attempts,  \* dm_jobs.attempts
    requests   \* history: POST /v1/dm/send requests made for the job

counts == <<attempts, requests>>
bvars  == <<vars, counts>>

BInit ==
    /\ Init
    /\ attempts = [j \in JobId |-> 0]
    /\ requests = [j \in JobId |-> 0]

-----------------------------------------------------------------------------
Request ==
    /\ SendRequest
    /\ requests' = [requests EXCEPT ![wJob] = @ + 1]
    /\ UNCHANGED attempts

\* Mutant: only what PseudoGram answered is counted.
Counted_AnswersOnly(r) ==
    r \in {"accepted", "accepted_no_dm_id", "invalid", "server_error", "unexpected"}
\* The results apply_send_result spends an attempt on.
Counted(r) == r \notin {"rate_limited", "auth_error"}

\* The column is written with the row, or not at all.
Result ==
    /\ ApplyResult
    /\ attempts' = IF Counted(result) /\ ~Conflict(wJob, ApplySendResult(jobs[wJob], result, wKey))
                   THEN [attempts EXCEPT ![wJob] = @ + 1] ELSE attempts
    /\ UNCHANGED requests

\* A confirmed delivery failure is counted on top of the request that led to it.
Outcome ==
    /\ ReconApply
    /\ attempts' = IF jobs[rCur.job].status = "accepted" /\ rCur.answer = "failed"
                   THEN [attempts EXCEPT ![rCur.job] = @ + 1] ELSE attempts
    /\ UNCHANGED requests

Uncounted ==
    /\ EventWorker \/ Claiming \/ Settling \/ Polling \/ Manager \/ PseudoGram
    /\ UNCHANGED counts

BNext == Request \/ Result \/ Outcome \/ Uncounted

BSpec == BInit /\ [][BNext]_bvars

-----------------------------------------------------------------------------
\* In one send cycle: a 202 after all but the last transient failure, and the
\* delivery failure it led to.
CycleBudget == MaxDMAttempts + 1

\* The two budgets bound `attempts` together, though a 202 resets one of them.
\* A fault may start the transient budget of a cycle again, as when a shutdown
\* requeues a job whose 202 is just being written.
AttemptsBounded ==
    \A j \in JobId :
        attempts[j] <= MaxDeliveryAttempts * CycleBudget + faults * MaxDMAttempts

\* Every request is paid for: it is under way, was counted in `attempts`, or a
\* fault accounts for it (a 429 or 401, a crash, a result that was not written).
\* The one exception is a job that was cancelled under a send so slow that the sweep
\* had requeued it: if its slot is taken, the index refuses the result.  With
\* AttemptsBounded, no job can be sent for ever.
RequestsAreCounted ==
    \A j \in JobId :
        requests[j] <= attempts[j] + faults
                         + IF wJob = j \/ jobs[j].status = "cancelled" THEN 1 ELSE 0
=============================================================================
