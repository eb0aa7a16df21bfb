--------------------------- MODULE Reconciliation ---------------------------
(***************************************************************************)
(* ReconciliationService over a table with more accepted rows than one     *)
(* batch holds: which rows a round selects, in what order, and what each   *)
(* answer does to the row's place in that order.                           *)
(*                                                                         *)
(* Of updated_at only the order is kept: `updatedAt` is the place of each  *)
(* row in it, 1 for the row written longest ago.  Poll and apply are one   *)
(* step here, and the DM worker only hands rows over; how their steps      *)
(* interleave is the subject of DMQueue.                                   *)
(***************************************************************************)
EXTENDS JobRow

CONSTANTS
    MaxJobs,    \* bound: rows
    BatchSize,  \* batch_size of ReconciliationService
    MaxLost,    \* bound: DMs PseudoGram forgets
    MaxFaults   \* bound: polls without an answer, failed writes, restarts

ASSUME ReconciliationBounds ==
    /\ MaxJobs \in Nat /\ BatchSize \in Nat \ {0}
    /\ MaxLost \in Nat /\ MaxFaults \in Nat

JobId == 1 .. MaxJobs

\* Bound: where `waited` stops counting, one past what WaitIsBounded allows.
MaxWait == MaxJobs + MaxFaults + 1

VARIABLES
    jobs,       \* dm_jobs
    updatedAt,  \* the place of each row in the order of updated_at
    fate,       \* PseudoGram: the newest DM of each row, "lost" when it answers 404
    batch,      \* rows of _load_pending still to be polled
    waited,     \* history: rounds begun since the row's last answer
    faults

rows == <<jobs, updatedAt>>
vars == <<rows, fate, batch, waited, faults>>

Fates == {"none", "queued", "delivered", "failed", "lost"}

Lost == {j \in JobId : fate[j] = "lost"}

TypeOK ==
    /\ jobs \in [JobId -> Row]
    /\ updatedAt \in [JobId -> JobId]
    /\ \A i, j \in JobId : updatedAt[i] = updatedAt[j] => i = j
    /\ fate \in [JobId -> Fates]
    /\ Cardinality(Lost) <= MaxLost
    /\ batch \subseteq JobId
    /\ waited \in [JobId -> 0 .. MaxWait]
    /\ faults \in 0 .. MaxFaults

Init ==
    /\ \E s \in Slots, c \in Comments : jobs = [j \in JobId |-> NewRow(s, c)]
    /\ updatedAt = [j \in JobId |-> j]
    /\ fate = [j \in JobId |-> "none"]
    /\ batch = {}
    /\ waited = [j \in JobId |-> 0]
    /\ faults = 0

-----------------------------------------------------------------------------
Accepted(j) == jobs[j].status = "accepted"

Fault == faults < MaxFaults /\ faults' = faults + 1

Older(i, j) == updatedAt[i] < updatedAt[j]

\* Mutant: an UPDATE that leaves updated_at alone.
Touch_Never(j) == UNCHANGED updatedAt
\* updated_at = now: the row goes to the end of the order.
Touch(j) ==
    updatedAt' = [i \in JobId |-> IF i = j THEN MaxJobs
                                  ELSE IF Older(j, i) THEN updatedAt[i] - 1
                                  ELSE updatedAt[i]]

\* Every write of a row sets updated_at.
Write(j, row) == jobs' = [jobs EXCEPT ![j] = row] /\ Touch(j)

Answered(j) == waited' = [waited EXCEPT ![j] = 0]

\* The DM worker, seen from here: a claim, a request and a 202.
HandOver(j) ==
    /\ jobs[j].status \in CancellableStatuses
    /\ Write(j, ApplySendResult(jobs[j], "accepted", jobs[j].cycle))
    /\ fate' = [fate EXCEPT ![j] = "queued"]
    /\ Answered(j)
    /\ UNCHANGED <<batch, faults>>

OlderPending(j) == {i \in JobId : Accepted(i) /\ Older(i, j)}

\* Mutant: the newest rows first.
Selected_NewestFirst ==
    {j \in JobId : Accepted(j) /\
        Cardinality({i \in JobId : Accepted(i) /\ Older(j, i)}) < BatchSize}
\* WHERE status = accepted ORDER BY updated_at LIMIT batch_size.
Selected == {j \in JobId : Accepted(j) /\ Cardinality(OlderPending(j)) < BatchSize}

LoadPending ==
    /\ batch = {}
    /\ Selected # {}
    /\ batch' = Selected
    /\ waited' = [j \in JobId |-> IF Accepted(j) /\ waited[j] < MaxWait
                                THEN waited[j] + 1 ELSE waited[j]]
    /\ UNCHANGED <<rows, fate, faults>>

\* The batch is polled in the order in which it was selected.
NextToPoll(j) == j \in batch /\ \A i \in batch \ {j} : Older(j, i)

\* Mutant: an answer "queued" leaves the row alone, as "nothing has changed".
Settles_FinalOnly(answer) == answer \in {"delivered", "failed"}
\* The answers that reach apply_delivery_status, and with it updated_at.
Settles(answer) == answer \in {"queued", "delivered", "failed"}

\* 200: the row is written, also by "still queued".
PollOK(j) ==
    /\ NextToPoll(j)
    /\ Settles(fate[j])
    /\ IF Accepted(j) THEN Write(j, ApplyDeliveryStatus(jobs[j], fate[j]))
                      ELSE UNCHANGED rows
    /\ Answered(j)
    /\ batch' = batch \ {j}
    /\ UNCHANGED <<fate, faults>>

\* 404: the row stays what it is, and where it is in the order.
PollNotFound(j) ==
    /\ NextToPoll(j)
    /\ ~Settles(fate[j])
    /\ Answered(j)
    /\ batch' = batch \ {j}
    /\ UNCHANGED <<rows, fate, faults>>

\* No answer, or one that is an error: "try again next cycle".
PollError(j) ==
    /\ NextToPoll(j)
    /\ Fault
    /\ batch' = batch \ {j}
    /\ UNCHANGED <<rows, fate, waited>>

\* A write that fails, or a restart, drops the rest of the round.
RoundLost ==
    /\ batch # {}
    /\ Fault
    /\ batch' = {}
    /\ UNCHANGED <<rows, fate, waited>>

-----------------------------------------------------------------------------
Decide(j) ==
    /\ fate[j] = "queued"
    /\ \E outcome \in {"delivered", "failed"} : fate' = [fate EXCEPT ![j] = outcome]
    /\ UNCHANGED <<rows, batch, waited, faults>>

LoseDM(j) ==
    /\ fate[j] = "queued"
    /\ Cardinality(Lost) < MaxLost
    /\ fate' = [fate EXCEPT ![j] = "lost"]
    /\ UNCHANGED <<rows, batch, waited, faults>>

Round == LoadPending \/ \E j \in JobId : PollOK(j) \/ PollNotFound(j)

Next ==
    \/ Round \/ RoundLost
    \/ \E j \in JobId : PollError(j) \/ HandOver(j) \/ Decide(j) \/ LoseDM(j)

Spec == Init /\ [][Next]_vars

\* Rounds go on.  PseudoGram need not decide anything, nor the worker send.
FairSpec == Spec /\ WF_vars(Round)

-----------------------------------------------------------------------------
\* As many rounds as it takes to poll every other row, though 404s keep their places.
MaxRounds == 1 + (MaxJobs - 1) \div (BatchSize - MaxLost)

\* The wait of an accepted row is bounded: however long DMs stay queued and however
\* many rows are handed over meanwhile, an answer about it comes within MaxRounds
\* rounds, one more for each fault (run_once, _load_pending).  It needs fewer
\* unknown DMs than a batch holds, since a 404 keeps a row's place in the order.
WaitIsBounded ==
    \A j \in JobId : Accepted(j) => waited[j] <= MaxRounds + faults

\* Nor does a round that was begun stay without an answer for a row for ever.
EveryRowIsPolled ==
    \A j \in JobId : [](Accepted(j) => <>(waited[j] = 0 \/ ~Accepted(j)))

\* What PseudoGram decided reaches the row, and so /stats, in the end.
OutcomeReachesRow ==
    \A j \in JobId : Accepted(j) /\ fate[j] \in {"delivered", "failed"} ~> ~Accepted(j)
=============================================================================
