------------------------------- MODULE JobRow -------------------------------
(***************************************************************************)
(* One row of dm_jobs and the pure transitions of app/services/jobs.py.    *)
(*                                                                         *)
(* Data kept: the status, the (rule_id, user_id) pair as one `slot`, the   *)
(* comment, the two budgets, the DM the row points at and whether          *)
(* next_retry_at is set.  A row's Idempotency-Key is a function of its id  *)
(* and its send_cycle, so within a row the key is the cycle number and     *)
(* dm_id is represented by the key PseudoGram created that DM for.         *)
(* Texts, error strings and the amount of a delay are left out.            *)
(***************************************************************************)
EXTENDS Integers, FiniteSets

CONSTANTS
    Slots,                \* (rule_id, user_id) pairs
    Comments,             \* comment ids
    None,                 \* SQL NULL
    MaxDMAttempts,        \* settings.max_dm_attempts
    MaxDeliveryAttempts   \* settings.max_delivery_attempts

ASSUME NoneIsNoValue ==
    /\ None \notin Nat
    /\ None \notin Slots
    /\ None \notin Comments
ASSUME BudgetsArePositive ==
    /\ MaxDMAttempts \in Nat \ {0}
    /\ MaxDeliveryAttempts \in Nat \ {0}

-----------------------------------------------------------------------------
Statuses == {"queued", "sending", "accepted", "delivered",
             "retry_wait", "failed", "cancelled"}

\* The statuses /stats reports as `queued`.
PendingStatuses == {"queued", "sending", "accepted", "retry_wait"}

\* Mutant: whatever is still pending may be cancelled.
CancellableStatuses_Pending == PendingStatuses
CancellableStatuses == {"queued", "retry_wait"}

FinalStatuses == Statuses \ PendingStatuses

\* The send cycles in which a request can go out, one Idempotency-Key each.
Cycles == 0 .. (MaxDeliveryAttempts - 1)

\* "absent" stands for an id the database has not handed out yet.
Row == [status    : Statuses \cup {"absent"},
        slot      : Slots \cup {None},
        comment   : Comments \cup {None},
        transient : Nat,
        cycle     : 0 .. MaxDeliveryAttempts,
        dmId      : Cycles \cup {None},
        retryAt   : BOOLEAN]

NoRow == [status |-> "absent", slot |-> None, comment |-> None,
          transient |-> 0, cycle |-> 0, dmId |-> None, retryAt |-> FALSE]

\* Mutant: the partial index leaves out delivered rows as well.
HoldsSlot_DeliveredToo(row) == row.status \notin {"absent", "cancelled", "delivered"}
\* uq_dm_jobs_rule_user is partial: WHERE status != 'cancelled'.
HoldsSlot(row) == row.status \notin {"absent", "cancelled"}

\* What the event worker and the DM worker see of each other's work in a row.
Stage(row) ==
    CASE row.status = "absent"                   -> "unposted"
      [] row.status \in {"queued", "retry_wait"} -> "waiting"
      [] row.status = "cancelled"                -> "withdrawn"
      [] OTHER                                   -> "taken"

Entry(row) == [stage |-> Stage(row), slot |-> row.slot, comment |-> row.comment]

NewRow(s, c) == [NoRow EXCEPT !.status = "queued", !.slot = s, !.comment = c]

Cancel(job) == [job EXCEPT !.status = "cancelled"]
Claim(job)  == [job EXCEPT !.status = "sending"]

\* Both the stale-claim sweep and the release of a claim write the status and
\* nothing else: next_retry_at keeps whatever value it had.
Requeue(job) == [job EXCEPT !.status = "queued"]

-----------------------------------------------------------------------------
\* Results of one POST /v1/dm/send as PseudoGramClient.send_dm classifies them.
\* "accepted_no_dm_id" is SendOutcome.ACCEPTED with an empty dm_id.
SendResults == {"accepted", "accepted_no_dm_id", "rate_limited", "auth_error",
                "invalid", "server_error", "transport_error", "unexpected"}

ASSUME NoneIsNoResult == None \notin SendResults

ScheduleRetry(job) == [job EXCEPT !.status = "retry_wait", !.retryAt = TRUE]

GiveUp(job) == [job EXCEPT !.status = "failed", !.retryAt = FALSE]

\* Mutant: one failure more than the budget.
TransientFailure_OffByOne(job) ==
    LET spent == [job EXCEPT !.transient = @ + 1]
    IN  IF spent.transient > MaxDMAttempts THEN GiveUp(spent)
                                           ELSE ScheduleRetry(spent)
TransientFailure(job) ==
    LET spent == [job EXCEPT !.transient = @ + 1]
    IN  IF spent.transient >= MaxDMAttempts THEN GiveUp(spent)
                                            ELSE ScheduleRetry(spent)

\* The row after apply_send_result; `key` is the cycle the request was sent
\* for.  The handler does not look at the status the row has now.
ApplySendResult(job, result, key) ==
    CASE result = "accepted" ->
            [job EXCEPT !.status = "accepted", !.transient = 0,
                        !.dmId = key, !.retryAt = FALSE]
      [] result \in {"rate_limited", "auth_error"} -> ScheduleRetry(job)
      [] result = "invalid" -> GiveUp(job)
      [] OTHER -> TransientFailure(job)

-----------------------------------------------------------------------------
\* The row after apply_delivery_status.  A status that is neither "delivered"
\* nor "failed" only refreshes timestamps.
\* Mutant: the delivery budget is not checked.
ApplyDeliveryStatus_NeverGivesUp(job, answer) ==
    CASE answer = "delivered" -> [job EXCEPT !.status = "delivered", !.retryAt = FALSE]
      [] answer = "failed" ->
            ScheduleRetry([job EXCEPT !.cycle = @ + 1, !.dmId = None, !.transient = 0])
      [] OTHER -> job
\* Mutant: any answer but "failed" is taken for a delivery.
ApplyDeliveryStatus_NotFailed(job, answer) ==
    LET resend == [job EXCEPT !.cycle = @ + 1, !.dmId = None]
    IN  IF answer # "failed" THEN [job EXCEPT !.status = "delivered", !.retryAt = FALSE]
        ELSE IF resend.cycle >= MaxDeliveryAttempts THEN GiveUp(resend)
        ELSE ScheduleRetry([resend EXCEPT !.transient = 0])
\* Mutant: any answer that is not "delivered" is taken for a failure.
ApplyDeliveryStatus_QueuedFails(job, answer) ==
    LET resend == [job EXCEPT !.cycle = @ + 1, !.dmId = None]
    IN  CASE answer = "delivered" -> [job EXCEPT !.status = "delivered", !.retryAt = FALSE]
          [] OTHER -> IF resend.cycle >= MaxDeliveryAttempts THEN GiveUp(resend)
                      ELSE ScheduleRetry([resend EXCEPT !.transient = 0])
ApplyDeliveryStatus(job, answer) ==
    LET resend == [job EXCEPT !.cycle = @ + 1, !.dmId = None]
    IN  CASE answer = "delivered" ->
                [job EXCEPT !.status = "delivered", !.retryAt = FALSE]
          [] answer = "failed" ->
                IF resend.cycle >= MaxDeliveryAttempts
                THEN GiveUp(resend)
                ELSE ScheduleRetry([resend EXCEPT !.transient = 0])
          [] OTHER -> job
=============================================================================
