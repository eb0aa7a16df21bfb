---------------------------- MODULE EventIntake ----------------------------
(***************************************************************************)
(* The events table and the event worker: a webhook stores an event once,  *)
(* the worker claims a batch, decides each event in arrival order and      *)
(* marks it; crashes, exceptions and a restart in between.                 *)
(*                                                                         *)
(* Transactions are those of SQLite under SQLAlchemy's default driver      *)
(* mode: the release of a savepoint commits when no transaction is open,   *)
(* and the first UPDATE opens one.  `undo` holds what a rollback of the    *)
(* open transaction restores; a writer elsewhere waits until it is closed. *)
(*                                                                         *)
(* An event arrives once here; its deliveries are the subject of           *)
(* WebhookIntake.                                                          *)
(***************************************************************************)
EXTENDS JobRow

CONSTANTS
    MaxEvents,       \* bound: events that arrive
    MaxRows,         \* bound: rows of dm_jobs
    MaxFaults,       \* bound: crashes and exceptions
    BatchSize,       \* limit of claim_pending_events
    RequeueMayFail,  \* the exception handler's own UPDATE may fail
    Payloads         \* what an event may say

ASSUME IntakeBounds ==
    /\ MaxEvents \in Nat /\ MaxRows \in Nat /\ MaxFaults \in Nat
    /\ BatchSize \in Nat \ {0}
    /\ RequeueMayFail \in BOOLEAN

\* `slots` are the (rule, user) pairs of the rules whose keyword is in the text;
\* type "other" stands for every event that is ignored as it is: an unknown
\* type, a creation without a user, a deletion without a comment id.
Payload == [type : {"created", "deleted", "other"},
            comment : Comments \cup {None}, slots : SUBSET Slots]

ASSUME PayloadsAreWellFormed ==
    /\ Payloads \subseteq Payload
    /\ \A p \in Payloads : p.type = "deleted" => p.comment # None

EventId == 1 .. MaxEvents   \* events.id: the order of arrival
RowId   == 1 .. MaxRows

ASSUME NoneIsNoSnapshot == None \notin [jobs : [RowId -> Row], blocked : Nat]

VARIABLES
    events,   \* events.status
    content,  \* what each event says
    active,   \* slots of the active rules
    jobs,     \* dm_jobs
    deleted,  \* deleted_comments
    blocked,  \* counters.duplicates_blocked
    undo,     \* what a rollback restores, None outside a transaction
    batch,    \* event worker: claimed events not begun yet
    cur,      \* event worker: the event in process_event
    todo,     \* event worker: matching rules still to go through create_job
    decided,  \* history: the pairs matched when the event was last begun
    claimed,  \* history: the rows that were ever claimed
    up,       \* the process runs
    faults    \* faults so far

rows == <<jobs, deleted, blocked, undo>>
task == <<batch, cur, todo>>
vars == <<events, content, active, rows, task, decided, claimed, up, faults>>

Final == {"processed", "ignored"}

TypeOK ==
    /\ events \in [EventId -> {"absent", "received", "processing"} \cup Final]
    /\ content \in [EventId -> Payloads]
    /\ active \subseteq Slots
    /\ jobs \in [RowId -> Row]
    /\ deleted \subseteq Comments
    /\ blocked \in Nat
    /\ undo \in [jobs : [RowId -> Row], blocked : Nat] \cup {None}
    /\ cur = None => undo = None /\ todo = {}   \* no transaction between events
    /\ batch \subseteq EventId
    /\ cur \in EventId \cup {None}
    /\ todo \subseteq Slots
    /\ decided \in [EventId -> SUBSET Slots]
    /\ claimed \subseteq RowId
    /\ up \in BOOLEAN
    /\ faults \in 0 .. MaxFaults

Init ==
    /\ events = [e \in EventId |-> "absent"]
    /\ content \in [EventId -> Payloads]
    /\ active = {}
    /\ jobs = [j \in RowId |-> NoRow]
    /\ deleted = {}
    /\ blocked = 0
    /\ undo = None
    /\ batch = {} /\ cur = None /\ todo = {}
    /\ decided = [e \in EventId |-> {}]
    /\ claimed = {}
    /\ up = TRUE
    /\ faults = 0

-----------------------------------------------------------------------------
(* Everyone else: the webhook, the rules endpoint, the DM worker.          *)

Idle  == cur = None
NoTxn == undo = None
Fault == faults < MaxFaults /\ faults' = faults + 1

Ingest(e) ==
    /\ up /\ NoTxn
    /\ events[e] = "absent" /\ \A d \in 1 .. (e - 1) : events[d] # "absent"
    /\ events' = [events EXCEPT ![e] = "received"]
    /\ UNCHANGED <<content, active, rows, task, decided, claimed, up, faults>>

\* POST /rules; a rule is the slots it opens.
CreateRule(s) ==
    /\ up /\ NoTxn
    /\ s \notin active
    /\ active' = active \cup {s}
    /\ UNCHANGED <<events, content, rows, task, decided, claimed, up, faults>>

\* What becomes of a row that was taken: the release of the claim and the sweep of
\* stale ones put it back, the result of the send and the reconciler move it on.
Handled(status) ==
    CASE status = "sending"  -> {"queued", "retry_wait", "accepted", "failed"}
      [] status = "accepted" -> {"retry_wait", "delivered", "failed"}
      [] OTHER               -> {}

\* The DM worker, the sweep and the reconciler as the event worker sees them: each
\* writes the row on the status it has now.  That a result or a release may come
\* too late for that, and write over a cancellation, is the subject of DMQueue.
DMWorkerMoves(j) ==
    /\ up /\ NoTxn
    /\ \/ /\ jobs[j].status \in CancellableStatuses
          /\ jobs' = [jobs EXCEPT ![j] = Claim(@)]
          /\ claimed' = claimed \cup {j}
       \/ /\ \E s \in Handled(jobs[j].status) : jobs' = [jobs EXCEPT ![j].status = s]
          /\ UNCHANGED claimed
    /\ UNCHANGED <<events, content, active, deleted, blocked, undo, task,
                   decided, up, faults>>

-----------------------------------------------------------------------------
(* The event worker.                                                       *)

Received == {e \in EventId : events[e] = "received"}

\* The first BatchSize received events in order of their ids.
FirstReceived ==
    {e \in Received : Cardinality({d \in Received : d < e}) < BatchSize}

ClaimPendingEvents ==
    /\ up /\ Idle /\ batch = {}
    /\ Received # {}
    /\ batch' = FirstReceived
    /\ events' = [e \in EventId |-> IF e \in FirstReceived THEN "processing" ELSE events[e]]
    /\ UNCHANGED <<content, active, rows, cur, todo, decided, claimed, up, faults>>

\* Mutant: the order of deletion and creation is taken for granted.
Matching_Unchecked(p) == IF p.type = "created" THEN p.slots \cap active ELSE {}
\* Mutant: rules that were switched off still match.
Matching_InactiveToo(p) ==
    IF p.type = "created" /\ p.comment \notin deleted THEN p.slots ELSE {}
\* The rules create_job is called for: none once the comment is known deleted.
Matching(p) ==
    IF p.type = "created" /\ p.comment \notin deleted THEN p.slots \cap active ELSE {}

\* process_event begins: what it reads before its first write.
BeginEvent(e) ==
    /\ Idle
    /\ e \in batch /\ \A d \in batch : e <= d
    /\ cur' = e
    /\ batch' = batch \ {e}
    /\ todo' = Matching(content[e])
    /\ decided' = [decided EXCEPT ![e] = Matching(content[e])]
    /\ UNCHANGED <<events, content, active, rows, claimed, up, faults>>

Taken(s) == \E j \in RowId : HoldsSlot(jobs[j]) /\ jobs[j].slot = s

Absent == {j \in RowId : jobs[j].status = "absent"}

\* The rows and the counter as of the last commit.
Snapshot == IF NoTxn THEN [jobs |-> jobs, blocked |-> blocked] ELSE undo

\* Mutant: the counter is read, incremented and written back in Python.
Counted_ReadModifyWrite == Snapshot.blocked + 1
\* counters.increment: value = value + 1, in the database.
Counted == blocked + 1

\* create_job: the insert, committed at once unless a transaction is open.
InsertJob(s) ==
    /\ s \in todo /\ ~Taken(s)
    /\ \E j \in Absent :
           /\ \A i \in Absent : j <= i
           /\ jobs' = [jobs EXCEPT ![j] = NewRow(s, content[cur].comment)]
    /\ todo' = todo \ {s}
    /\ UNCHANGED <<events, content, active, deleted, blocked, undo, batch, cur,
                   decided, claimed, up, faults>>

\* create_job: the unique index refuses the row; the counter's UPDATE leaves a
\* transaction open.
BlockDuplicate(s) ==
    /\ s \in todo /\ Taken(s)
    /\ blocked' = Counted
    /\ undo' = Snapshot
    /\ todo' = todo \ {s}
    /\ UNCHANGED <<events, content, active, jobs, deleted, batch, cur,
                   decided, claimed, up, faults>>

Deletes(e, c) == content[e].type = "deleted" /\ content[e].comment = c

\* _process_comment_deleted: the row of deleted_comments, committed at once.
RecordDeletion ==
    /\ ~Idle
    /\ \E c \in Comments \ deleted :
           Deletes(cur, c) /\ deleted' = deleted \cup {c}
    /\ UNCHANGED <<events, content, active, jobs, blocked, undo, task, decided,
                   claimed, up, faults>>

Cancelled(e) == {j \in RowId : /\ content[e].type = "deleted"
                               /\ jobs[j].comment = content[e].comment
                               /\ jobs[j].status \in CancellableStatuses}

Outcome(p) == IF p.type = "other" \/ (p.type = "created" /\ p.comment \in deleted)
              THEN "ignored" ELSE "processed"

LeaveEvent == cur' = None /\ todo' = {}

\* cancel_jobs_for_comment for a deletion, nothing for any other event.
CancelJobs == [j \in RowId |-> IF j \in Cancelled(cur) THEN Cancel(jobs[j]) ELSE jobs[j]]

\* The end of process_event and the commit after it.
FinishEvent ==
    /\ ~Idle /\ todo = {}
    /\ content[cur].type = "deleted" => content[cur].comment \in deleted
    /\ jobs' = CancelJobs
    /\ events' = [events EXCEPT ![cur] = Outcome(content[cur])]
    /\ undo' = None
    /\ LeaveEvent
    /\ UNCHANGED <<content, active, deleted, blocked, batch, decided, claimed, up, faults>>

\* Mutant: the session is used on without a rollback.
Rollback_Never == UNCHANGED rows
Rollback ==
    /\ jobs' = Snapshot.jobs /\ blocked' = Snapshot.blocked
    /\ undo' = None
    /\ UNCHANGED deleted

\* Mutant: the handler marks the event done.
AfterFailure_Processed == "processed"
\* What the except branch of process_pending_events writes.
AfterFailure == "received"

\* An exception in process_event or its commit.
ProcessFails ==
    /\ ~Idle
    /\ Fault
    /\ Rollback
    /\ events' = [events EXCEPT ![cur] = AfterFailure]
    /\ LeaveEvent
    /\ UNCHANGED <<content, active, batch, decided, claimed, up>>

\* ... and a second one in its handler, which ends the whole batch.
RequeueFails ==
    /\ RequeueMayFail /\ ~Idle
    /\ Fault
    /\ Rollback
    /\ batch' = {}
    /\ LeaveEvent
    /\ UNCHANGED <<events, content, active, decided, claimed, up>>

-----------------------------------------------------------------------------
Crash ==
    /\ up /\ Fault
    /\ up' = FALSE
    /\ Rollback
    /\ batch' = {}
    /\ LeaveEvent
    /\ UNCHANGED <<events, content, active, decided, claimed>>

\* Mutant: the startup forgets the events.
Recovered_Nothing(status) == status
\* requeue_stuck_events.
Recovered(status) == IF status = "processing" THEN "received" ELSE status

\* requeue_stale_sending(stale_seconds=0): every claim belonged to a worker that
\* is gone.
Unclaimed == [j \in RowId |-> IF jobs[j].status = "sending" THEN Requeue(jobs[j]) ELSE jobs[j]]

\* recover_state.
Restart ==
    /\ ~up
    /\ up' = TRUE
    /\ events' = [e \in EventId |-> Recovered(events[e])]
    /\ jobs' = Unclaimed
    /\ UNCHANGED <<content, active, deleted, blocked, undo, task, decided, claimed, faults>>

-----------------------------------------------------------------------------
Others ==
    \/ \E s \in Slots : CreateRule(s)
    \/ \E j \in RowId : DMWorkerMoves(j)

Worker ==
    \/ ClaimPendingEvents
    \/ \E e \in EventId : BeginEvent(e)
    \/ \E s \in Slots : InsertJob(s) \/ BlockDuplicate(s)
    \/ RecordDeletion \/ FinishEvent

Failures == ProcessFails \/ RequeueFails \/ Restart

Next == Others \/ Worker \/ Failures \/ Crash \/ \E e \in EventId : Ingest(e)

Spec == Init /\ [][Next]_vars

-----------------------------------------------------------------------------
(* Safety.                                                                 *)

\* "Processed" is a promise: for every rule the event was matched with there is a
\* row for its (rule, user) pair, whatever was rolled back, refused by the index
\* or done by an earlier, interrupted attempt (process_pending_events).
ProcessedMeansJob ==
    \A e \in EventId : events[e] = "processed" =>
        \A s \in decided[e] : \E j \in RowId : jobs[j].slot = s

\* Creation and deletion of a comment commute: once the deletion is processed no
\* row of that comment waits for its first claim, whichever of the two events came
\* first, failed, or was interrupted and repeated.  A row that was claimed before
\* may wait again: its claim is released, requeued, or its send is retried.
DeletionCatchesAll ==
    \A e \in EventId : \A j \in RowId :
        /\ events[e] = "processed" /\ content[e].type = "deleted"
        /\ jobs[j].comment = content[e].comment
        => (jobs[j].status \in CancellableStatuses => j \in claimed)

Made == Cardinality({j \in RowId : jobs[j].status # "absent"})

\* The unique matching events, once per matching rule.
Owed == Cardinality({pair \in EventId \X Slots :
                         events[pair[1]] \in Final /\ pair[2] \in decided[pair[1]]})

\* dms_created + duplicates_blocked never falls short of the matching events,
\* counted once per rule, and is exactly that many as long as nothing failed:
\* retries may count a pair twice, but none is ever missed.
AccountingNeverShort ==
    /\ Made + blocked >= Owed
    /\ faults = 0 /\ Idle => Made + blocked = Owed

-----------------------------------------------------------------------------
(* The abstract specification.                                             *)

Intake == INSTANCE IntakeBoard WITH
    Job       <- RowId,
    board     <- [j \in RowId |-> Entry(Snapshot.jobs[j])],
    exclusive <- TRUE

\* What is committed, by savepoints in the middle of an event or together at its
\* end, is a move of IntakeBoard, and no rollback takes anything of it back: no
\* row is committed for a comment known to be deleted, none into a slot that is
\* held, and a deletion leaves the rows alone that were taken
\* (process_pending_events, create_job, cancel_jobs_for_comment).
ImplementsIntake == Intake!Spec

-----------------------------------------------------------------------------
(* Liveness.                                                               *)

\* The loop of the event worker goes on, and a process that died is started
\* again.
Fairness == WF_vars(Worker) /\ WF_vars(Restart)

FairSpec == Spec /\ Fairness

\* "Leave it retryable rather than losing it": every stored event is decided in
\* the end, whatever was interrupted (process_pending_events, requeue_stuck_events).
EventsAreDecided ==
    \A e \in EventId : events[e] = "received" ~> events[e] \in Final

=============================================================================
