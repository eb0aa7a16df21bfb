------------------------- MODULE EventIntakeProofs -------------------------
(***************************************************************************)
(* Safety of EventIntake for every number of events, slots and faults.     *)
(*                                                                         *)
(* What the two properties say of the table must be carried for the table  *)
(* as it is and for the table a rollback would restore, and for the event  *)
(* in process_event it must be said how far create_job has come.           *)
(***************************************************************************)
EXTENDS EventIntake, JobRowProofs, FiniteSetTheorems

Committed == Snapshot.jobs

HasRow(t, s) == \E j \in RowId : t[j].slot = s

\* What holds of a table t of rows, with the events as they are.
TableInv(t) ==
    /\ \A e \in EventId : events[e] = "processed" =>
           \A s \in decided[e] : HasRow(t, s)
    /\ \A e \in EventId : \A j \in RowId :
           /\ events[e] = "processed" /\ content[e].type = "deleted"
           /\ t[j].comment = content[e].comment
           => t[j].status # "queued" \/ j \in claimed
    /\ \A j \in RowId : t[j].status = "absent" => t[j].slot = None
    /\ \A j \in RowId : t[j].status \notin {"absent", "queued", "cancelled"} => j \in claimed

TaskInv ==
    /\ ~up => cur = None /\ batch = {}
    /\ \A e \in batch : events[e] = "processing" /\ e # cur
    /\ cur # None => events[cur] = "processing"
    /\ cur # None => \A s \in decided[cur] \ todo : HasRow(jobs, s)
    /\ todo # {} => content[cur].type = "created" /\ content[cur].comment \notin deleted
    /\ \A e \in EventId : events[e] = "processed" /\ content[e].type = "deleted"
                              => content[e].comment \in deleted

IInv == TypeOK /\ TaskInv /\ TableInv(jobs) /\ TableInv(Committed)

-----------------------------------------------------------------------------
(* The types are kept.                                                     *)

LEMMA SnapshotType == TypeOK => Snapshot \in [jobs : [RowId -> Row], blocked : Nat]
BY DEF TypeOK, Snapshot, NoTxn

\* Outside a transaction, and right after one, what is committed is the table.
LEMMA CommittedIsTable == undo = None => Committed = jobs
BY DEF Committed, Snapshot, NoTxn

LEMMA RowTypes ==
    /\ NoRow \in Row
    /\ \A s \in Slots, c \in Comments \cup {None} : NewRow(s, c) \in Row
    /\ \A row \in Row : Cancel(row) \in Row /\ Claim(row) \in Row /\ Requeue(row) \in Row
    /\ \A row \in Row, st \in Statuses : [row EXCEPT !.status = st] \in Row
<1>1. 0 \in 0 .. MaxDeliveryAttempts
  BY BudgetsArePositive
<1>2. NoRow \in Row
  BY <1>1 DEF Row, NoRow
<1>3. ASSUME NEW s \in Slots, NEW c \in Comments \cup {None} PROVE NewRow(s, c) \in Row
  BY <1>1 DEF Row, NoRow, NewRow, Statuses
<1>4. ASSUME NEW row \in Row, NEW st \in Statuses PROVE [row EXCEPT !.status = st] \in Row
  BY DEF Row
<1>5. ASSUME NEW row \in Row
      PROVE  Cancel(row) \in Row /\ Claim(row) \in Row /\ Requeue(row) \in Row
  BY <1>4 DEF Cancel, Claim, Requeue, Statuses
<1> QED
  BY <1>2, <1>3, <1>4, <1>5

\* What create_job, a cancellation, a claim and a requeue leave of a row.
LEMMA RowFields ==
    /\ \A s, c : /\ NewRow(s, c).slot = s /\ NewRow(s, c).comment = c
                 /\ NewRow(s, c).status = "queued"
    /\ \A row \in Row : /\ Cancel(row).slot = row.slot
                        /\ Cancel(row).comment = row.comment
                        /\ Cancel(row).status = "cancelled"
                        /\ Claim(row).slot = row.slot
                        /\ Claim(row).comment = row.comment
                        /\ Claim(row).status = "sending"
                        /\ Requeue(row).slot = row.slot
                        /\ Requeue(row).comment = row.comment
                        /\ Requeue(row).status = "queued"
BY DEF Row, NoRow, NewRow, Cancel, Claim, Requeue

LEMMA InitIInv == Init => IInv
<1> SUFFICES ASSUME Init PROVE IInv
  OBVIOUS
<1> USE DEF Init
<1>1. TypeOK
  BY RowTypes, IntakeBounds DEF TypeOK
<1>2. TaskInv /\ TableInv(jobs)
  BY DEF TaskInv, TableInv, NoRow
<1> QED
  BY <1>1, <1>2, CommittedIsTable DEF IInv

-----------------------------------------------------------------------------
(* Everyone else.                                                          *)

LEMMA IngestIInv == ASSUME IInv, NEW e \in EventId, Ingest(e) PROVE IInv'
<1> USE DEF IInv, Ingest, rows, task
<1>1. TypeOK'
  BY DEF TypeOK
<1>2. \A d \in EventId : events'[d] = "processed" <=> events[d] = "processed"
  BY DEF TypeOK
<1>3. \A d \in EventId : events[d] = "processing" => events'[d] = "processing"
  BY DEF TypeOK
<1>4. TaskInv'
  BY <1>2, <1>3 DEF TaskInv, HasRow, TypeOK
<1>5. TableInv(jobs)' /\ TableInv(Committed)'
  BY <1>2 DEF TableInv, HasRow, Committed, Snapshot, NoTxn
<1> QED
  BY <1>1, <1>4, <1>5

LEMMA CreateRuleIInv == ASSUME IInv, NEW s \in Slots, CreateRule(s) PROVE IInv'
<1> USE DEF IInv, CreateRule, rows, task
<1>1. TypeOK'
  BY DEF TypeOK
<1>2. TaskInv' /\ TableInv(jobs)' /\ TableInv(Committed)'
  BY DEF TaskInv, TableInv, HasRow, Committed, Snapshot, NoTxn
<1> QED
  BY <1>1, <1>2

\* The DM worker writes a row it holds or takes, and only its status.
LEMMA DMWorkerRow ==
    ASSUME IInv, NEW j \in RowId, DMWorkerMoves(j)
    PROVE  \E row \in Row :
               /\ jobs' = [jobs EXCEPT ![j] = row]
               /\ row.slot = jobs[j].slot /\ row.comment = jobs[j].comment
               /\ jobs[j].status \notin {"absent", "cancelled"}
               /\ row.status \notin {"absent", "cancelled"}
               /\ claimed' = claimed \cup {j}
<1> USE DEF IInv, DMWorkerMoves
<1>1. jobs[j] \in Row
  BY DEF TypeOK
<1>2. CASE jobs[j].status \in CancellableStatuses /\ jobs' = [jobs EXCEPT ![j] = Claim(@)]
           /\ claimed' = claimed \cup {j}
  BY <1>1, <1>2, RowTypes, RowFields DEF CancellableStatuses
<1>3. CASE claimed' = claimed
           /\ \E s \in Handled(jobs[j].status) : jobs' = [jobs EXCEPT ![j].status = s]
  <2>1. PICK s \in Handled(jobs[j].status) : jobs' = [jobs EXCEPT ![j].status = s]
    BY <1>3
  <2>2. /\ jobs[j].status \in {"sending", "accepted"}
        /\ s \in Statuses \ {"cancelled"}
    BY <2>1 DEF Handled, Statuses
  <2>3. [jobs[j] EXCEPT !.status = s] \in Row
    BY <1>1, <2>2, RowTypes
  <2>4. j \in claimed
    BY <2>2 DEF TableInv
  <2>5. s \notin {"absent", "cancelled"}
    BY <2>2 DEF Statuses
  <2> QED
    BY <1>1, <1>3, <2>1, <2>2, <2>3, <2>4, <2>5 DEF Row, TypeOK
<1> QED
  BY <1>2, <1>3

LEMMA DMWorkerMovesIInv ==
    ASSUME IInv, NEW j \in RowId, DMWorkerMoves(j) PROVE IInv'
<1> USE DEF IInv
<1>1. PICK row \in Row :
          /\ jobs' = [jobs EXCEPT ![j] = row]
          /\ row.slot = jobs[j].slot /\ row.comment = jobs[j].comment
          /\ row.status \notin {"absent", "cancelled"}
          /\ claimed' = claimed \cup {j}
  BY DMWorkerRow
<1>2. /\ UNCHANGED <<events, content, active, deleted, blocked, undo, task, decided, up, faults>>
      /\ undo = None /\ jobs \in [RowId -> Row]
  BY DEF DMWorkerMoves, NoTxn, TypeOK
<1>3. TypeOK'
  BY <1>1, <1>2 DEF TypeOK, task
<1>4. \A i \in RowId : /\ jobs'[i].slot = jobs[i].slot
                       /\ jobs'[i].comment = jobs[i].comment
                       /\ i # j => jobs'[i] = jobs[i]
                       /\ i = j => jobs'[i].status # "absent" /\ i \in claimed'
  BY <1>1, <1>2
<1>5. TaskInv'
  BY <1>2, <1>4 DEF TaskInv, HasRow, task
<1>6. TableInv(jobs)'
  BY <1>1, <1>2, <1>4 DEF TableInv, HasRow
<1> QED
  BY <1>2, <1>3, <1>5, <1>6 DEF Committed, Snapshot, NoTxn

-----------------------------------------------------------------------------
(* The event worker.                                                       *)

LEMMA ClaimPendingEventsIInv == ASSUME IInv, ClaimPendingEvents PROVE IInv'
<1> USE DEF IInv, ClaimPendingEvents, rows
<1>1. FirstReceived \subseteq EventId
      /\ \A e \in FirstReceived : events[e] = "received"
  BY DEF FirstReceived, Received
<1>2. TypeOK'
  BY <1>1 DEF TypeOK
<1>3. \A e \in EventId : events'[e] = "processed" <=> events[e] = "processed"
  BY <1>1
<1>4. TaskInv'
  <2>1. None \notin EventId
    BY NoneIsNoValue DEF EventId
  <2> QED
    BY <1>1, <1>3, <2>1 DEF TaskInv, Idle, TypeOK
<1>5. TableInv(jobs)' /\ TableInv(Committed)'
  BY <1>3 DEF TableInv, HasRow, Committed, Snapshot, NoTxn
<1> QED
  BY <1>2, <1>4, <1>5

LEMMA BeginEventIInv == ASSUME IInv, NEW e \in EventId, BeginEvent(e) PROVE IInv'
<1> USE DEF IInv, BeginEvent, rows
<1>1. /\ Matching(content[e]) \subseteq Slots
      /\ Matching(content[e]) # {} => /\ content[e].type = "created"
                                      /\ content[e].comment \notin deleted
  BY DEF Matching, TypeOK
<1>2. TypeOK'
  BY <1>1, NoneIsNoValue DEF TypeOK, Idle, EventId
<1>3. events[e] = "processing"
  BY DEF TaskInv
<1>4. decided'[e] = Matching(content[e]) /\ \A d \in EventId \ {e} : decided'[d] = decided[d]
  BY DEF TypeOK
<1>5. TaskInv'
  BY <1>1, <1>3, <1>4 DEF TaskInv
<1>6. TableInv(jobs)' /\ TableInv(Committed)'
  BY <1>3, <1>4 DEF TableInv, HasRow, Committed, Snapshot, NoTxn
<1> QED
  BY <1>2, <1>5, <1>6

\* A pair still to go through create_job belongs to the event begun.
LEMMA TodoHasEvent ==
    ASSUME IInv, todo # {}
    PROVE  cur \in EventId /\ events[cur] = "processing"
BY DEF IInv, TypeOK, TaskInv

LEMMA InsertJobIInv == ASSUME IInv, NEW s \in Slots, InsertJob(s) PROVE IInv'
<1> USE DEF IInv, InsertJob
<1>0. PICK j \in Absent : jobs' = [jobs EXCEPT ![j] = NewRow(s, content[cur].comment)]
  OBVIOUS
<1>1. cur \in EventId /\ events[cur] = "processing" /\ content[cur].comment \notin deleted
  BY TodoHasEvent DEF TaskInv
<1>2. j \in RowId /\ jobs[j].status = "absent" /\ jobs[j].slot = None
  BY DEF Absent, TableInv
<1>3. /\ jobs'[j] = NewRow(s, content[cur].comment)
      /\ \A i \in RowId \ {j} : jobs'[i] = jobs[i]
  BY <1>0, <1>2 DEF TypeOK
<1>4. TypeOK'
  <2>1. content[cur].comment \in Comments \cup {None}
    BY <1>1, PayloadsAreWellFormed DEF TypeOK, Payload
  <2>2. jobs' \in [RowId -> Row]
    BY <1>0, <1>2, <2>1, RowTypes DEF TypeOK
  <2> QED
    BY <1>1, <2>2, NoneIsNoValue DEF TypeOK, EventId
<1>5. \A t \in Slots : HasRow(jobs, t) => HasRow(jobs, t)'
  BY <1>2, <1>3, NoneIsNoValue DEF HasRow
<1>6. HasRow(jobs, s)'
  BY <1>2, <1>3, RowFields DEF HasRow
<1>7. TaskInv'
  BY <1>1, <1>5, <1>6 DEF TaskInv, TypeOK
<1>8. TableInv(jobs)'
  <2>1. \A e \in EventId : events[e] = "processed" =>
            \A t \in decided[e] : HasRow(jobs, t)'
    BY <1>5 DEF TableInv, TypeOK
  <2>2. \A e \in EventId : events[e] = "processed" /\ content[e].type = "deleted"
            => content[e].comment # content[cur].comment
    BY <1>1 DEF TaskInv
  <2> QED
    BY <1>3, <2>1, <2>2, RowFields DEF TableInv, HasRow
<1>9. TableInv(Committed)'
  <2>1. CASE undo = None
    BY <1>8, <2>1, CommittedIsTable DEF Committed, Snapshot, NoTxn
  <2>2. CASE undo # None
    BY <2>2 DEF TableInv, HasRow, Committed, Snapshot, NoTxn
  <2> QED
    BY <2>1, <2>2
<1> QED
  BY <1>4, <1>7, <1>8, <1>9

LEMMA BlockDuplicateIInv ==
    ASSUME IInv, NEW s \in Slots, BlockDuplicate(s) PROVE IInv'
<1> USE DEF IInv, BlockDuplicate
<1>1. cur \in EventId /\ events[cur] = "processing"
  BY TodoHasEvent
<1>2. undo' \in [jobs : [RowId -> Row], blocked : Nat] /\ undo' # None
  BY SnapshotType, NoneIsNoSnapshot
<1>3. Committed' = Committed
  BY <1>2 DEF Committed, Snapshot, NoTxn
<1>4. TypeOK'
  BY <1>1, <1>2, NoneIsNoValue DEF TypeOK, Counted, EventId
<1>5. HasRow(jobs, s)
  BY DEF Taken, HasRow
<1>6. TaskInv'
  BY <1>5 DEF TaskInv, HasRow
<1>7. TableInv(jobs)' /\ TableInv(Committed)'
  BY <1>3 DEF TableInv, HasRow
<1> QED
  BY <1>4, <1>6, <1>7

LEMMA RecordDeletionIInv == ASSUME IInv, RecordDeletion PROVE IInv'
<1> USE DEF IInv, RecordDeletion, task
<1>1. content[cur].type = "deleted" /\ deleted \subseteq deleted' /\ deleted' \subseteq Comments
  BY DEF Deletes, TypeOK
<1>2. TypeOK'
  BY <1>1 DEF TypeOK
<1>3. TaskInv'
  BY <1>1 DEF TaskInv, HasRow
<1>4. TableInv(jobs)' /\ TableInv(Committed)'
  BY DEF TableInv, HasRow, Committed, Snapshot, NoTxn
<1> QED
  BY <1>2, <1>3, <1>4

LEMMA FinishEventIInv == ASSUME IInv, FinishEvent PROVE IInv'
<1> USE DEF IInv, FinishEvent, LeaveEvent
<1>0. cur \in EventId
  BY DEF TypeOK, Idle
<1>1. \A j \in RowId : /\ jobs'[j] \in Row
                       /\ jobs'[j].slot = jobs[j].slot
                       /\ jobs'[j].comment = jobs[j].comment
                       /\ jobs'[j].status # "cancelled" =>
                              jobs'[j] = jobs[j] /\ j \notin Cancelled(cur)
  BY RowTypes, RowFields DEF CancelJobs, TypeOK
<1>2. \A e \in EventId \ {cur} : events'[e] = events[e]
  BY DEF TypeOK
<1>3. events'[cur] \in Final
  BY <1>0 DEF TypeOK, Outcome, Final
<1>4. TypeOK'
  <2>1. jobs' \in [RowId -> Row]
    BY <1>1 DEF CancelJobs
  <2> QED
    BY <1>0, <1>3, <2>1 DEF TypeOK, Final
<1>5. TaskInv'
  <2>1. batch \subseteq EventId /\ None \notin EventId
    BY NoneIsNoValue DEF TypeOK, EventId
  <2>2. \A e \in batch' : events'[e] = "processing" /\ e # cur'
    BY <1>2, <2>1 DEF TaskInv
  <2>3. \A e \in EventId : events'[e] = "processed" /\ content[e].type = "deleted"
            => content[e].comment \in deleted
    BY <1>2 DEF TaskInv
  <2> QED
    BY <2>2, <2>3 DEF TaskInv
<1>6. TableInv(jobs)'
  <2>1. \A t : HasRow(jobs, t) => HasRow(jobs, t)'
    BY <1>1 DEF HasRow
  <2>2. \A e \in EventId : events'[e] = "processed" =>
            \A t \in decided[e] : HasRow(jobs, t)'
    BY <1>0, <1>2, <2>1, Zenon DEF TableInv, TaskInv, Idle
  <2>3. ASSUME NEW e \in EventId, NEW j \in RowId,
               events'[e] = "processed", content[e].type = "deleted",
               jobs'[j].comment = content[e].comment
        PROVE  jobs'[j].status # "queued" \/ j \in claimed'
    <3>1. CASE e = cur
      BY <1>1, <2>3, <3>1 DEF Cancelled, CancellableStatuses
    <3>2. CASE e # cur
      BY <1>1, <1>2, <2>3, <3>2 DEF TableInv
    <3> QED
      BY <3>1, <3>2
  <2>4. \A j \in RowId :
            /\ jobs'[j].status = "absent" => jobs'[j].slot = None
            /\ jobs'[j].status \notin {"absent", "queued", "cancelled"} => j \in claimed'
    BY <1>1 DEF TableInv
  <2> QED
    BY <2>2, <2>3, <2>4 DEF TableInv, HasRow
<1> QED
  BY <1>4, <1>5, <1>6 DEF Committed, Snapshot, NoTxn

-----------------------------------------------------------------------------
(* Failures.                                                               *)

\* After a rollback the table is what was committed.
LEMMA RollbackTable ==
    ASSUME IInv, Rollback
    PROVE  /\ jobs' = Committed /\ Committed' = Committed
           /\ jobs' \in [RowId -> Row] /\ blocked' \in Nat
BY SnapshotType DEF IInv, Rollback, Committed, Snapshot, NoTxn

\* Leaving an event undecided, with what is committed as the table.
LEMMA AbandonIInv ==
    ASSUME IInv, Rollback, LeaveEvent, batch' \subseteq batch, TypeOK',
           UNCHANGED <<content, decided, claimed>>,
           \A e \in EventId : events'[e] = "processed" <=> events[e] = "processed",
           \A e \in batch' : events'[e] = "processing" /\ e # cur',
           up' = up \/ batch' = {}
    PROVE  IInv'
<1> USE DEF IInv
<1>1. jobs' = Committed /\ Committed' = Committed /\ deleted' = deleted
  BY RollbackTable DEF Rollback
<1>2. TaskInv'
  BY <1>1 DEF TaskInv, LeaveEvent
<1>3. TableInv(jobs)' /\ TableInv(Committed)'
  BY <1>1 DEF TableInv, HasRow
<1> QED
  BY <1>2, <1>3

LEMMA ProcessFailsIInv == ASSUME IInv, ProcessFails PROVE IInv'
<1> USE DEF ProcessFails
<1>0. cur \in EventId /\ events[cur] = "processing"
  BY DEF IInv, TypeOK, TaskInv, Idle
<1>1. TypeOK'
  BY <1>0, RollbackTable, IntakeBounds
     DEF IInv, TypeOK, Rollback, LeaveEvent, AfterFailure, Fault
<1>2. \A e \in EventId : events'[e] = IF e = cur THEN "received" ELSE events[e]
  BY DEF IInv, TypeOK, AfterFailure
<1>3. \A e \in EventId : events'[e] = "processed" <=> events[e] = "processed"
  BY <1>0, <1>2
<1>4. \A e \in batch' : events'[e] = "processing" /\ e # cur'
  <2>1. batch \subseteq EventId /\ None \notin EventId
    BY NoneIsNoValue DEF IInv, TypeOK, EventId
  <2> QED
    BY <1>2, <2>1 DEF IInv, TaskInv, LeaveEvent
<1> QED
  BY <1>1, <1>3, <1>4, AbandonIInv

LEMMA RequeueFailsIInv == ASSUME IInv, RequeueFails PROVE IInv'
<1> USE DEF RequeueFails
<1>1. TypeOK'
  BY RollbackTable, IntakeBounds DEF IInv, TypeOK, Rollback, LeaveEvent, Fault
<1> QED
  BY <1>1, AbandonIInv

LEMMA CrashIInv == ASSUME IInv, Crash PROVE IInv'
<1> USE DEF Crash
<1>1. TypeOK'
  <2>1. jobs' \in [RowId -> Row] /\ blocked' \in Nat /\ up' \in BOOLEAN
    BY RollbackTable
  <2>2. faults' \in 0 .. MaxFaults
    BY IntakeBounds DEF IInv, TypeOK, Fault
  <2> QED
    BY <2>1, <2>2 DEF IInv, TypeOK, Rollback, LeaveEvent
<1> QED
  BY <1>1, AbandonIInv

\* What recover_state makes of the rows.
LEMMA UnclaimedRows ==
    ASSUME IInv, Restart
    PROVE  /\ undo = None /\ undo' = None /\ jobs' \in [RowId -> Row]
           /\ \A j \in RowId :
                  /\ jobs'[j].slot = jobs[j].slot /\ jobs'[j].comment = jobs[j].comment
                  /\ \/ jobs'[j] = jobs[j]
                     \/ /\ jobs[j].status = "sending" /\ jobs'[j].status = "queued"
                        /\ j \in claimed
<1> USE DEF IInv, Restart, Unclaimed
<1>1. undo = None /\ undo' = None /\ jobs \in [RowId -> Row]
  BY DEF TypeOK, TaskInv
<1>2. \A j \in RowId : jobs[j].status = "sending" => j \in claimed
  BY DEF TableInv
<1> QED
  BY <1>1, <1>2, RowTypes, RowFields

LEMMA RestartIInv == ASSUME IInv, Restart PROVE IInv'
<1> USE DEF IInv, Restart, task
<1> DEFINE Kept(j) == /\ jobs'[j].slot = jobs[j].slot /\ jobs'[j].comment = jobs[j].comment
                      /\ \/ jobs'[j] = jobs[j]
                         \/ /\ jobs[j].status = "sending" /\ jobs'[j].status = "queued"
                            /\ j \in claimed
<1>0. undo' = None /\ jobs' \in [RowId -> Row] /\ \A j \in RowId : Kept(j)
  BY UnclaimedRows
<1>1. cur = None /\ batch = {}
  BY DEF TaskInv
<1>2. TypeOK'
  BY <1>0 DEF TypeOK, Recovered
<1>3. \A e \in EventId : events'[e] = "processed" <=> events[e] = "processed"
  BY DEF Recovered, TypeOK
<1>4. TaskInv'
  BY <1>1, <1>3 DEF TaskInv
<1>5. TableInv(jobs)'
  BY <1>0, <1>3 DEF TableInv, HasRow
<1> QED
  BY <1>0, <1>2, <1>4, <1>5 DEF Committed, Snapshot, NoTxn

LEMMA StutterIInv == ASSUME IInv, UNCHANGED vars PROVE IInv'
<1> USE DEF IInv, vars, rows, task
<1>1. TypeOK' /\ TaskInv'
  BY DEF TypeOK, TaskInv, HasRow
<1>2. TableInv(jobs)' /\ TableInv(Committed)'
  BY DEF TableInv, HasRow, Committed, Snapshot, NoTxn
<1> QED
  BY <1>1, <1>2

-----------------------------------------------------------------------------
(* The theorems.                                                           *)

LEMMA NextIInv == IInv /\ [Next]_vars => IInv'
<1>1. ASSUME IInv, Next PROVE IInv'
  <2>1. CASE Others
    BY <1>1, <2>1, CreateRuleIInv, DMWorkerMovesIInv DEF Others
  <2>2. CASE Worker
    BY <1>1, <2>2, ClaimPendingEventsIInv, BeginEventIInv, InsertJobIInv,
       BlockDuplicateIInv, RecordDeletionIInv, FinishEventIInv DEF Worker
  <2>3. CASE Failures
    BY <1>1, <2>3, ProcessFailsIInv, RequeueFailsIInv, RestartIInv DEF Failures
  <2> QED
    BY <1>1, <2>1, <2>2, <2>3, CrashIInv, IngestIInv DEF Next
<1> QED
  BY <1>1, StutterIInv

\* The inductive invariant holds throughout, for the table as it is and for the
\* one a rollback would bring back (process_pending_events).
THEOREM Invariant == Spec => []IInv
BY InitIInv, NextIInv, PTL DEF Spec

\* The types, and that no transaction outlives its event.
THEOREM TypeCorrect == Spec => []TypeOK
<1>1. IInv => TypeOK
  BY DEF IInv
<1> QED
  BY <1>1, Invariant, PTL

\* An event marked processed has its jobs, whatever was rolled back, repeated or
\* interrupted before (process_pending_events, create_job).
THEOREM ProcessedHasJobs == Spec => []ProcessedMeansJob
<1>1. IInv => ProcessedMeansJob
  BY DEF IInv, TableInv, HasRow, ProcessedMeansJob
<1> QED
  BY <1>1, Invariant, PTL

\* A processed deletion leaves no row of its comment waiting for a first claim, in
\* whatever order and however often the events are handled, and whatever claims are
\* released, requeued or retried (_process_comment_deleted, cancel_jobs_for_comment).
THEOREM DeletionIsFinal == Spec => []DeletionCatchesAll
<1>1. IInv => DeletionCatchesAll
  BY DEF IInv, TableInv, DeletionCatchesAll, CancellableStatuses
<1> QED
  BY <1>1, Invariant, PTL

-----------------------------------------------------------------------------
(* The accounts.  `due` is what is owed besides the matching events: nothing  *)
(* here, the credit of repeated deliveries in WebhookIntake.                  *)

RowsMade(t) == {j \in RowId : t[j].status # "absent"}

OwedPairs == {pair \in EventId \X Slots :
                 events[pair[1]] \in Final /\ pair[2] \in decided[pair[1]]}

\* The pairs create_job has dealt with: those of the events decided, and of the
\* event in process_event what is not left to do.
DealtWith == {pair \in EventId \X Slots :
                 /\ pair[2] \in decided[pair[1]]
                 /\ \/ events[pair[1]] \in Final
                    \/ pair[1] = cur /\ pair[2] \notin todo}

TodoIsDecided == cur # None => todo \subseteq decided[cur]

\* As for the table, the books must balance for what a rollback would restore, too.
Books(due) ==
    /\ Cardinality(RowsMade(jobs)) + blocked >= Cardinality(DealtWith) + due
    /\ faults = 0 => Cardinality(RowsMade(jobs)) + blocked = Cardinality(DealtWith) + due
    /\ Cardinality(RowsMade(Committed)) + Snapshot.blocked >= Cardinality(OwedPairs) + due

LEMMA RowsAreCounted ==
    ASSUME NEW t PROVE IsFiniteSet(RowsMade(t)) /\ Cardinality(RowsMade(t)) \in Nat
<1>1. IsFiniteSet(RowId)
  BY FS_Interval, IntakeBounds DEF RowId
<1> QED
  BY <1>1, FS_Subset, FS_CardinalityType DEF RowsMade

LEMMA PairsAreCounted ==
    ASSUME IsFiniteSet(Slots)
    PROVE  /\ IsFiniteSet(DealtWith) /\ Cardinality(DealtWith) \in Nat
           /\ Cardinality(OwedPairs) \in Nat
<1>1. IsFiniteSet(EventId)
  BY FS_Interval, IntakeBounds DEF EventId
<1>2. IsFiniteSet(EventId \X Slots)
  BY <1>1, FS_Product
<1> QED
  BY <1>2, FS_Subset, FS_CardinalityType DEF DealtWith, OwedPairs

LEMMA OwedAreDealtWith ==
    ASSUME IsFiniteSet(Slots) PROVE Cardinality(OwedPairs) <= Cardinality(DealtWith)
<1>1. OwedPairs \subseteq DealtWith
  BY DEF OwedPairs, DealtWith
<1> QED
  BY <1>1, PairsAreCounted, FS_Subset

\* Between two events what is dealt with is what is owed.
LEMMA IdleBooks == ASSUME IInv, Idle PROVE DealtWith = OwedPairs
<1>1. None \notin EventId
  BY NoneIsNoValue DEF EventId
<1> QED
  BY <1>1 DEF DealtWith, OwedPairs, Idle

\* A step that makes no row, deals with no pair and decides no event.
LEMMA QuietBooks ==
    ASSUME NEW due, Books(due), RowsMade(jobs') = RowsMade(jobs), UNCHANGED <<blocked, undo>>,
           DealtWith' = DealtWith, OwedPairs' = OwedPairs, faults' = 0 => faults = 0
    PROVE  Books(due)'
<1>1. RowsMade(Committed)' = RowsMade(Committed) /\ Snapshot.blocked' = Snapshot.blocked
  BY DEF Committed, Snapshot, NoTxn, RowsMade
<1>2. RowsMade(jobs)' = RowsMade(jobs)
  BY DEF RowsMade
<1> QED
  BY <1>1, <1>2 DEF Books

\* The events decided, and the task of the worker, stay.
LEMMA SamePairs ==
    ASSUME UNCHANGED <<decided, cur, todo>>,
           \A e \in EventId : events'[e] \in Final <=> events[e] \in Final
    PROVE  DealtWith' = DealtWith /\ OwedPairs' = OwedPairs
BY DEF DealtWith, OwedPairs

LEMMA OthersBooks ==
    ASSUME IInv, TodoIsDecided, NEW due, Books(due),
           Others \/ \E e \in EventId : Ingest(e)
    PROVE  Books(due)' /\ TodoIsDecided'
<1>1. /\ UNCHANGED <<blocked, undo, decided, cur, todo, faults>>
      /\ \A e \in EventId : events'[e] \in Final <=> events[e] \in Final
  BY DEF Others, CreateRule, DMWorkerMoves, Ingest, rows, task, IInv, TypeOK, Final
<1>2. RowsMade(jobs') = RowsMade(jobs)
  <2>1. CASE jobs' = jobs
    BY <2>1
  <2>2. ASSUME NEW j \in RowId, DMWorkerMoves(j) PROVE RowsMade(jobs') = RowsMade(jobs)
    <3>1. /\ jobs[j].status # "absent" /\ jobs'[j].status # "absent"
          /\ \A i \in RowId \ {j} : jobs'[i] = jobs[i]
      BY <2>2, DMWorkerRow DEF IInv, TypeOK
    <3> QED
      BY <3>1 DEF RowsMade
  <2> QED
    BY <2>1, <2>2 DEF Others, CreateRule, Ingest, rows
<1> QED
  BY <1>1, <1>2, SamePairs, QuietBooks DEF TodoIsDecided

LEMMA InsertBooks ==
    ASSUME IsFiniteSet(Slots), IInv, TodoIsDecided, NEW due \in Nat, Books(due),
           NEW s \in Slots, InsertJob(s)
    PROVE  Books(due)'
<1>1. /\ cur \in EventId /\ s \in decided[cur] /\ events[cur] \notin Final
      /\ s \in todo /\ todo' = todo \ {s}
      /\ UNCHANGED <<events, decided, cur, blocked, undo, faults>>
  BY TodoHasEvent DEF InsertJob, TodoIsDecided, IInv, TypeOK, Final
<1>2. PICK j \in Absent : jobs' = [jobs EXCEPT ![j] = NewRow(s, content[cur].comment)]
  BY DEF InsertJob
<1>3. RowsMade(jobs') = RowsMade(jobs) \cup {j} /\ j \notin RowsMade(jobs)
  BY <1>2, RowFields DEF Absent, RowsMade, IInv, TypeOK
<1>4. DealtWith' = DealtWith \cup {<<cur, s>>} /\ <<cur, s>> \notin DealtWith
  BY <1>1 DEF DealtWith
<1>5. OwedPairs' = OwedPairs
  BY <1>1 DEF OwedPairs
<1>6. Cardinality(RowsMade(jobs')) = Cardinality(RowsMade(jobs)) + 1
  BY <1>3, RowsAreCounted, FS_AddElement
<1>7. Cardinality(DealtWith') = Cardinality(DealtWith) + 1
  BY <1>4, PairsAreCounted, FS_AddElement
<1>8. Cardinality(RowsMade(Committed))' >= Cardinality(RowsMade(Committed))
      /\ Snapshot.blocked' = Snapshot.blocked
  <2>0. RowsMade(Committed)' = RowsMade(Committed')
    BY DEF RowsMade
  <2>1. CASE undo = None
    <3>1. Committed = jobs /\ Committed' = jobs' /\ Snapshot.blocked' = Snapshot.blocked
      BY <1>1, <2>1 DEF Committed, Snapshot, NoTxn
    <3> QED
      BY <1>6, <2>0, <3>1, RowsAreCounted
  <2>2. CASE undo # None
    <3>1. Committed' = Committed /\ Snapshot.blocked' = Snapshot.blocked
      BY <1>1, <2>2 DEF Committed, Snapshot, NoTxn
    <3> QED
      BY <2>0, <3>1, RowsAreCounted
  <2> QED
    BY <2>1, <2>2
<1>9. /\ blocked \in Nat /\ Snapshot.blocked \in Nat
      /\ Cardinality(RowsMade(jobs)) \in Nat /\ Cardinality(DealtWith) \in Nat
      /\ Cardinality(RowsMade(Committed)) \in Nat /\ Cardinality(RowsMade(Committed))' \in Nat
      /\ Cardinality(OwedPairs) \in Nat
      /\ Cardinality(RowsMade(jobs))' = Cardinality(RowsMade(jobs'))
  BY SnapshotType, RowsAreCounted, PairsAreCounted DEF IInv, TypeOK, RowsMade
<1> QED
  BY <1>1, <1>5, <1>6, <1>7, <1>8, <1>9 DEF Books

LEMMA BlockBooks ==
    ASSUME IsFiniteSet(Slots), IInv, TodoIsDecided, NEW due \in Nat, Books(due),
           NEW s \in Slots, BlockDuplicate(s)
    PROVE  Books(due)'
<1>1. /\ cur \in EventId /\ s \in decided[cur] /\ events[cur] \notin Final
      /\ s \in todo /\ todo' = todo \ {s} /\ blocked' = blocked + 1
      /\ UNCHANGED <<events, decided, cur, jobs, faults>>
  BY TodoHasEvent DEF BlockDuplicate, TodoIsDecided, IInv, TypeOK, Final, Counted
<1>2. DealtWith' = DealtWith \cup {<<cur, s>>} /\ <<cur, s>> \notin DealtWith
  BY <1>1 DEF DealtWith
<1>3. Cardinality(DealtWith') = Cardinality(DealtWith) + 1
  BY <1>2, PairsAreCounted, FS_AddElement
<1>4. /\ OwedPairs' = OwedPairs /\ RowsMade(jobs)' = RowsMade(jobs)
  BY <1>1 DEF OwedPairs, RowsMade
<1>5. undo' # None /\ undo' = Snapshot
  BY SnapshotType, NoneIsNoSnapshot DEF BlockDuplicate, IInv
<1>6. Snapshot' = Snapshot
  BY <1>5 DEF Snapshot, NoTxn
<1>7. RowsMade(Committed)' = RowsMade(Committed)
  BY <1>6 DEF Committed, RowsMade
<1>8. /\ blocked \in Nat
      /\ Cardinality(RowsMade(jobs)) \in Nat /\ Cardinality(DealtWith) \in Nat
  BY RowsAreCounted, PairsAreCounted DEF IInv, TypeOK
<1> QED
  BY <1>1, <1>3, <1>4, <1>6, <1>7, <1>8 DEF Books

LEMMA FinishBooks ==
    ASSUME IsFiniteSet(Slots), IInv, NEW due \in Nat, Books(due), FinishEvent
    PROVE  Books(due)'
<1>1. /\ cur \in EventId /\ cur' = None /\ None \notin EventId /\ todo = {} /\ todo' = {}
      /\ UNCHANGED <<decided, blocked, faults>> /\ undo' = None
      /\ \A e \in EventId : events'[e] = IF e = cur THEN Outcome(content[cur]) ELSE events[e]
  BY NoneIsNoValue DEF FinishEvent, LeaveEvent, Idle, IInv, TypeOK, EventId
<1>2. Outcome(content[cur]) \in Final
  BY DEF Outcome, Final
<1>3. DealtWith' = DealtWith /\ OwedPairs' = DealtWith
  BY <1>1, <1>2 DEF DealtWith, OwedPairs
<1>4. RowsMade(jobs') = RowsMade(jobs)
  BY RowFields DEF FinishEvent, CancelJobs, Cancelled, CancellableStatuses, RowsMade,
     IInv, TypeOK
<1>5. Committed' = jobs' /\ Snapshot.blocked' = blocked
  BY <1>1 DEF Committed, Snapshot, NoTxn
<1>6. RowsMade(Committed)' = RowsMade(Committed') /\ RowsMade(jobs)' = RowsMade(jobs')
  BY DEF RowsMade
<1> QED
  BY <1>1, <1>3, <1>4, <1>5, <1>6 DEF Books

\* Quiet steps of the event worker.
LEMMA QuietWorkerBooks ==
    ASSUME IInv, TodoIsDecided, NEW due, Books(due),
           ClaimPendingEvents \/ RecordDeletion \/ Restart \/ \E e \in EventId : BeginEvent(e)
    PROVE  Books(due)' /\ TodoIsDecided'
<1>1. CASE ClaimPendingEvents \/ RecordDeletion \/ Restart
  <2>1. /\ UNCHANGED <<blocked, undo, decided, cur, todo, faults>>
        /\ jobs' = jobs \/ Restart
    BY <1>1 DEF ClaimPendingEvents, RecordDeletion, Restart, rows, task
  <2>2. \A e \in EventId : events'[e] \in Final <=> events[e] \in Final
    BY <1>1 DEF ClaimPendingEvents, RecordDeletion, Restart, FirstReceived, Received,
       Recovered, Final, IInv, TypeOK
  <2>3. RowsMade(jobs') = RowsMade(jobs)
    BY <2>1, UnclaimedRows DEF RowsMade
  <2> QED
    BY <2>1, <2>2, <2>3, SamePairs, QuietBooks DEF TodoIsDecided
<1>2. ASSUME NEW e \in EventId, BeginEvent(e) PROVE Books(due)' /\ TodoIsDecided'
  <2>1. /\ cur = None /\ None \notin EventId /\ cur' = e /\ todo' = decided'[e]
        /\ events' = events /\ events[e] \notin Final
        /\ \A d \in EventId \ {e} : decided'[d] = decided[d]
        /\ UNCHANGED <<jobs, blocked, undo, faults>>
    BY <1>2, NoneIsNoValue DEF BeginEvent, Idle, IInv, TaskInv, TypeOK, EventId, rows, Final
  <2>2. DealtWith' = DealtWith /\ OwedPairs' = OwedPairs
    BY <2>1 DEF DealtWith, OwedPairs
  <2> QED
    BY <2>1, <2>2, QuietBooks DEF TodoIsDecided
<1> QED
  BY <1>1, <1>2

\* A rollback falls back on the committed side of the books.
LEMMA RollbackBooks ==
    ASSUME IInv, NEW due, Books(due), Rollback, LeaveEvent, Fault, UNCHANGED decided,
           \A e \in EventId : events'[e] \in Final <=> events[e] \in Final
    PROVE  Books(due)' /\ TodoIsDecided'
<1>1. /\ jobs' = Committed /\ Committed' = Committed /\ undo' = None
      /\ blocked' = Snapshot.blocked /\ Snapshot.blocked' = Snapshot.blocked
  BY RollbackTable DEF Rollback, Snapshot, NoTxn
<1>2. RowsMade(jobs)' = RowsMade(Committed) /\ RowsMade(Committed)' = RowsMade(Committed)
  BY <1>1 DEF RowsMade
<1>3. OwedPairs' = OwedPairs /\ DealtWith' = OwedPairs
  <2>1. cur' = None /\ None \notin EventId
    BY NoneIsNoValue DEF LeaveEvent, EventId
  <2> QED
    BY <2>1 DEF OwedPairs, DealtWith
<1>4. faults' # 0
  BY IntakeBounds DEF Fault, IInv, TypeOK
<1> QED
  BY <1>1, <1>2, <1>3, <1>4 DEF Books, TodoIsDecided, LeaveEvent

LEMMA FailuresBooks ==
    ASSUME IInv, TodoIsDecided, NEW due, Books(due), Failures \/ Crash
    PROVE  Books(due)' /\ TodoIsDecided'
<1>1. CASE ProcessFails
  <2>1. \A e \in EventId : events'[e] \in Final <=> events[e] \in Final
    BY <1>1 DEF ProcessFails, AfterFailure, Final, IInv, TypeOK, TaskInv, Idle
  <2> QED
    BY <1>1, <2>1, RollbackBooks DEF ProcessFails
<1>2. CASE RequeueFails \/ Crash
  BY <1>2, RollbackBooks DEF RequeueFails, Crash
<1> QED
  BY <1>1, <1>2, QuietWorkerBooks DEF Failures

LEMMA WorkerBooks ==
    ASSUME IsFiniteSet(Slots), IInv, TodoIsDecided, NEW due \in Nat, Books(due), Worker
    PROVE  Books(due)' /\ TodoIsDecided'
<1>1. ASSUME NEW s \in Slots, InsertJob(s) \/ BlockDuplicate(s) PROVE TodoIsDecided'
  BY <1>1 DEF InsertJob, BlockDuplicate, TodoIsDecided
<1>2. CASE FinishEvent
  BY <1>2, FinishBooks DEF FinishEvent, LeaveEvent, TodoIsDecided
<1> QED
  BY <1>1, <1>2, QuietWorkerBooks, InsertBooks, BlockBooks DEF Worker

\* Jobs made and duplicates blocked never fall short of the matching events, and are
\* exactly as many while nothing failed (create_job, process_pending_events).
THEOREM AccountsBalance == ASSUME IsFiniteSet(Slots) PROVE Spec => []AccountingNeverShort
<1> DEFINE AInv == IInv /\ TodoIsDecided /\ Books(0)
<1>1. Init => AInv
  <2> SUFFICES ASSUME Init PROVE TodoIsDecided /\ Books(0)
    BY InitIInv
  <2>1. RowsMade(jobs) = {} /\ RowsMade(Committed) = {} /\ DealtWith = {} /\ OwedPairs = {}
    BY CommittedIsTable DEF Init, NoRow, RowsMade, DealtWith, OwedPairs, Final
  <2>2. blocked = 0 /\ Snapshot.blocked = 0 /\ cur = None
    BY DEF Init, Snapshot, NoTxn
  <2> QED
    BY <2>1, <2>2, FS_EmptySet DEF Books, TodoIsDecided
<1>2. AInv /\ [Next]_vars => AInv'
  <2> SUFFICES ASSUME AInv, [Next]_vars PROVE TodoIsDecided' /\ Books(0)'
    BY NextIInv
  <2>1. CASE UNCHANGED vars
    BY <2>1, SamePairs, QuietBooks DEF vars, rows, task, TodoIsDecided
  <2> QED
    BY <2>1, OthersBooks, WorkerBooks, FailuresBooks DEF Next
<1>3. AInv => AccountingNeverShort
  <2> SUFFICES ASSUME AInv PROVE AccountingNeverShort
    OBVIOUS
  <2>1. Made = Cardinality(RowsMade(jobs)) /\ Owed = Cardinality(OwedPairs)
    BY DEF Made, Owed, RowsMade, OwedPairs
  <2>2. Cardinality(OwedPairs) <= Cardinality(DealtWith)
    BY OwedAreDealtWith
  <2>3. Idle => Cardinality(DealtWith) = Cardinality(OwedPairs)
    BY IdleBooks
  <2>4. /\ blocked \in Nat /\ Cardinality(RowsMade(jobs)) \in Nat
        /\ Cardinality(DealtWith) \in Nat /\ Cardinality(OwedPairs) \in Nat
    BY RowsAreCounted, PairsAreCounted DEF IInv, TypeOK
  <2> QED
    BY <2>1, <2>2, <2>3, <2>4 DEF Books, AccountingNeverShort
<1> QED
  BY <1>1, <1>2, <1>3, PTL DEF Spec

-----------------------------------------------------------------------------
(* What is committed.  An open transaction holds rows of one comment that is  *)
(* not known to be deleted, and nothing else of the table: the commit shows   *)
(* them together, a rollback was never seen.                                  *)

SlotInv ==
    \A i, j \in RowId : i # j /\ HoldsSlot(jobs[i]) /\ HoldsSlot(jobs[j])
                            => jobs[i].slot # jobs[j].slot

Uncommitted == {j \in RowId : jobs[j] # Committed[j]}

TxnInv ==
    /\ undo # None => content[cur].type = "created" /\ content[cur].comment \notin deleted
    /\ \A j \in Uncommitted :
           /\ Committed[j].status = "absent"
           /\ \E s \in Slots : jobs[j] = NewRow(s, content[cur].comment)

LEMMA InitTxnInv == Init => SlotInv /\ TxnInv
<1> SUFFICES ASSUME Init PROVE SlotInv /\ TxnInv
  OBVIOUS
<1>1. undo = None /\ Committed = jobs
  BY CommittedIsTable DEF Init
<1> QED
  BY <1>1 DEF Init, SlotInv, TxnInv, Uncommitted, HoldsSlot, NoRow

\* Outside a transaction everything is committed.
LEMMA NothingOpen == ASSUME undo = None PROVE Uncommitted = {}
BY CommittedIsTable DEF Uncommitted

\* A step that leaves the rows, or at most moves rows that hold their slots.
LEMMA SameHolders ==
    ASSUME SlotInv,
           \A j \in RowId : HoldsSlot(jobs'[j]) => /\ HoldsSlot(jobs[j])
                                                   /\ jobs'[j].slot = jobs[j].slot
    PROVE  SlotInv'
BY DEF SlotInv, HoldsSlot

\* A rollback loses rows, and the slots they held.
LEMMA RollbackTxnInv ==
    ASSUME IInv, SlotInv, TxnInv, Rollback PROVE SlotInv' /\ TxnInv'
<1>1. jobs' = Committed /\ undo' = None
  BY RollbackTable DEF Rollback
<1>2. \A j \in RowId : HoldsSlot(jobs'[j]) => jobs'[j] = jobs[j]
  BY <1>1 DEF TxnInv, Uncommitted, HoldsSlot
<1>3. SlotInv'
  BY <1>2, SameHolders
<1>4. Uncommitted' = {}
  BY <1>1 DEF Uncommitted, Committed, Snapshot, NoTxn
<1> QED
  BY <1>1, <1>3, <1>4 DEF TxnInv

LEMMA OthersTxnInv ==
    ASSUME IInv, SlotInv, TxnInv, Others \/ ClaimPendingEvents \/ RecordDeletion \/ Restart
                                  \/ \E e \in EventId : Ingest(e) \/ BeginEvent(e)
    PROVE  SlotInv' /\ TxnInv'
<1>1. CASE jobs' = jobs /\ undo' = undo /\ content' = content
           /\ (undo # None => cur' = cur /\ deleted' = deleted)
  <2>1. Committed' = Committed
    BY <1>1 DEF Committed, Snapshot, NoTxn
  <2>2. Uncommitted' = Uncommitted
    BY <1>1, <2>1 DEF Uncommitted
  <2>3. undo = None => Uncommitted = {}
    BY NothingOpen
  <2>4. TxnInv'
    BY <1>1, <2>1, <2>2, <2>3 DEF TxnInv
  <2> QED
    BY <1>1, <2>4 DEF SlotInv
<1>2. ASSUME NEW j \in RowId, DMWorkerMoves(j) PROVE SlotInv' /\ TxnInv'
  <2>1. undo' = None /\ Uncommitted' = {}
    BY <1>2 DEF DMWorkerMoves, NoTxn, Uncommitted, Committed, Snapshot
  <2>2. jobs \in [RowId -> Row]
    BY DEF IInv, TypeOK
  <2>3. \A i \in RowId : HoldsSlot(jobs'[i]) => HoldsSlot(jobs[i])
                                                /\ jobs'[i].slot = jobs[i].slot
    BY <1>2, <2>2, DMWorkerRow DEF HoldsSlot
  <2> QED
    BY <2>1, <2>3, SameHolders DEF TxnInv
<1>3. CASE RecordDeletion
  <2>1. undo = None
    BY <1>3 DEF RecordDeletion, Deletes, TxnInv
  <2> QED
    BY <1>1, <1>3, <2>1 DEF RecordDeletion, task
<1>4. CASE ClaimPendingEvents \/ \E e \in EventId : Ingest(e) \/ BeginEvent(e)
  <2>1. jobs' = jobs /\ undo' = undo /\ content' = content /\ deleted' = deleted
    BY <1>4 DEF ClaimPendingEvents, Ingest, BeginEvent, rows
  <2>2. undo # None => cur' = cur
    BY <1>4 DEF ClaimPendingEvents, Ingest, BeginEvent, task, Idle, IInv, TypeOK
  <2> QED
    BY <1>1, <2>1, <2>2
<1>5. ASSUME NEW s \in Slots, CreateRule(s) PROVE SlotInv' /\ TxnInv'
  BY <1>1, <1>5 DEF CreateRule, rows, task
<1>6. CASE Restart
  <2>1. undo' = None /\ Uncommitted' = {}
    BY <1>6, UnclaimedRows DEF Uncommitted, Committed, Snapshot, NoTxn
  <2>2. \A i \in RowId : HoldsSlot(jobs'[i]) => HoldsSlot(jobs[i])
                                                /\ jobs'[i].slot = jobs[i].slot
    BY <1>6, UnclaimedRows DEF HoldsSlot
  <2> QED
    BY <2>1, <2>2, SameHolders DEF TxnInv
<1> QED
  BY <1>2, <1>3, <1>4, <1>5, <1>6 DEF Others

LEMMA InsertTxnInv ==
    ASSUME IInv, SlotInv, TxnInv, NEW s \in Slots, InsertJob(s) PROVE SlotInv' /\ TxnInv'
<1>1. PICK j \in Absent : jobs' = [jobs EXCEPT ![j] = NewRow(s, content[cur].comment)]
  BY DEF InsertJob
<1>2. /\ j \in RowId /\ jobs[j].status = "absent"
      /\ \A i \in RowId : jobs'[i] = IF i = j THEN NewRow(s, content[cur].comment) ELSE jobs[i]
      /\ UNCHANGED <<content, cur, deleted, undo>>
  BY <1>1 DEF InsertJob, Absent, IInv, TypeOK
<1>3. \A i \in RowId : ~(HoldsSlot(jobs[i]) /\ jobs[i].slot = s)
  BY DEF InsertJob, Taken
<1>4. SlotInv'
  BY <1>2, <1>3, RowFields DEF SlotInv, HoldsSlot
<1>5. CASE undo = None
  <2>1. undo' = None /\ Uncommitted' = {}
    BY <1>2, <1>5 DEF Uncommitted, Committed, Snapshot, NoTxn
  <2> QED
    BY <1>4, <2>1 DEF TxnInv
<1>6. CASE undo # None
  <2>1. Committed' = Committed
    BY <1>2, <1>6 DEF Committed, Snapshot, NoTxn
  <2>2. Committed[j].status = "absent"
    BY <1>2 DEF TxnInv, Uncommitted
  <2>3. Uncommitted' \ {j} \subseteq Uncommitted
    BY <1>2, <2>1 DEF Uncommitted
  <2>4. \A i \in Uncommitted' \ {j} :
            /\ Committed[i].status = "absent"
            /\ \E t \in Slots : jobs'[i] = NewRow(t, content[cur].comment)
    BY <1>2, <2>3 DEF TxnInv, Uncommitted
  <2>5. jobs'[j] = NewRow(s, content[cur].comment)
    BY <1>2
  <2>6. undo' # None => content'[cur'].type = "created" /\ content'[cur'].comment \notin deleted'
    BY <1>2 DEF TxnInv
  <2>7. \A i \in Uncommitted' :
            /\ Committed'[i].status = "absent"
            /\ \E t \in Slots : jobs'[i] = NewRow(t, content'[cur'].comment)
    BY <1>2, <2>1, <2>2, <2>4, <2>5
  <2> QED
    BY <1>4, <2>6, <2>7 DEF TxnInv
<1> QED
  BY <1>5, <1>6

LEMMA BlockTxnInv ==
    ASSUME IInv, SlotInv, TxnInv, NEW s \in Slots, BlockDuplicate(s)
    PROVE  SlotInv' /\ TxnInv'
<1>1. /\ content[cur].type = "created" /\ content[cur].comment \notin deleted
      /\ UNCHANGED <<jobs, content, cur, deleted>>
  BY DEF BlockDuplicate, IInv, TaskInv
<1>2. undo' # None /\ Committed' = Committed
  BY SnapshotType, NoneIsNoSnapshot DEF BlockDuplicate, IInv, Committed, Snapshot, NoTxn
<1>3. Uncommitted' = Uncommitted
  BY <1>1, <1>2 DEF Uncommitted
<1> QED
  BY <1>1, <1>2, <1>3 DEF SlotInv, TxnInv

\* The jobs of a comment are cancelled by an event of their own.
LEMMA CancelsOrCommits ==
    ASSUME IInv, TxnInv, FinishEvent
    PROVE  /\ undo' = None /\ Committed' = jobs' /\ deleted' = deleted
           /\ undo # None => jobs' = jobs
<1>1. undo' = None /\ Committed' = jobs' /\ deleted' = deleted
  BY DEF FinishEvent, Committed, Snapshot, NoTxn
<1>2. ASSUME undo # None PROVE jobs' = jobs
  <2>1. Cancelled(cur) = {}
    BY <1>2 DEF TxnInv, Cancelled
  <2> QED
    BY <2>1 DEF FinishEvent, CancelJobs, IInv, TypeOK
<1> QED
  BY <1>1, <1>2

LEMMA FinishTxnInv ==
    ASSUME IInv, SlotInv, TxnInv, FinishEvent PROVE SlotInv' /\ TxnInv'
<1>1. Uncommitted' = {} /\ undo' = None
  BY CancelsOrCommits DEF Uncommitted
<1>2. \A j \in RowId : HoldsSlot(jobs'[j]) => HoldsSlot(jobs[j])
                                              /\ jobs'[j].slot = jobs[j].slot
  BY RowFields DEF FinishEvent, CancelJobs, HoldsSlot, IInv, TypeOK
<1> QED
  BY <1>1, <1>2, SameHolders DEF TxnInv

LEMMA NextTxnInv ==
    ASSUME IInv, SlotInv, TxnInv, [Next]_vars PROVE SlotInv' /\ TxnInv'
<1>1. CASE UNCHANGED vars
  <2>1. Uncommitted' = Uncommitted /\ Committed' = Committed
    BY <1>1 DEF vars, rows, Uncommitted, Committed, Snapshot, NoTxn
  <2> QED
    BY <1>1, <2>1 DEF vars, rows, task, SlotInv, TxnInv
<1>2. CASE ProcessFails \/ RequeueFails \/ Crash
  BY <1>2, RollbackTxnInv DEF ProcessFails, RequeueFails, Crash
<1> QED
  BY <1>1, <1>2, OthersTxnInv, InsertTxnInv, BlockTxnInv, FinishTxnInv
  DEF Next, Worker, Failures

-----------------------------------------------------------------------------
(* The refinement.                                                         *)

IntakeStep == [Intake!Next]_(Intake!ivars)

Entries(t) == [j \in RowId |-> Entry(t[j])]

\* Nothing was committed.
LEMMA NotSeen == ASSUME Committed' = Committed, deleted' = deleted PROVE IntakeStep
BY DEF IntakeStep, Intake!ivars, Committed

LEMMA InitIntake == Init => Intake!Init
<1> SUFFICES ASSUME Init PROVE Intake!Init
  OBVIOUS
<1>1. \A j \in RowId : Entry(Snapshot.jobs[j]) = Intake!Blank
  BY DEF Init, Snapshot, NoTxn, Entry, Stage, NoRow, Intake!Blank
<1> QED
  BY <1>1 DEF Init, Intake!Init

\* A commit that shows new rows of one comment.
LEMMA CommitPosts ==
    ASSUME IInv, SlotInv, NEW J \in SUBSET RowId, NEW c \in (Comments \cup {None}) \ deleted,
           jobs' \in [RowId -> Row], SlotInv', undo' = None, deleted' = deleted,
           \A j \in RowId \ J : jobs'[j] = Committed[j],
           \A j \in J : /\ Committed[j].status = "absent"
                        /\ \E s \in Slots : jobs'[j] = NewRow(s, c)
    PROVE  IntakeStep
<1> DEFINE slot == [j \in J |-> jobs'[j].slot]
           old == Entries(Committed)
           new == Entries(jobs')
<1>1. Committed \in [RowId -> Row] /\ Committed' = jobs'
  BY SnapshotType DEF IInv, Committed, Snapshot, NoTxn
<1>2. \A j \in J : /\ jobs'[j].slot \in Slots /\ HoldsSlot(jobs'[j])
                   /\ new[j] = [stage |-> "waiting", slot |-> slot[j], comment |-> c]
                   /\ old[j].stage = "unposted"
  <2> SUFFICES ASSUME NEW j \in J
               PROVE  /\ jobs'[j].slot \in Slots /\ HoldsSlot(jobs'[j])
                      /\ new[j] = [stage |-> "waiting", slot |-> slot[j], comment |-> c]
                      /\ old[j].stage = "unposted"
    OBVIOUS
  <2>1. PICK s \in Slots : jobs'[j] = NewRow(s, c)
    OBVIOUS
  <2>2. jobs'[j].slot = s /\ jobs'[j].comment = c /\ jobs'[j].status = "queued"
    BY <2>1, RowFields
  <2>3. Stage(jobs'[j]) = "waiting" /\ HoldsSlot(jobs'[j])
    BY <2>2 DEF Stage, HoldsSlot
  <2>4. Stage(Committed[j]) = "unposted"
    BY DEF Stage
  <2> QED
    BY <2>2, <2>3, <2>4 DEF Entries, Entry
<1>3. \A j \in RowId \ J : new[j] = old[j]
  BY DEF Entries
<1>4. slot \in [J -> Slots] /\ \A i, j \in J : slot[i] = slot[j] => i = j
  BY <1>2 DEF SlotInv
<1>5. \A j \in J : \A i \in RowId : old[i].stage \in {"waiting", "taken"} => old[i].slot # slot[j]
  <2> SUFFICES ASSUME NEW j \in J, NEW i \in RowId, old[i].stage \in {"waiting", "taken"}
               PROVE  old[i].slot # slot[j]
    OBVIOUS
  <2>1. i \notin J /\ jobs'[i] = Committed[i]
    BY <1>2
  <2>2. HoldsSlot(jobs'[i])
    BY <1>1, <2>1, StageFacts DEF Entries
  <2>3. jobs'[i].slot # jobs'[j].slot
    BY <1>2, <2>1, <2>2 DEF SlotInv
  <2> QED
    BY <2>1, <2>3 DEF Entries, Entry
<1>6. new = [j \in RowId |-> IF j \in J
                             THEN [stage |-> "waiting", slot |-> slot[j], comment |-> c]
                             ELSE old[j]]
  BY <1>2, <1>3 DEF Entries
<1>7. Intake!Post(J, c)
  <2>1. /\ old = [j \in RowId |-> Entry(Snapshot.jobs[j])]
        /\ new = [j \in RowId |-> Entry(Snapshot.jobs'[j])]
    BY <1>1 DEF Entries, Committed
  <2>2. \A j \in J : Intake!Free(slot[j], RowId)
    BY <1>5, <2>1 DEF Intake!Free, Intake!Posted
  <2>3. \A j \in J : [i \in RowId |-> Entry(Snapshot.jobs[i])][j].stage = "unposted"
    BY <1>2, <2>1
  <2>4. [j \in RowId |-> Entry(Snapshot.jobs[j])]' = new
    BY <2>1
  <2>5. [j \in RowId |-> Entry(Snapshot.jobs[j])]'
            = [j \in RowId |-> IF j \in J
                               THEN [stage |-> "waiting", slot |-> slot[j], comment |-> c]
                               ELSE [i \in RowId |-> Entry(Snapshot.jobs[i])][j]]
    BY <1>6, <2>1, <2>4, Zenon
  <2>6. c \notin deleted /\ UNCHANGED <<deleted, TRUE>>
    OBVIOUS
  <2> HIDE DEF slot
  <2> QED
    BY <1>4, <2>2, <2>3, <2>5, <2>6, Zenon DEF Intake!Post
<1> QED
  BY <1>7 DEF IntakeStep, Intake!Next

LEMMA InsertIntake ==
    ASSUME IInv, SlotInv, TxnInv, NEW s \in Slots, InsertJob(s) PROVE IntakeStep
<1>1. UNCHANGED <<deleted, undo>>
  BY DEF InsertJob
<1>2. CASE undo # None
  BY <1>1, <1>2, NotSeen DEF Committed, Snapshot, NoTxn
<1>3. CASE undo = None
  <2>1. PICK j \in Absent : jobs' = [jobs EXCEPT ![j] = NewRow(s, content[cur].comment)]
    BY DEF InsertJob
  <2>2. IInv' /\ SlotInv'
    BY InsertJobIInv, InsertTxnInv
  <2>3. content[cur].comment \in (Comments \cup {None}) \ deleted
    <3>1. cur \in EventId /\ content[cur].comment \notin deleted
      BY TodoHasEvent DEF InsertJob, IInv, TaskInv
    <3> QED
      BY <3>1, PayloadsAreWellFormed DEF IInv, TypeOK, Payload
  <2>4. /\ {j} \in SUBSET RowId /\ Committed[j].status = "absent"
        /\ \A i \in RowId \ {j} : jobs'[i] = Committed[i]
        /\ jobs'[j] = NewRow(s, content[cur].comment)
    BY <1>3, <2>1, CommittedIsTable DEF Absent, IInv, TypeOK
  <2>5. jobs' \in [RowId -> Row]
    BY <2>2 DEF IInv, TypeOK
  <2> DEFINE J == {j}
  <2>6. /\ J \in SUBSET RowId
        /\ \A i \in RowId \ J : jobs'[i] = Committed[i]
        /\ \A i \in J : /\ Committed[i].status = "absent"
                       /\ \E t \in Slots : jobs'[i] = NewRow(t, content[cur].comment)
    BY <2>4
  <2>7. undo' = None /\ deleted' = deleted
    BY <1>1, <1>3
  <2> HIDE DEF J
  <2> QED
    BY <2>2, <2>3, <2>5, <2>6, <2>7, CommitPosts
<1> QED
  BY <1>2, <1>3

LEMMA FinishIntake == ASSUME IInv, SlotInv, TxnInv, FinishEvent PROVE IntakeStep
<1>0. undo' = None /\ Committed' = jobs' /\ deleted' = deleted
  BY CancelsOrCommits
<1>1. CASE undo # None
  <2>1. jobs' = jobs /\ SlotInv' /\ IInv'
    BY <1>1, CancelsOrCommits, FinishTxnInv, FinishEventIInv
  <2>2. content[cur].comment \in (Comments \cup {None}) \ deleted
    <3>1. cur \in EventId
      BY DEF FinishEvent, Idle, IInv, TypeOK
    <3> QED
      BY <1>1, <3>1, PayloadsAreWellFormed DEF TxnInv, IInv, TypeOK, Payload
  <2>3. jobs' \in [RowId -> Row]
    BY <2>1 DEF IInv, TypeOK
  <2>4. /\ Uncommitted \in SUBSET RowId
        /\ \A j \in RowId \ Uncommitted : jobs'[j] = Committed[j]
        /\ \A j \in Uncommitted : /\ Committed[j].status = "absent"
                                  /\ \E s \in Slots : jobs'[j] = NewRow(s, content[cur].comment)
    BY <2>1 DEF Uncommitted, TxnInv
  <2> QED
    BY <1>0, <2>1, <2>2, <2>3, <2>4, CommitPosts
<1>2. CASE undo = None /\ content[cur].type # "deleted"
  <2>1. jobs' = jobs
    BY <1>2 DEF FinishEvent, CancelJobs, Cancelled, IInv, TypeOK
  <2> QED
    BY <1>0, <1>2, <2>1, NotSeen, CommittedIsTable
<1>3. CASE undo = None /\ content[cur].type = "deleted"
  <2> DEFINE c == content[cur].comment
             old == Entries(jobs)
             new == Entries(jobs')
  <2>1. c \in deleted /\ c \in Comments /\ jobs \in [RowId -> Row] /\ Snapshot.jobs = jobs
    BY <1>3 DEF FinishEvent, Idle, IInv, TypeOK, Snapshot, NoTxn
  <2>2. new = [j \in RowId |-> IF old[j].stage = "waiting" /\ old[j].comment = c
                               THEN [old[j] EXCEPT !.stage = "withdrawn"] ELSE old[j]]
    <3>1. ASSUME NEW j \in RowId
          PROVE  new[j] = IF old[j].stage = "waiting" /\ old[j].comment = c
                          THEN [old[j] EXCEPT !.stage = "withdrawn"] ELSE old[j]
      <4>1. old[j].stage = "waiting" /\ old[j].comment = c <=> j \in Cancelled(cur)
        BY <1>3, <2>1, StageFacts DEF Entries, Cancelled
      <4>2. j \in Cancelled(cur) => Entry(jobs'[j]) = [Entry(jobs[j]) EXCEPT !.stage = "withdrawn"]
        BY <2>1, RowFields DEF FinishEvent, CancelJobs, Entry, Stage
      <4>3. j \notin Cancelled(cur) => jobs'[j] = jobs[j]
        BY <2>1 DEF FinishEvent, CancelJobs
      <4> QED
        BY <4>1, <4>2, <4>3 DEF Entries
    <3> QED
      BY <3>1 DEF Entries
  <2>3. Intake!Withdraw(c)
    BY <1>0, <2>1, <2>2 DEF Intake!Withdraw, Intake!Waits, Intake!At, Entries, Committed
  <2> QED
    BY <2>1, <2>3 DEF IntakeStep, Intake!Next
<1> QED
  BY <1>1, <1>2, <1>3

\* Rows that are taken, put back and moved on, outside a transaction.
LEMMA HandleIntake ==
    ASSUME IInv, undo = None, undo' = None, deleted' = deleted,
           \A j \in RowId :
               \/ jobs'[j] = jobs[j]
               \/ /\ jobs[j].status \notin {"absent", "cancelled"}
                  /\ jobs'[j].status \notin {"absent", "cancelled"}
                  /\ jobs'[j].slot = jobs[j].slot /\ jobs'[j].comment = jobs[j].comment
    PROVE  IntakeStep
<1> DEFINE old == Entries(jobs)
           new == Entries(jobs')
           posted == {i \in RowId : old[i].stage \in {"waiting", "taken"}}
           stage == [i \in posted |-> new[i].stage]
<1>1. Snapshot.jobs = jobs /\ Snapshot.jobs' = jobs' /\ deleted' = deleted
  BY DEF Snapshot, NoTxn
<1>2. ASSUME NEW i \in RowId
      PROVE  IF old[i].stage \in {"waiting", "taken"}
             THEN /\ new[i].stage \in {"waiting", "taken"}
                  /\ new[i] = [old[i] EXCEPT !.stage = new[i].stage]
             ELSE new[i] = old[i]
  <2>1. CASE jobs'[i] = jobs[i]
    BY <2>1 DEF Entries, Entry
  <2>2. CASE /\ jobs[i].status \notin {"absent", "cancelled"}
             /\ jobs'[i].status \notin {"absent", "cancelled"}
             /\ jobs'[i].slot = jobs[i].slot /\ jobs'[i].comment = jobs[i].comment
    <3>1. Stage(jobs[i]) \in {"waiting", "taken"} /\ Stage(jobs'[i]) \in {"waiting", "taken"}
      BY <2>2 DEF Stage
    <3> QED
      BY <2>2, <3>1 DEF Entries, Entry
  <2> QED
    BY <2>1, <2>2
<1>4. stage \in [posted -> {"waiting", "taken"}]
  BY <1>2
<1>5. new = [i \in RowId |-> IF i \in posted THEN [old[i] EXCEPT !.stage = stage[i]]
                             ELSE old[i]]
  <2>1. \A i \in RowId : new[i] = IF i \in posted THEN [old[i] EXCEPT !.stage = stage[i]]
                                  ELSE old[i]
    BY <1>2
  <2> QED
    BY <2>1 DEF Entries
<1>6. Intake!Handle
  <2>1. /\ old = [i \in RowId |-> Entry(Snapshot.jobs[i])]
        /\ new = [i \in RowId |-> Entry(Snapshot.jobs'[i])]
    BY <1>1 DEF Entries
  <2>2. posted = Intake!Posted
    BY <2>1 DEF Intake!Posted
  <2>3. \A i, x : Intake!At(i, x) = [old[i] EXCEPT !.stage = x]
    BY <2>1 DEF Intake!At
  <2>4. [i \in RowId |-> Entry(Snapshot.jobs[i])]' = new
    BY <2>1
  <2>5. new = [i \in RowId |-> IF i \in Intake!Posted THEN Intake!At(i, stage[i])
                               ELSE [h \in RowId |-> Entry(Snapshot.jobs[h])][i]]
    <3> HIDE DEF new, stage, posted
    <3> QED
      BY <1>5, <2>1, <2>2, <2>3
  <2>6. UNCHANGED <<deleted, TRUE>>
    BY <1>1
  <2>7. stage \in [Intake!Posted -> {"waiting", "taken"}]
    BY <1>4, <2>2
  <2> HIDE DEF new, stage
  <2> QED
    BY <2>4, <2>5, <2>6, <2>7, Zenon DEF Intake!Handle
<1> QED
  BY <1>6 DEF IntakeStep, Intake!Next

LEMMA DMWorkerIntake ==
    ASSUME IInv, NEW j \in RowId, DMWorkerMoves(j) PROVE IntakeStep
<1>1. PICK row \in Row :
          /\ jobs' = [jobs EXCEPT ![j] = row]
          /\ row.slot = jobs[j].slot /\ row.comment = jobs[j].comment
          /\ jobs[j].status \notin {"absent", "cancelled"}
          /\ row.status \notin {"absent", "cancelled"}
  BY DMWorkerRow
<1>2. /\ jobs \in [RowId -> Row]
      /\ undo = None /\ undo' = None /\ deleted' = deleted
  BY DEF DMWorkerMoves, NoTxn, IInv, TypeOK
<1>3. \A i \in RowId : jobs'[i] = IF i = j THEN row ELSE jobs[i]
  BY <1>1, <1>2
<1> QED
  BY <1>1, <1>2, <1>3, HandleIntake

LEMMA RestartIntake == ASSUME IInv, Restart PROVE IntakeStep
<1>1. deleted' = deleted
  BY DEF Restart
<1> QED
  BY <1>1, UnclaimedRows, HandleIntake

LEMMA NextIntake == ASSUME IInv, SlotInv, TxnInv, [Next]_vars PROVE IntakeStep
<1>1. CASE RecordDeletion
  <2>1. PICK c \in Comments : deleted' = deleted \cup {c}
    BY <1>1 DEF RecordDeletion
  <2>2. Snapshot.jobs' = Snapshot.jobs
    BY <1>1 DEF RecordDeletion, Snapshot, NoTxn
  <2>3. Intake!Delete(c)
    BY <2>1, <2>2 DEF Intake!Delete
  <2> QED
    BY <2>3 DEF IntakeStep, Intake!Next
<1>2. CASE ProcessFails \/ RequeueFails \/ Crash
  BY <1>2, RollbackTable, NotSeen DEF ProcessFails, RequeueFails, Crash, Rollback
<1>3. CASE \/ ClaimPendingEvents \/ UNCHANGED vars
           \/ \E e \in EventId : Ingest(e) \/ BeginEvent(e)
           \/ \E s \in Slots : CreateRule(s)
  <2>1. UNCHANGED rows
    BY <1>3 DEF ClaimPendingEvents, Ingest, BeginEvent, CreateRule, vars
  <2> QED
    BY <2>1, NotSeen DEF rows, Committed, Snapshot, NoTxn
<1>4. ASSUME NEW s \in Slots, BlockDuplicate(s) PROVE IntakeStep
  <2>1. Committed' = Committed /\ deleted' = deleted
    BY <1>4, SnapshotType, NoneIsNoSnapshot
    DEF BlockDuplicate, IInv, Committed, Snapshot, NoTxn
  <2> QED
    BY <2>1, NotSeen
<1> QED
  BY <1>1, <1>2, <1>3, <1>4, InsertIntake, FinishIntake, DMWorkerIntake, RestartIntake
  DEF Next, Others, Worker, Failures

\* Whatever is committed, by savepoints in the middle of an event or together at its
\* end, is a move of IntakeBoard, for any number of events, rows and faults
\* (process_pending_events, create_job, cancel_jobs_for_comment).
THEOREM IntakeImplementsBoard == Spec => ImplementsIntake
<1>1. IInv /\ SlotInv /\ TxnInv /\ [Next]_vars => (SlotInv /\ TxnInv)' /\ IntakeStep
  BY NextTxnInv, NextIntake
<1> QED
  BY <1>1, InitTxnInv, InitIntake, Invariant, PTL
  DEF ImplementsIntake, Intake!Spec, Spec, IntakeStep

=============================================================================
