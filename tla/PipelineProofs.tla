--------------------------- MODULE PipelineProofs ---------------------------
(***************************************************************************)
(* The pipeline implements DMQueue, and its own safety, for every value of *)
(* the constants.                                                          *)
(*                                                                         *)
(* The invariant says how the two sides see one table: what is committed,  *)
(* what an open transaction adds to it (TxnInv), how far the event worker  *)
(* has come (TaskInv), which event a row goes back to (AskInv), which rows *)
(* a processed event has (DoneInv) and which have been claimed (ClaimedInv).*)
(***************************************************************************)
EXTENDS Pipeline, DMQueueProofs

HasRow(t, s) == \E j \in JobId : t[j].status # "absent" /\ t[j].slot = s

\* The event in process_event, if it has begun to write.
Asking == content[cur].type = "created" /\ content[cur].comment \notin deleted

TaskInv ==
    /\ mode = "down" => cur = None /\ batch = {}
    /\ \A e \in batch : events[e] = "processing" /\ e # cur
    /\ cur # None =>
           /\ events[cur] = "processing"
           /\ \A s \in decided[cur] \ todo : HasRow(view, s)
           /\ todo \subseteq content[cur].slots \cap active
    /\ todo # {} => Asking
    /\ \A c \in Comments : Deletion(c) => c \in deleted

NoGaps(t) == \A j \in JobId : t[j].status # "absent" =>
                 \A i \in 1 .. (j - 1) : t[i].status # "absent"

\* What the event worker sees and nobody else does are rows of one comment, not
\* known to be deleted.  Ids leave no gap and slots are held once, in its view too.
TxnInv ==
    /\ jobs = IF undo = None THEN view ELSE undo.jobs
    /\ undo # None => Asking
    /\ \A j \in JobId : view[j] # jobs[j] =>
           /\ ~Exists(j)
           /\ \E s \in Slots : view[j] = NewRow(s, content[cur].comment)
    /\ \A i, j \in JobId :
           HoldsSlot(view[i]) /\ HoldsSlot(view[j]) /\ view[i].slot = view[j].slot => i = j
    /\ NoGaps(view) /\ NoGaps(jobs)

AskedFor(row) ==
    \E e \in I!EventId :
        /\ events[e] # "absent" /\ content[e].type = "created"
        /\ content[e].comment = row.comment
        /\ row.slot \in content[e].slots \cap active

AskInv == \A j \in JobId : view[j].status # "absent" => AskedFor(view[j])

DoneInv == \A e \in I!EventId : events[e] = "processed" =>
               \A s \in decided[e] : HasRow(jobs, s)

\* A row that is neither untouched nor cancelled was claimed, and so was the one the
\* worker has; after a deletion only such a row may be queued (again).
ClaimedInv ==
    /\ \A j \in JobId : jobs[j].status \notin {"absent", "queued", "cancelled"} => j \in claimed
    /\ wJob # None => wJob \in claimed
    /\ \A j \in JobId : jobs[j].status = "queued" /\ Deletion(jobs[j].comment) => j \in claimed

PInv == I!TypeOK /\ TaskInv /\ TxnInv /\ AskInv /\ DoneInv /\ ClaimedInv

-----------------------------------------------------------------------------
(* The table and its two views.                                            *)

LEMMA EventIds ==
    /\ None \notin I!EventId
    /\ I!RowId = JobId
    /\ JobId \subseteq Nat
BY NoneIsNoValue DEF I!EventId, I!RowId, JobId

\* Both sides mean the same by a row.
LEMMA SameRows ==
    /\ I!Row = Row
    /\ I!NoRow = NoRow
    /\ \A s, c : I!NewRow(s, c) = NewRow(s, c)
    /\ \A row : I!Cancel(row) = Cancel(row) /\ (I!HoldsSlot(row) <=> HoldsSlot(row))
    /\ I!CancellableStatuses = CancellableStatuses
<1>1. I!Row = Row
  BY DEF I!Row, Row, I!Statuses, Statuses, I!Cycles, Cycles
<1>2. I!NoRow = NoRow
  BY DEF I!NoRow, NoRow
<1>3. ASSUME NEW t, NEW c PROVE I!NewRow(t, c) = NewRow(t, c)
  BY <1>2 DEF I!NewRow, NewRow
<1>4. ASSUME NEW row
      PROVE  I!Cancel(row) = Cancel(row) /\ (I!HoldsSlot(row) <=> HoldsSlot(row))
  BY DEF I!Cancel, Cancel, I!HoldsSlot, HoldsSlot
<1>5. I!CancellableStatuses = CancellableStatuses
  BY DEF I!CancellableStatuses, CancellableStatuses
<1> QED
  BY <1>1, <1>2, <1>3, <1>4, <1>5

\* What a rollback restores is what is committed.
LEMMA SnapshotIsCommitted ==
    ASSUME PInv
    PROVE  /\ I!Snapshot.jobs = jobs
           /\ I!Snapshot \in [jobs : [JobId -> Row], blocked : Nat]
           /\ I!Snapshot # None
           /\ jobs \in [JobId -> Row] /\ view \in [JobId -> Row]
           /\ undo = None => view = jobs
BY EventIds, SameRows, PipelinePayloads DEF PInv, TxnInv, I!Snapshot, I!NoTxn, I!TypeOK

\* What exists is seen alike by everyone.
LEMMA CommittedIsSeen ==
    ASSUME PInv, NEW j \in JobId, Exists(j)
    PROVE  view[j] = jobs[j]
BY DEF PInv, TxnInv

\* A deletion names its comment, and the comment is known to be deleted.
LEMMA DeletedIsKnown == ASSUME PInv, NEW c, Deletion(c) PROVE c \in deleted
<1>1. PICK e \in I!EventId : content[e].type = "deleted" /\ content[e].comment = c
  BY DEF Deletion
<1>2. content[e] \in Payloads
  BY <1>1 DEF PInv, I!TypeOK
<1>3. c \in Comments
  BY <1>1, <1>2, PipelinePayloads DEF I!Payload
<1> QED
  BY <1>3 DEF PInv, TaskInv

LEMMA InitPInv == PInit => IInv /\ PInv
<1> SUFFICES ASSUME PInit PROVE IInv /\ PInv
  OBVIOUS
<1> USE DEF PInit, I!Init
<1>1. IInv
  BY InitIInv
<1>2. /\ view = [j \in JobId |-> NoRow] /\ jobs = view /\ undo = None
      /\ NoRow \in Row /\ NoRow.status = "absent" /\ mode = "up" /\ wJob = None
  BY EventIds, SameRows, CyclesAreInts, BudgetsArePositive DEF Init, NoRow, Row, Statuses
<1>3. I!TypeOK
  BY <1>2, EventIds, SameRows, BoundsAreNumbers DEF I!TypeOK, Init
<1>4. TaskInv /\ DoneInv /\ ClaimedInv
  BY <1>2 DEF TaskInv, DoneInv, ClaimedInv, Deletion
<1>5. TxnInv /\ AskInv
  BY <1>2 DEF TxnInv, NoGaps, AskInv, HoldsSlot
<1> QED
  BY <1>1, <1>3, <1>4, <1>5 DEF PInv

-----------------------------------------------------------------------------
(* Steps of the intake that leave the table alone.                         *)

IntakeFrame ==
    /\ jobs' = I!Snapshot.jobs'
    /\ UNCHANGED <<provider, worker, recon, process, claimed>>

\* The rows, and what is uncommitted of them, stay.
LEMMA QuietTable ==
    ASSUME PInv, IntakeFrame, UNCHANGED <<view, undo, blocked, content>>,
           undo # None => UNCHANGED <<cur, deleted>>
    PROVE  jobs' = jobs /\ TxnInv'
<1>1. jobs' = jobs
  BY SnapshotIsCommitted DEF IntakeFrame, I!Snapshot, I!NoTxn
<1> QED
  BY <1>1 DEF PInv, TxnInv, NoGaps, Asking, Exists

\* No event is decided.
LEMMA QuietEvents ==
    ASSUME PInv, IntakeFrame, UNCHANGED <<jobs, view, content>>, active \subseteq active',
           \A e \in I!EventId :
              /\ events'[e] = "processed" <=> events[e] = "processed"
              /\ events[e] # "absent" => events'[e] # "absent"
              /\ events[e] = "processed" => decided'[e] = decided[e]
    PROVE  /\ AskInv' /\ DoneInv' /\ ClaimedInv'
           /\ \A c \in Comments : Deletion(c)' <=> Deletion(c)
<1>1. \A c : Deletion(c)' <=> Deletion(c)
  BY DEF Deletion
<1>2. AskInv'
  BY DEF PInv, AskInv, AskedFor
<1>3. DoneInv'
  BY DEF PInv, DoneInv, HasRow
<1>4. ClaimedInv'
  BY <1>1 DEF PInv, ClaimedInv, IntakeFrame, worker
<1> QED
  BY <1>1, <1>2, <1>3, <1>4

LEMMA IngestStep ==
    ASSUME PInv, IntakeFrame, NEW e \in I!EventId, I!Ingest(e)
    PROVE  PInv' /\ UNCHANGED table
<1> USE DEF I!Ingest, I!rows, I!task
<1>1. I!TypeOK'
  BY DEF PInv, I!TypeOK
<1>2. \A d \in I!EventId : /\ events'[d] = "processed" <=> events[d] = "processed"
                           /\ events[d] = "processing" => events'[d] = "processing"
                           /\ events[d] # "absent" => events'[d] # "absent"
  BY DEF PInv, I!TypeOK
<1>3. jobs' = jobs /\ TxnInv'
  BY QuietTable
<1>4. /\ AskInv' /\ DoneInv' /\ ClaimedInv'
      /\ \A c \in Comments : Deletion(c)' <=> Deletion(c)
  BY <1>2, <1>3, QuietEvents
<1>5. TaskInv'
  BY <1>2, <1>4 DEF PInv, TaskInv, HasRow, Asking, I!TypeOK, IntakeFrame, process
<1> QED
  BY <1>1, <1>3, <1>4, <1>5 DEF PInv, table

LEMMA CreateRuleStep ==
    ASSUME PInv, IntakeFrame, NEW s \in Slots, I!CreateRule(s)
    PROVE  PInv' /\ UNCHANGED table
<1> USE DEF I!CreateRule, I!rows, I!task
<1>1. I!TypeOK'
  BY DEF PInv, I!TypeOK
<1>2. jobs' = jobs /\ TxnInv'
  BY QuietTable
<1>3. /\ AskInv' /\ DoneInv' /\ ClaimedInv'
      /\ \A c \in Comments : Deletion(c)' <=> Deletion(c)
  BY <1>2, QuietEvents
<1>4. TaskInv'
  BY <1>3 DEF PInv, TaskInv, HasRow, Asking, IntakeFrame, process
<1> QED
  BY <1>1, <1>2, <1>3, <1>4 DEF PInv, table

LEMMA ClaimEventsStep ==
    ASSUME PInv, IntakeFrame, I!ClaimPendingEvents
    PROVE  PInv' /\ UNCHANGED table
<1> USE DEF I!ClaimPendingEvents, I!rows
<1>1. I!FirstReceived \subseteq I!EventId
      /\ \A e \in I!FirstReceived : events[e] = "received"
  BY DEF I!FirstReceived, I!Received
<1>2. I!TypeOK'
  BY <1>1 DEF PInv, I!TypeOK
<1>3. \A e \in I!EventId : /\ events'[e] = "processed" <=> events[e] = "processed"
                           /\ events[e] # "absent" => events'[e] # "absent"
  BY <1>1
<1>4. jobs' = jobs /\ TxnInv'
  BY QuietTable
<1>5. /\ AskInv' /\ DoneInv' /\ ClaimedInv'
      /\ \A c \in Comments : Deletion(c)' <=> Deletion(c)
  BY <1>3, <1>4, QuietEvents
<1>6. TaskInv'
  BY <1>1, <1>5, EventIds DEF PInv, TaskInv, I!TypeOK, I!Idle, Asking, IntakeFrame, process
<1> QED
  BY <1>2, <1>4, <1>5, <1>6 DEF PInv, table

LEMMA BeginEventStep ==
    ASSUME PInv, IntakeFrame, NEW e \in I!EventId, I!BeginEvent(e)
    PROVE  PInv' /\ UNCHANGED table
<1> USE DEF I!BeginEvent, I!rows
<1>1. /\ I!Matching(content[e]) \subseteq content[e].slots \cap active
      /\ I!Matching(content[e]) # {} => /\ content[e].type = "created"
                                        /\ content[e].comment \notin deleted
  BY DEF I!Matching
<1>2. /\ events[e] = "processing" /\ undo = None /\ e # None
      /\ decided'[e] = I!Matching(content[e])
      /\ \A d \in I!EventId \ {e} : decided'[d] = decided[d]
  BY EventIds DEF PInv, TaskInv, I!TypeOK, I!Idle
<1>3. I!TypeOK'
  BY <1>1, <1>2 DEF PInv, I!TypeOK
<1>4. jobs' = jobs /\ TxnInv'
  BY <1>2, QuietTable
<1>5. /\ AskInv' /\ DoneInv' /\ ClaimedInv'
      /\ \A c \in Comments : Deletion(c)' <=> Deletion(c)
  BY <1>2, <1>4, QuietEvents
<1>6. TaskInv'
  BY <1>1, <1>2, <1>5 DEF PInv, TaskInv, Asking, IntakeFrame, process
<1> QED
  BY <1>3, <1>4, <1>5, <1>6 DEF PInv, table

LEMMA BlockDuplicateStep ==
    ASSUME PInv, IntakeFrame, NEW s \in Slots, I!BlockDuplicate(s)
    PROVE  PInv' /\ UNCHANGED table
<1> USE DEF I!BlockDuplicate
<1>1. cur \in I!EventId /\ Asking
  BY DEF PInv, I!TypeOK, TaskInv
<1>2. undo' = I!Snapshot /\ undo' # None /\ undo'.jobs = jobs
      /\ undo' \in [jobs : [JobId -> Row], blocked : Nat]
  BY SnapshotIsCommitted
<1>3. I!TypeOK'
  BY <1>1, <1>2, EventIds, SameRows DEF PInv, I!TypeOK, I!Counted
<1>4. jobs' = jobs
  BY <1>2 DEF IntakeFrame, I!Snapshot, I!NoTxn
<1>5. TxnInv'
  BY <1>1, <1>2, <1>4 DEF PInv, TxnInv, NoGaps, Asking, Exists
<1>6. /\ AskInv' /\ DoneInv' /\ ClaimedInv'
      /\ \A c \in Comments : Deletion(c)' <=> Deletion(c)
  BY <1>4, QuietEvents
<1>7. HasRow(view, s)
  BY EventIds, SameRows DEF I!Taken, HasRow, HoldsSlot
<1>8. TaskInv'
  BY <1>1, <1>6, <1>7 DEF PInv, TaskInv, HasRow, Asking, IntakeFrame, process
<1> QED
  BY <1>3, <1>4, <1>5, <1>6, <1>8 DEF PInv, table

\* The commit of a deletion, while no transaction is open.
LEMMA RecordDeletionMoves ==
    ASSUME PInv, IntakeFrame, I!RecordDeletion
    PROVE  PInv' /\ \E c \in Comments : RecordDeletion(c)
<1> USE DEF I!RecordDeletion, I!task
<1>1. PICK c \in Comments \ deleted :
          content[cur].type = "deleted" /\ deleted' = deleted \cup {c}
  BY DEF I!Deletes
<1>2. cur # None /\ mode # "down" /\ undo = None
  BY <1>1 DEF PInv, TaskInv, TxnInv, Asking, I!Idle
<1>3. jobs' = jobs /\ TxnInv'
  BY <1>2, QuietTable
<1>4. RecordDeletion(c)
  BY <1>1, <1>2, <1>3 DEF RecordDeletion, IntakeFrame
<1>5. I!TypeOK'
  BY <1>1 DEF PInv, I!TypeOK
<1>6. /\ AskInv' /\ DoneInv' /\ ClaimedInv'
      /\ \A d \in Comments : Deletion(d)' <=> Deletion(d)
  BY <1>3, QuietEvents
<1>7. TaskInv'
  BY <1>1, <1>6 DEF PInv, TaskInv, HasRow, Asking, IntakeFrame, process
<1> QED
  BY <1>3, <1>4, <1>5, <1>6, <1>7 DEF PInv

-----------------------------------------------------------------------------
(* Steps of the intake that write the table.                               *)

\* create_job, committed at once or in an open transaction.
LEMMA InsertJobStep ==
    ASSUME IInv, PInv, IntakeFrame, NEW s \in Slots, I!InsertJob(s)
    PROVE  PInv' /\ (UNCHANGED table \/ \E J \in SUBSET JobId, c \in Origins :
                                            J # {} /\ CreateJobs(J, c))
<1> DEFINE c == content[cur].comment
<1>1. /\ cur \in I!EventId /\ Asking /\ mode # "down" /\ events[cur] = "processing"
      /\ s \in content[cur].slots \cap active /\ content[cur] \in Payloads
      /\ c \in Origins
  <2>1. /\ cur \in I!EventId /\ Asking /\ mode # "down" /\ events[cur] = "processing"
        /\ s \in content[cur].slots \cap active
    BY DEF PInv, I!TypeOK, TaskInv, I!InsertJob
  <2>2. content[cur] \in Payloads
    BY <2>1 DEF PInv, I!TypeOK
  <2> QED
    BY <2>1, <2>2, PipelinePayloads DEF Asking
<1>2. PICK j \in JobId :
          /\ view[j].status = "absent"
          /\ \A i \in JobId : view[i].status = "absent" => j <= i
          /\ view' = [view EXCEPT ![j] = NewRow(s, c)]
  BY EventIds, SameRows DEF I!InsertJob, I!Absent
<1>3. /\ NewRow(s, c) \in Row /\ NewRow(s, c).status = "queued"
      /\ NewRow(s, c).slot = s /\ NewRow(s, c).comment = c
      /\ view \in [JobId -> Row] /\ jobs \in [JobId -> Row]
  BY <1>1, OriginsAreComments, NewRowFacts, SnapshotIsCommitted
<1>4. /\ view'[j] = NewRow(s, c) /\ \A i \in JobId \ {j} : view'[i] = view[i]
      /\ view' \in [JobId -> Row]
      /\ UNCHANGED <<events, content, active, deleted, blocked, undo, batch, cur, decided>>
      /\ todo' = todo \ {s}
  BY <1>2, <1>3 DEF I!InsertJob
<1>5. \A i \in JobId : ~(HoldsSlot(view[i]) /\ view[i].slot = s)
  BY EventIds, SameRows DEF I!InsertJob, I!Taken
<1>6. ~Exists(j) /\ \A i \in 1 .. (j - 1) : view[i].status # "absent"
  <2>1. ~Exists(j)
    BY <1>2, CommittedIsSeen DEF Exists
  <2>2. \A i \in 1 .. (j - 1) : i \in JobId /\ ~(j <= i)
    BY BoundsAreNumbers DEF JobId
  <2> QED
    BY <1>2, <2>1, <2>2
<1>7. jobs' = IF undo = None THEN view' ELSE jobs
  BY <1>4, SnapshotIsCommitted DEF PInv, TxnInv, IntakeFrame, I!Snapshot, I!NoTxn
<1>8. I!TypeOK'
  <2>1. ifaults' = ifaults /\ claimed' = claimed
    BY DEF I!InsertJob
  <2> QED
    BY <1>1, <1>4, <2>1, EventIds, SameRows DEF PInv, I!TypeOK
<1>9. TxnInv'
  <2>1. jobs' = IF undo' = None THEN view' ELSE undo'.jobs
    BY <1>4, <1>7 DEF PInv, TxnInv
  <2>2. undo' # None => Asking'
    BY <1>1, <1>4 DEF Asking
  <2>3. ASSUME NEW i \in JobId, view'[i] # jobs'[i]
        PROVE  jobs'[i].status = "absent" /\ \E t \in Slots : view'[i] = NewRow(t, c)
    <3>1. undo # None /\ jobs' = jobs
      BY <1>7, <2>3
    <3>2. CASE i = j
      BY <1>4, <1>6, <3>1, <3>2 DEF Exists
    <3>3. CASE i # j
      BY <1>4, <2>3, <3>1, <3>3 DEF PInv, TxnInv, Exists
    <3> QED
      BY <3>2, <3>3
  <2>4. \A h, i \in JobId :
            HoldsSlot(view'[h]) /\ HoldsSlot(view'[i]) /\ view'[h].slot = view'[i].slot => h = i
    BY <1>3, <1>4, <1>5 DEF PInv, TxnInv
  <2>5. NoGaps(view')
    <3>1. \A i \in JobId : 1 .. (i - 1) \subseteq JobId
      BY BoundsAreNumbers DEF JobId
    <3> QED
      BY <1>3, <1>4, <1>6, <3>1 DEF PInv, TxnInv, NoGaps
  <2>6. NoGaps(jobs')
    BY <1>7, <2>5 DEF PInv, TxnInv
  <2> QED
    BY <1>4, <2>1, <2>2, <2>3, <2>4, <2>5, <2>6 DEF TxnInv, NoGaps, Exists
<1>10. \A t : HasRow(view, t) => HasRow(view', t)
  BY <1>2, <1>4 DEF HasRow
<1>11. HasRow(view', s)
  BY <1>3, <1>4 DEF HasRow
<1>12. \A i \in JobId : Exists(i) => jobs'[i] = jobs[i]
  BY <1>4, <1>6, <1>7, CommittedIsSeen
<1>13. \A d : Deletion(d)' <=> Deletion(d)
  BY <1>4 DEF Deletion
<1>14. TaskInv'
  BY <1>1, <1>4, <1>10, <1>11, <1>13 DEF PInv, TaskInv, Asking, HasRow, IntakeFrame, process
<1>15. AskInv'
  <2>1. AskedFor(NewRow(s, c))
    BY <1>1, <1>3 DEF AskedFor, Asking
  <2> QED
    BY <1>4, <2>1 DEF PInv, AskInv, AskedFor
<1>16. DoneInv'
  BY <1>4, <1>12 DEF PInv, DoneInv, HasRow, Exists
<1>17. ClaimedInv'
  <2>1. UNCHANGED <<wJob, claimed>>
    BY DEF IntakeFrame, worker
  <2>2. ~Deletion(c)
    BY <1>1, DeletedIsKnown DEF Asking
  <2>3. \A i \in JobId : jobs'[i] = jobs[i] \/ jobs'[i] = NewRow(s, c)
    BY <1>4, <1>7, SnapshotIsCommitted
  <2> QED
    BY <1>3, <1>13, <2>1, <2>2, <2>3 DEF PInv, ClaimedInv
<1>18. CASE undo = None
  <2>1. jobs' = [i \in JobId |-> IF i \in {j} THEN NewRow(s, c) ELSE jobs[i]]
    BY <1>2, <1>3, <1>7, <1>18, SnapshotIsCommitted
  <2>2. ~Conflict(j, NewRow(s, c))
    BY <1>3, <1>5, <1>18, SnapshotIsCommitted DEF Conflict
  <2>3. \A i \in 1 .. (j - 1) : Exists(i)
    BY <1>6, <1>18, SnapshotIsCommitted DEF Exists
  <2> DEFINE slot == [i \in {j} |-> s]
  <2>4. slot \in [{j} -> Slots] /\ slot[j] = s
    OBVIOUS
  <2>5. CreateJobs({j}, c)
    <3>1. UNCHANGED <<deleted, provider, worker, recon, process>>
      BY <1>4 DEF IntakeFrame
    <3> HIDE DEF slot, c
    <3> QED
      BY <1>1, <1>6, <2>1, <2>2, <2>3, <2>4, <3>1 DEF CreateJobs, c, Asking
  <2> QED
    BY <1>1, <1>8, <1>9, <1>14, <1>15, <1>16, <1>17, <2>5 DEF PInv
<1>19. CASE undo # None
  BY <1>4, <1>7, <1>8, <1>9, <1>14, <1>15, <1>16, <1>17, <1>19 DEF PInv, table
<1> QED
  BY <1>18, <1>19

\* The end of an event commits the rows of its transaction, or cancels those of the
\* comment it deletes.
LEMMA FinishEventStep ==
    ASSUME IInv, PInv, IntakeFrame, I!FinishEvent
    PROVE  PInv' /\ (\/ UNCHANGED table
                     \/ \E J \in SUBSET JobId, c \in Origins : J # {} /\ CreateJobs(J, c)
                     \/ \E c \in Comments : CancelJobs(c))
<1> DEFINE c == content[cur].comment
           J == {j \in JobId : view[j] # jobs[j]}
<1>1. /\ cur \in I!EventId /\ cur # None /\ mode # "down" /\ events[cur] = "processing"
      /\ content[cur] \in Payloads /\ todo = {}
      /\ content[cur].type = "deleted" => c \in deleted
      /\ view \in [JobId -> Row] /\ jobs \in [JobId -> Row]
  <2>1. cur \in I!EventId /\ cur # None
    BY DEF PInv, I!TypeOK, I!FinishEvent, I!Idle
  <2> QED
    BY <2>1, SnapshotIsCommitted DEF PInv, I!TypeOK, TaskInv, I!FinishEvent
<1>2. \A j \in JobId :
          view'[j] = IF /\ content[cur].type = "deleted" /\ view[j].comment = c
                        /\ view[j].status \in CancellableStatuses
                     THEN Cancel(view[j]) ELSE view[j]
  BY EventIds, SameRows DEF I!FinishEvent, I!CancelJobs, I!Cancelled
<1>3. view' = [j \in JobId |-> view'[j]]
  BY EventIds DEF I!FinishEvent, I!CancelJobs
<1>4. \A j \in JobId : /\ view'[j] \in Row
                       /\ view'[j].slot = view[j].slot /\ view'[j].comment = view[j].comment
                       /\ view'[j] = view[j] \/ /\ content[cur].type = "deleted"
                                                /\ view[j].comment = c
                                                /\ view[j].status \in CancellableStatuses
                                                /\ view'[j].status = "cancelled"
  BY <1>1, <1>2, StatusWrites
<1>5. view' \in [JobId -> Row]
  BY <1>3, <1>4
<1>6. /\ UNCHANGED <<content, active, deleted, blocked, batch, decided, claimed, ifaults>>
      /\ undo' = None /\ cur' = None /\ todo' = {} /\ jobs' = view'
      /\ events' = [events EXCEPT ![cur] = I!Outcome(content[cur])]
  BY DEF I!FinishEvent, I!LeaveEvent, IntakeFrame, I!Snapshot, I!NoTxn
<1>7. /\ \A e \in I!EventId \ {cur} : events'[e] = events[e]
      /\ events'[cur] = I!Outcome(content[cur]) /\ events'[cur] \in I!Final
  BY <1>1, <1>6 DEF PInv, I!TypeOK, I!Outcome, I!Final
<1>8. I!TypeOK'
  <2>1. events' \in [I!EventId -> {"absent", "received", "processing"} \cup I!Final]
    BY <1>6, <1>7 DEF PInv, I!TypeOK
  <2> QED
    BY <1>5, <1>6, <2>1, EventIds, SameRows DEF PInv, I!TypeOK
<1>9. \A j \in JobId : /\ view'[j].status = "absent" <=> view[j].status = "absent"
                       /\ HoldsSlot(view'[j]) => HoldsSlot(view[j])
  BY <1>4 DEF CancellableStatuses, HoldsSlot
<1>10. TxnInv'
  <2>1. \A i, j \in JobId :
            HoldsSlot(view'[i]) /\ HoldsSlot(view'[j]) /\ view'[i].slot = view'[j].slot => i = j
    BY <1>4, <1>9 DEF PInv, TxnInv
  <2>2. NoGaps(view')
    <3>1. \A j \in JobId : 1 .. (j - 1) \subseteq JobId
      BY BoundsAreNumbers DEF JobId
    <3> QED
      BY <1>9, <3>1 DEF PInv, TxnInv, NoGaps
  <2> QED
    BY <1>6, <2>1, <2>2 DEF TxnInv, NoGaps
<1>11. \A d : Deletion(d)' => Deletion(d) \/ (content[cur].type = "deleted" /\ d = c)
  BY <1>6, <1>7 DEF Deletion
<1>12. TaskInv'
  <2>1. \A e \in batch' : events'[e] = "processing" /\ e # cur'
    BY <1>6, <1>7, EventIds DEF PInv, TaskInv, I!TypeOK
  <2>2. \A d \in Comments : Deletion(d)' => d \in deleted'
    BY <1>1, <1>6, <1>11 DEF PInv, TaskInv
  <2> QED
    BY <1>1, <1>6, <2>1, <2>2 DEF TaskInv, IntakeFrame, process
<1>13. AskInv'
  <2>1. \A e \in I!EventId : events[e] # "absent" => events'[e] # "absent"
    BY <1>7 DEF I!Final
  <2> QED
    BY <1>4, <1>6, <1>9, <2>1 DEF PInv, AskInv, AskedFor
<1>14. DoneInv'
  <2>1. \A s : HasRow(view, s) => HasRow(view', s)
    BY <1>4, <1>9 DEF HasRow
  <2>2. \A s : HasRow(jobs, s) => HasRow(view, s)
    BY CommittedIsSeen DEF HasRow, Exists
  <2>3. \A s \in decided[cur] : HasRow(view, s)
    BY <1>1 DEF PInv, TaskInv
  <2>4. \A e \in I!EventId : events'[e] = "processed" =>
            \A s \in decided[e] : HasRow(view, s)
    BY <1>7, <2>2, <2>3 DEF PInv, DoneInv
  <2> QED
    BY <1>6, <2>1, <2>4 DEF DoneInv
<1>15. ClaimedInv'
  <2>1. UNCHANGED <<wJob, claimed>>
    BY DEF IntakeFrame, worker
  <2>2. \A j \in JobId : view[j] = jobs[j] \/ (/\ undo # None /\ Asking
                                               /\ view[j].status = "queued"
                                               /\ view[j].comment = c)
    <3>1. undo # None => Asking /\ c \in Origins
      BY <1>1, PipelinePayloads DEF PInv, TxnInv, Asking
    <3>2. undo = None => view = jobs
      BY SnapshotIsCommitted
    <3> QED
      BY <3>1, <3>2, OriginsAreComments, NewRowFacts DEF PInv, TxnInv
  <2>3. ASSUME NEW j \in JobId, view'[j].status \notin {"absent", "queued", "cancelled"}
        PROVE  j \in claimed
    BY <1>4, <2>2, <2>3 DEF PInv, ClaimedInv
  <2>4. ASSUME NEW j \in JobId, view'[j].status = "queued", Deletion(view[j].comment)'
        PROVE  j \in claimed
    <3>1. view'[j] = view[j] /\ ~(content[cur].type = "deleted" /\ view[j].comment = c)
      <4>1. Cancel(view[j]).status = "cancelled"
        BY <1>1, StatusWrites
      <4> QED
        BY <1>2, <1>4, <2>4, <4>1 DEF CancellableStatuses
    <3>2. Deletion(view[j].comment)
      BY <1>11, <2>4, <3>1
    <3>3. view[j] = jobs[j]
      BY <2>2, <3>2, DeletedIsKnown DEF Asking
    <3> QED
      BY <2>4, <3>1, <3>2, <3>3 DEF PInv, ClaimedInv
  <2> QED
    BY <1>4, <1>6, <2>1, <2>3, <2>4 DEF PInv, ClaimedInv
<1>16. PInv'
  BY <1>8, <1>10, <1>12, <1>13, <1>14, <1>15 DEF PInv
<1>17. CASE undo # None
  <2>1. Asking /\ view' = view /\ jobs' = view
    <3>1. Asking
      BY <1>17 DEF PInv, TxnInv
    <3>2. \A j \in JobId : view'[j] = view[j]
      BY <1>4, <3>1 DEF Asking
    <3> QED
      BY <1>1, <1>3, <1>6, <3>1, <3>2
  <2>2. CASE J = {}
    <3>1. jobs' = jobs
      BY <1>1, <2>1, <2>2
    <3> QED
      BY <1>6, <1>16, <3>1 DEF table
  <2>3. CASE J # {}
    <3>1. \A j \in J : /\ ~Exists(j)
                       /\ \E s \in Slots : view[j] = NewRow(s, c)
      BY DEF PInv, TxnInv
    <3>2. c \in Origins /\ c \notin deleted
      BY <1>1, <2>1, PipelinePayloads DEF Asking
    <3> DEFINE slot == [j \in J |-> view[j].slot]
    <3>3. \A j \in J : /\ slot[j] \in Slots /\ view[j] = NewRow(slot[j], c)
                       /\ HoldsSlot(view[j]) /\ view[j].slot = slot[j]
      BY <3>1, <3>2, OriginsAreComments, NewRowFacts DEF HoldsSlot
    <3>4. slot \in [J -> Slots]
      BY <3>3
    <3>5. \A i, j \in J : slot[i] = slot[j] => i = j
      BY <3>3 DEF PInv, TxnInv
    <3>6. ASSUME NEW j \in J PROVE ~Conflict(j, NewRow(slot[j], c))
      <4>1. \A i \in JobId : HoldsSlot(jobs[i]) => view[i] = jobs[i]
        BY CommittedIsSeen DEF HoldsSlot, Exists
      <4>2. \A i \in JobId : HoldsSlot(view[i]) /\ view[i].slot = slot[j] => i = j
        BY <3>3 DEF PInv, TxnInv
      <4> QED
        BY <3>3, <4>1, <4>2 DEF Conflict
    <3>7. jobs' = [j \in JobId |-> IF j \in J THEN NewRow(slot[j], c) ELSE jobs[j]]
      BY <1>1, <2>1, <3>3
    <3>8. \A j \in J : \A i \in 1 .. (j - 1) : Exists(i) \/ i \in J
      <4>1. \A j \in JobId : 1 .. (j - 1) \subseteq JobId
        BY BoundsAreNumbers DEF JobId
      <4>2. \A j \in J : view[j].status # "absent"
        BY <3>3 DEF HoldsSlot
      <4>3. \A j \in J : \A i \in 1 .. (j - 1) : view[i].status # "absent"
        BY <4>2 DEF PInv, TxnInv, NoGaps
      <4> QED
        BY <4>1, <4>3 DEF Exists
    <3>9. UNCHANGED <<deleted, provider, worker, recon, process>>
      BY <1>6 DEF IntakeFrame
    <3>10. CreateJobs(J, c)
      <4> HIDE DEF slot, J, c
      <4> QED
        BY <1>1, <3>1, <3>2, <3>4, <3>5, <3>6, <3>7, <3>8, <3>9 DEF CreateJobs
    <3> QED
      BY <1>16, <2>3, <3>2, <3>10
  <2> QED
    BY <2>2, <2>3
<1>18. CASE undo = None
  <2>1. view = jobs
    BY <1>18, SnapshotIsCommitted
  <2>2. CASE content[cur].type = "deleted" /\ \E j \in JobId : Cancellable(j, c)
    <3>1. jobs' = [j \in JobId |-> IF Cancellable(j, c) THEN Cancel(jobs[j]) ELSE jobs[j]]
      BY <1>2, <1>3, <1>6, <2>1, <2>2 DEF Cancellable
    <3>2. c \in deleted /\ c \in Comments
      BY <1>1, <2>2 DEF PInv, I!TypeOK
    <3>3. CancelJobs(c)
      BY <1>1, <1>6, <2>2, <3>1, <3>2 DEF CancelJobs, IntakeFrame
    <3> QED
      BY <1>16, <3>2, <3>3
  <2>3. CASE ~(content[cur].type = "deleted" /\ \E j \in JobId : Cancellable(j, c))
    <3>1. \A j \in JobId : view'[j] = jobs[j]
      BY <1>2, <2>1, <2>3 DEF Cancellable
    <3>2. jobs' = jobs
      BY <1>1, <1>3, <1>6, <3>1
    <3> QED
      BY <1>6, <1>16, <3>2 DEF table
  <2> QED
    BY <2>2, <2>3
<1> QED
  BY <1>17, <1>18

-----------------------------------------------------------------------------
(* Failures.                                                               *)

\* A rollback was never seen: what is committed stays, and becomes the view.
LEMMA RollbackStep ==
    ASSUME IInv, PInv, I!Rollback, I!LeaveEvent, jobs' = jobs, I!TypeOK',
           UNCHANGED <<content, active, decided, claimed>>,
           wJob' \in {wJob, None}, batch' \subseteq batch,
           mode' = "down" => mode = "down" \/ batch' = {},
           \A e \in I!EventId : /\ events'[e] = "processed" <=> events[e] = "processed"
                                /\ events[e] # "absent" => events'[e] # "absent",
           \A e \in batch' : events'[e] = "processing"
    PROVE  PInv'
<1>1. /\ view' = jobs /\ jobs' = jobs /\ undo' = None /\ deleted' = deleted
      /\ cur' = None /\ todo' = {}
  BY SnapshotIsCommitted DEF I!Rollback, I!LeaveEvent
<1>2. \A c : Deletion(c)' <=> Deletion(c)
  BY DEF Deletion
<1>3. \A j \in JobId : Exists(j) => view[j] = jobs[j]
  BY CommittedIsSeen
<1>4. TaskInv'
  <2>1. mode' = "down" => batch' = {}
    BY DEF PInv, TaskInv
  <2>2. \A e \in batch' : e # None
    BY EventIds DEF PInv, I!TypeOK
  <2> QED
    BY <1>1, <1>2, <2>1, <2>2 DEF PInv, TaskInv
<1>5. TxnInv'
  <2>1. \A i, j \in JobId : HoldsSlot(jobs[i]) /\ HoldsSlot(jobs[j])
                            /\ jobs[i].slot = jobs[j].slot => i = j
    BY DEF IInv, SlotInv
  <2> QED
    BY <1>1, <2>1 DEF PInv, TxnInv, NoGaps, Exists
<1>6. AskInv'
  BY <1>1, <1>3 DEF PInv, AskInv, AskedFor, Exists
<1>7. DoneInv'
  BY <1>1 DEF PInv, DoneInv, HasRow
<1>8. ClaimedInv'
  BY <1>1, <1>2 DEF PInv, ClaimedInv
<1> QED
  BY <1>4, <1>5, <1>6, <1>7, <1>8 DEF PInv

LEMMA ProcessFailsStep ==
    ASSUME IInv, PInv, IntakeFrame, I!ProcessFails PROVE PInv' /\ UNCHANGED table
<1> USE DEF I!ProcessFails
<1>1. cur \in I!EventId /\ cur # None /\ events[cur] = "processing"
  BY DEF PInv, I!TypeOK, TaskInv, I!Idle
<1>2. \A e \in I!EventId : events'[e] = IF e = cur THEN "received" ELSE events[e]
  BY DEF PInv, I!TypeOK, I!AfterFailure
<1>3. jobs' = jobs
  BY SnapshotIsCommitted DEF I!Rollback, IntakeFrame, I!Snapshot, I!NoTxn
<1>4. I!TypeOK'
  <2>1. I!Snapshot.jobs \in [JobId -> Row] /\ I!Snapshot.blocked \in Nat
    BY SnapshotIsCommitted
  <2> QED
    BY <1>1, <2>1, BoundsAreNumbers, EventIds, SameRows
    DEF PInv, I!TypeOK, I!Rollback, I!LeaveEvent, I!AfterFailure, I!Fault
<1>5. \A e \in batch' : events'[e] = "processing"
  BY <1>2, EventIds DEF PInv, TaskInv, I!TypeOK
<1>6. \A e \in I!EventId : /\ events'[e] = "processed" <=> events[e] = "processed"
                           /\ events[e] # "absent" => events'[e] # "absent"
  BY <1>1, <1>2
<1>7. /\ I!Rollback /\ I!LeaveEvent /\ mode' = mode /\ wJob' = wJob /\ batch' = batch
      /\ UNCHANGED <<content, active, decided, claimed>>
  BY DEF IntakeFrame, process, worker
<1>8. PInv'
  BY <1>3, <1>4, <1>5, <1>6, <1>7, RollbackStep
<1> QED
  BY <1>3, <1>8 DEF I!Rollback, table

LEMMA RequeueFailsStep ==
    ASSUME IInv, PInv, IntakeFrame, I!RequeueFails PROVE PInv' /\ UNCHANGED table
<1> USE DEF I!RequeueFails
<1>1. jobs' = jobs
  BY SnapshotIsCommitted DEF I!Rollback, IntakeFrame, I!Snapshot, I!NoTxn
<1>2. I!TypeOK'
  <2>1. I!Snapshot.jobs \in [JobId -> Row] /\ I!Snapshot.blocked \in Nat
    BY SnapshotIsCommitted
  <2> QED
    BY <2>1, BoundsAreNumbers, EventIds, SameRows
    DEF PInv, I!TypeOK, I!Rollback, I!LeaveEvent, I!Fault
<1>3. /\ I!Rollback /\ I!LeaveEvent /\ mode' = mode /\ wJob' = wJob /\ batch' = {}
      /\ UNCHANGED <<events, content, active, decided, claimed>>
  BY DEF IntakeFrame, process, worker
<1>4. PInv'
  BY <1>1, <1>2, <1>3, RollbackStep
<1> QED
  BY <1>1, <1>4 DEF I!Rollback, table

LEMMA DieStep == ASSUME IInv, PInv, Die PROVE PInv' /\ [Next]_vars
<1> USE DEF Die
<1>1. Next
  BY DEF Next, Manager
<1>2. /\ jobs' = jobs /\ mode' = "down" /\ wJob' = None
      /\ I!Rollback /\ I!LeaveEvent /\ batch' = {}
      /\ UNCHANGED <<events, content, active, decided, claimed>>
  BY DEF Crash, Forget, table, I!Crash
<1>3. I!TypeOK'
  <2>1. I!Snapshot.jobs \in [JobId -> Row] /\ I!Snapshot.blocked \in Nat
    BY SnapshotIsCommitted
  <2>2. ifaults' \in 0 .. MaxFaults
    BY BoundsAreNumbers DEF PInv, I!TypeOK, I!Crash, I!Fault
  <2> QED
    BY <1>2, <2>1, <2>2, EventIds, SameRows DEF PInv, I!TypeOK, I!Rollback, I!LeaveEvent
<1>4. PInv'
  BY <1>2, <1>3, RollbackStep
<1> QED
  BY <1>1, <1>4

LEMMA LeaveStep == ASSUME IInv, PInv, Leave PROVE PInv' /\ [Next]_vars
<1> USE DEF Leave
<1>1. Next
  BY DEF Next, Manager
<1>2. UNCHANGED <<jobs, deleted, wJob, intake, claimed>>
  BY DEF ExitProcess, table, worker
<1>3. I!TypeOK'
  BY <1>2 DEF PInv, I!TypeOK, intake, log, task
<1>4. \A c : Deletion(c)' <=> Deletion(c)
  BY <1>2 DEF Deletion, intake, log
<1>5. TaskInv'
  BY <1>2, <1>4 DEF PInv, TaskInv, HasRow, Asking, intake, log, task
<1>6. TxnInv' /\ AskInv' /\ DoneInv'
  BY <1>2 DEF PInv, TxnInv, NoGaps, Exists, Asking, AskInv, AskedFor, DoneInv, HasRow,
              intake, log, task
<1>7. ClaimedInv'
  BY <1>2, <1>4 DEF PInv, ClaimedInv
<1> QED
  BY <1>1, <1>3, <1>5, <1>6, <1>7 DEF PInv

-----------------------------------------------------------------------------
(* The queue's side.                                                       *)

\* What a step of the queue may do to a row: nothing, claim it, or write one that
\* is claimed or accepted, or that the worker has.
RowMove(j) ==
    /\ jobs'[j].slot = jobs[j].slot /\ jobs'[j].comment = jobs[j].comment
    /\ \/ jobs'[j].status = jobs[j].status
       \/ jobs[j].status \in {"queued", "retry_wait"} /\ jobs'[j].status = "sending"
       \/ /\ jobs[j].status \in {"sending", "accepted"} \/ (j = wJob /\ Exists(j))
          /\ jobs'[j].status \notin {"absent", "sending", "cancelled"}

LEMMA WorkerMoves ==
    ASSUME IInv, NEW row \in Row, HasClaim, jobs' = [jobs EXCEPT ![wJob] = row],
           row.slot = jobs[wJob].slot, row.comment = jobs[wJob].comment,
           row.status \notin {"absent", "sending", "cancelled"}
    PROVE  \A j \in JobId : RowMove(j)
BY HeldKey DEF RowMove, Exists, IInv, TypeOK

LEMMA ApplyResultMoves ==
    ASSUME IInv, ApplyResult PROVE \A j \in JobId : RowMove(j)
<1> DEFINE row == ApplySendResult(jobs[wJob], result, wKey)
<1>1. HasClaim /\ result \in SendResults
  BY DEF ApplyResult, IInv, WorkerInv, HasClaim, TypeOK
<1>2. /\ row \in Row /\ row.slot = jobs[wJob].slot /\ row.comment = jobs[wJob].comment
      /\ row.status \in {"accepted", "retry_wait", "failed"}
  BY <1>1, HeldKey, SendResultFacts
<1> HIDE DEF row
<1>3. CASE jobs' = [jobs EXCEPT ![wJob] = row]
  BY <1>1, <1>2, <1>3, WorkerMoves
<1>4. CASE jobs' = jobs
  BY <1>4 DEF RowMove
<1> QED
  BY <1>3, <1>4 DEF ApplyResult, row

LEMMA ReleaseWriteMoves ==
    ASSUME IInv, ReleaseWrite PROVE \A j \in JobId : RowMove(j)
<1>1. HasClaim
  BY DEF ReleaseWrite, IInv, WorkerInv, HasClaim
<1>2. /\ Requeue(jobs[wJob]) \in Row /\ Requeue(jobs[wJob]).status = "queued"
      /\ Requeue(jobs[wJob]).slot = jobs[wJob].slot
      /\ Requeue(jobs[wJob]).comment = jobs[wJob].comment
  BY <1>1, HeldKey, StatusWrites
<1>3. CASE jobs' = [jobs EXCEPT ![wJob] = Requeue(jobs[wJob])]
  BY <1>1, <1>2, <1>3, WorkerMoves
<1>4. CASE jobs' = jobs
  BY <1>4 DEF RowMove
<1> QED
  BY <1>3, <1>4 DEF ReleaseWrite

LEMMA ReconApplyMoves ==
    ASSUME IInv, ReconApply PROVE \A j \in JobId : RowMove(j)
<1> DEFINE j == rCur.job
           row == ApplyDeliveryStatus(jobs[j], rCur.answer)
<1>1. /\ j \in JobId /\ rCur.answer \in Answers /\ jobs \in [JobId -> Row] /\ jobs[j] \in Row
      /\ jobs[j].status = "accepted" /\ jobs[j].cycle \in Cycles
  BY DEF ReconApply, IInv, TypeOK, PollInv, RowInv
<1>2. /\ row.slot = jobs[j].slot /\ row.comment = jobs[j].comment
      /\ row.status \in {"accepted", "delivered", "retry_wait", "failed"}
  BY <1>1, DeliveryStatusFacts DEF Answers
<1>3. jobs' = [jobs EXCEPT ![j] = row]
  BY <1>1 DEF ReconApply
<1> HIDE DEF row, j
<1> QED
  BY <1>1, <1>2, <1>3 DEF RowMove

LEMMA ClaimMoves ==
    ASSUME IInv, NEW j \in JobId, ClaimNextJob(j) \/ LoseClaim(j)
    PROVE  /\ \A i \in JobId : RowMove(i)
           /\ jobs'[j].status = "sending" /\ wJob' \in {wJob, j}
<1>1. jobs' = [jobs EXCEPT ![j] = Claim(jobs[j])] /\ jobs \in [JobId -> Row]
      /\ jobs[j].status \in {"queued", "retry_wait"} /\ wJob' \in {wJob, j}
  BY DEF ClaimNextJob, LoseClaim, FirstClaimable, Claimable, Queued, Waiting, IInv, TypeOK
<1> QED
  BY <1>1, StatusWrites DEF RowMove

\* Requeued are rows that were being sent, by the sweep or at the start.
LEMMA RequeueMoves ==
    ASSUME IInv, Restart \/ \E j \in JobId : RequeueStale(j)
    PROVE  \A j \in JobId : RowMove(j)
<1>1. \A j \in JobId : jobs[j] \in Row
  BY DEF IInv, TypeOK
<1>2. \A j \in JobId :
          \/ jobs'[j] = jobs[j]
          \/ jobs[j].status = "sending" /\ jobs'[j] = Requeue(jobs[j])
  BY DEF Restart, RequeueStale, Stale, IInv, TypeOK
<1> QED
  BY <1>1, <1>2, StatusWrites DEF RowMove

\* All that a step of the queue does for the pipeline.
LEMMA QueueMoves ==
    ASSUME IInv,
           DMWorker \/ Reconciler \/ PseudoGram \/ Stop \/ Restart
           \/ \E j \in JobId : RequeueStale(j)
    PROVE  /\ deleted' = deleted
           /\ \A j \in JobId : RowMove(j)
           /\ \/ wJob' \in {wJob, None}
              \/ wJob' \in JobId /\ jobs'[wJob'].status = "sending"
           /\ mode' = "down" => mode = "down"
<1>1. CASE \E j \in JobId : ClaimNextJob(j) \/ LoseClaim(j)
  BY <1>1, ClaimMoves DEF ClaimNextJob, LoseClaim, process
<1>2. CASE ApplyResult
  BY <1>2, ApplyResultMoves DEF ApplyResult, AfterFailure, Settle, process
<1>3. CASE ReleaseWrite
  BY <1>3, ReleaseWriteMoves DEF ReleaseWrite, Settle, process
<1>4. CASE ReconApply
  BY <1>4, ReconApplyMoves DEF ReconApply, worker, process
<1>5. CASE Restart \/ \E j \in JobId : RequeueStale(j)
  BY <1>5, RequeueMoves DEF Restart, RequeueStale, worker, process
<1>6. CASE SelectCandidates \/ ClaimNone \/ SendRequest \/ Polling \/ PseudoGram
  <2>1. UNCHANGED <<table, wJob, mode>>
    BY <1>6 DEF SelectCandidates, ClaimNone, SendRequest, Polling, ReconLoad, ReconPoll,
       ReconPollFails, ReconApplyFails, PseudoGram, DMOutcome, LateArrives, worker, process
  <2> QED
    BY <2>1 DEF table, RowMove
<1>7. CASE Stop \/ (Settling /\ ~ReleaseWrite)
  <2>1. UNCHANGED table /\ wJob' \in {wJob, None} /\ (mode' = "down" => mode = "down")
    BY <1>7 DEF Stop, Settling, SendRaises, ReleaseRead, SendReturns, ThreadFails,
       AfterFailure, Settle, process
  <2> QED
    BY <2>1 DEF table, RowMove
<1> QED
  BY <1>1, <1>2, <1>3, <1>4, <1>5, <1>6, <1>7 DEF DMWorker, Claiming, Settling, Reconciler

\* What the moves of the rows keep of the invariant, when the view follows.
LEMMA MovesKeep ==
    ASSUME IInv, PInv, IInv', \A j \in JobId : RowMove(j), Follow, claimed' \subseteq JobId,
           UNCHANGED <<content, active, deleted, blocked, undo, task, ifaults>>,
           events' \in [I!EventId -> {"absent", "received", "processing"} \cup I!Final],
           \A e \in I!EventId : /\ events'[e] = "processed" <=> events[e] = "processed"
                                /\ events[e] # "absent" => events'[e] # "absent"
                                /\ e \in batch \cup {cur} => events'[e] = events[e],
           mode' = "down" => mode = "down"
    PROVE  /\ I!TypeOK' /\ TaskInv' /\ TxnInv' /\ AskInv' /\ DoneInv'
           /\ \A c : Deletion(c)' <=> Deletion(c)
<1> USE DEF task
<1>1. /\ jobs \in [JobId -> Row] /\ jobs' \in [JobId -> Row] /\ view \in [JobId -> Row]
      /\ undo = None => view = jobs /\ view' = jobs'
      /\ undo # None => view' = view /\ jobs' = jobs
  BY SnapshotIsCommitted DEF IInv, TypeOK, Follow
<1>2. \A j \in JobId : /\ jobs'[j].slot = jobs[j].slot /\ jobs'[j].comment = jobs[j].comment
                       /\ jobs'[j].status = "absent" <=> jobs[j].status = "absent"
  BY DEF RowMove, Exists
<1>3. \A j \in JobId : /\ view'[j].slot = view[j].slot /\ view'[j].comment = view[j].comment
                       /\ view'[j].status = "absent" <=> view[j].status = "absent"
  BY <1>1, <1>2
<1>4. I!TypeOK'
  BY <1>1, EventIds, SameRows DEF PInv, I!TypeOK
<1>5. \A c : Deletion(c)' <=> Deletion(c)
  BY DEF Deletion
<1>6. TaskInv'
  <2>1. \A e \in batch : e \in I!EventId /\ events'[e] = "processing" /\ e # cur
    BY DEF PInv, TaskInv, I!TypeOK
  <2>2. cur # None => cur \in I!EventId /\ events'[cur] = "processing"
    BY DEF PInv, TaskInv, I!TypeOK
  <2>3. \A s : HasRow(view, s) => HasRow(view', s)
    BY <1>3 DEF HasRow
  <2> QED
    BY <1>5, <2>1, <2>2, <2>3 DEF PInv, TaskInv, Asking
<1>7. TxnInv'
  <2>1. CASE undo = None
    <3>1. NoGaps(jobs')
      <4>1. \A j \in JobId : 1 .. (j - 1) \subseteq JobId
        BY BoundsAreNumbers DEF JobId
      <4> QED
        BY <1>2, <4>1 DEF PInv, TxnInv, NoGaps
    <3>2. \A i, j \in JobId : HoldsSlot(jobs'[i]) /\ HoldsSlot(jobs'[j])
                              /\ jobs'[i].slot = jobs'[j].slot => i = j
      BY DEF IInv, SlotInv, HoldsSlot
    <3> QED
      BY <1>1, <2>1, <3>1, <3>2 DEF TxnInv, NoGaps
  <2>2. CASE undo # None
    BY <1>1, <2>2 DEF PInv, TxnInv, NoGaps, Asking, Exists
  <2> QED
    BY <2>1, <2>2
<1>8. AskInv'
  BY <1>3 DEF PInv, AskInv, AskedFor
<1>9. DoneInv'
  BY <1>2 DEF PInv, DoneInv, HasRow
<1> QED
  BY <1>4, <1>5, <1>6, <1>7, <1>8, <1>9

\* Who moves a row has claimed it, now or before.
LEMMA MovesClaimed ==
    ASSUME IInv, PInv, \A j \in JobId : RowMove(j), \A c : Deletion(c)' <=> Deletion(c),
           claimed \subseteq claimed',
           \A j \in JobId : jobs'[j].status = "sending" => j \in claimed',
           wJob' \in {wJob, None} \/ (wJob' \in JobId /\ jobs'[wJob'].status = "sending")
    PROVE  ClaimedInv'
<1>1. ASSUME NEW j \in JobId, jobs'[j].status # jobs[j].status PROVE j \in claimed'
  BY <1>1, NoneIsNoValue DEF RowMove, PInv, ClaimedInv, JobId
<1>2. wJob' # None => wJob' \in claimed'
  BY DEF PInv, ClaimedInv
<1> QED
  BY <1>1, <1>2 DEF RowMove, PInv, ClaimedInv

LEMMA BesideStep == ASSUME IInv, PInv, QueueStep PROVE PInv' /\ [Next]_vars
<1> USE DEF QueueStep, Beside
<1>1. Next
  BY DEF Next, Manager
<1>2. IInv'
  BY <1>1, NextIInv
<1>3. /\ deleted' = deleted
      /\ \A j \in JobId : RowMove(j)
      /\ wJob' \in {wJob, None} \/ (wJob' \in JobId /\ jobs'[wJob'].status = "sending")
      /\ mode' = "down" => mode = "down"
  BY QueueMoves
<1>4. /\ I!TypeOK' /\ TaskInv' /\ TxnInv' /\ AskInv' /\ DoneInv'
      /\ \A c : Deletion(c)' <=> Deletion(c)
  <2>1. events' \in [I!EventId -> {"absent", "received", "processing"} \cup I!Final]
    BY DEF PInv, I!TypeOK, log
  <2>2. claimed' \subseteq JobId
    BY EventIds DEF PInv, I!TypeOK, Sending
  <2> QED
    BY <1>2, <1>3, <2>1, <2>2, MovesKeep DEF log
<1>5. ClaimedInv'
  BY <1>3, <1>4, MovesClaimed DEF Sending
<1> QED
  BY <1>1, <1>4, <1>5 DEF PInv

\* What was being processed is received again, and nothing was being sent by anyone.
LEMMA RecoverStep == ASSUME IInv, PInv, Recover PROVE PInv' /\ [Next]_vars
<1> USE DEF Recover
<1>1. Next
  BY DEF Next, Manager
<1>2. IInv'
  BY <1>1, NextIInv
<1>3. deleted' = deleted /\ mode' = "up" /\ wJob' = wJob /\ \A j \in JobId : RowMove(j)
  BY RequeueMoves DEF Restart, worker
<1>4. cur = None /\ batch = {} /\ undo = None
  BY DEF Restart, PInv, TaskInv, I!TypeOK
<1>5. \A e \in I!EventId :
          events'[e] = IF events[e] = "processing" THEN "received" ELSE events[e]
  BY DEF I!Recovered
<1>6. events' \in [I!EventId -> {"absent", "received", "processing"} \cup I!Final]
  BY <1>5 DEF PInv, I!TypeOK
<1>7. /\ I!TypeOK' /\ TaskInv' /\ TxnInv' /\ AskInv' /\ DoneInv'
      /\ \A c : Deletion(c)' <=> Deletion(c)
  <2>1. claimed' \subseteq JobId
    BY EventIds DEF PInv, I!TypeOK
  <2> QED
    BY <1>2, <1>3, <1>4, <1>5, <1>6, <2>1, EventIds, MovesKeep DEF Follow
<1>8. ClaimedInv'
  <2>1. \A j \in JobId : jobs'[j].status # "sending"
    BY StatusWrites DEF Restart, IInv, TypeOK
  <2> QED
    BY <1>3, <1>7, <2>1, MovesClaimed
<1> QED
  BY <1>1, <1>7, <1>8 DEF PInv

-----------------------------------------------------------------------------
(* Every step.                                                             *)

LEMMA IntakeSteps == ASSUME IInv, PInv, IntakeStep PROVE PInv' /\ [Next]_vars
<1>1. IntakeFrame
  BY DEF IntakeStep, Ahead, IntakeFrame
<1>2. \/ PInv' /\ UNCHANGED table
      \/ PInv' /\ \E c \in Comments : RecordDeletion(c) \/ CancelJobs(c)
      \/ PInv' /\ \E J \in SUBSET JobId, c \in Origins : J # {} /\ CreateJobs(J, c)
  <2>1. CASE Web
    BY <1>1, <2>1, IngestStep, CreateRuleStep DEF Web
  <2>2. CASE I!Worker
    <3>1. CASE I!ClaimPendingEvents \/ (\E e \in I!EventId : I!BeginEvent(e))
               \/ (\E s \in Slots : I!BlockDuplicate(s))
      BY <1>1, <3>1, ClaimEventsStep, BeginEventStep, BlockDuplicateStep
    <3>2. CASE \E s \in Slots : I!InsertJob(s)
      BY <1>1, <3>2, InsertJobStep
    <3>3. CASE I!RecordDeletion
      BY <1>1, <3>3, RecordDeletionMoves
    <3>4. CASE I!FinishEvent
      BY <1>1, <3>4, FinishEventStep
    <3> QED
      BY <2>2, <3>1, <3>2, <3>3, <3>4 DEF I!Worker
  <2>3. CASE I!ProcessFails \/ I!RequeueFails
    BY <1>1, <2>3, ProcessFailsStep, RequeueFailsStep
  <2> QED
    BY <2>1, <2>2, <2>3 DEF IntakeStep, Ahead
<1>3. UNCHANGED table => UNCHANGED vars
  BY <1>1 DEF IntakeFrame, vars
<1> QED
  BY <1>2, <1>3 DEF Next, EventWorker

LEMMA StutterPInv == ASSUME PInv, UNCHANGED pvars PROVE PInv' /\ UNCHANGED vars
<1>1. UNCHANGED <<jobs, deleted, wJob, mode, intake, claimed, vars>>
  BY DEF pvars, vars, table, worker, process
<1> USE DEF intake, log, task
<1>2. I!TypeOK'
  BY <1>1 DEF PInv, I!TypeOK
<1>3. \A c : Deletion(c)' <=> Deletion(c)
  BY <1>1 DEF Deletion
<1>4. TaskInv'
  BY <1>1, <1>3 DEF PInv, TaskInv, HasRow, Asking
<1>5. TxnInv' /\ AskInv' /\ DoneInv'
  BY <1>1 DEF PInv, TxnInv, NoGaps, Exists, Asking, AskInv, AskedFor, DoneInv, HasRow
<1>6. ClaimedInv'
  BY <1>1, <1>3 DEF PInv, ClaimedInv
<1> QED
  BY <1>1, <1>2, <1>4, <1>5, <1>6 DEF PInv

\* Each step of the pipeline is one of DMQueue or leaves its state alone.
LEMMA PNextStep == IInv /\ PInv /\ [PNext]_pvars => IInv' /\ PInv' /\ [Next]_vars
<1> SUFFICES ASSUME IInv, PInv, [PNext]_pvars PROVE PInv' /\ [Next]_vars
  BY NextIInv
<1>1. CASE IntakeStep
  BY <1>1, IntakeSteps
<1>2. CASE QueueStep
  BY <1>2, BesideStep
<1>3. CASE Leave
  BY <1>3, LeaveStep
<1>4. CASE Die
  BY <1>4, DieStep
<1>5. CASE Recover
  BY <1>5, RecoverStep
<1>6. CASE UNCHANGED pvars
  BY <1>6, StutterPInv
<1> QED
  BY <1>1, <1>2, <1>3, <1>4, <1>5, <1>6 DEF PNext

THEOREM PipelineInvariant == PSpec => [](IInv /\ PInv)
BY InitPInv, PNextStep, PTL DEF PSpec

\* The whole pipeline is a DMQueue: the event worker's transactions, its rollbacks,
\* repetitions and restarts show the other writers nothing but creations, deletions
\* and cancellations that DMQueue has.
THEOREM PipelineImplementsQueue == PSpec => ImplementsQueue
<1>1. PInit => Init
  BY DEF PInit
<1> QED
  BY <1>1, PNextStep, PipelineInvariant, PTL DEF PSpec, ImplementsQueue, Spec

\* From the comment to the DM: no job has two live DMs, no (rule, user) pair either
\* but for a comment that was deleted in between, `sent` is honest, and /stats moves
\* as DMBoard promises.
THEOREM PipelinePromises ==
    PSpec => /\ []OneLiveDMPerJob /\ []SecondDMNeedsDeletedComment /\ []SentIsDelivered
             /\ ImplementsBoard
BY PipelineImplementsQueue, OneLiveDM, SecondDM, SentHonest, QueueImplementsBoard, PTL
DEF ImplementsQueue

\* Every DM at PseudoGram goes back to a stored comment that matched an active rule.
\* A DM has its row in the committed table (KeyInv), that row is in the event
\* worker's view too, and AskInv has the event.
THEOREM NoUnaskedDM == PSpec => []EveryDMWasAskedFor
<1>1. IInv /\ PInv => EveryDMWasAskedFor
  <2> SUFFICES ASSUME IInv, PInv, NEW j \in JobId, NEW k \in Cycles, dm[j][k] # "none"
               PROVE  AskedFor(jobs[j])
    BY DEF EveryDMWasAskedFor, AskedFor
  <2>1. Exists(j)
    BY DEF IInv, KeyInv
  <2> QED
    BY <2>1, CommittedIsSeen DEF PInv, AskInv, Exists
<1> QED
  BY <1>1, PipelineInvariant, PTL

\* An event marked processed has its jobs in the table everyone reads, for good.
THEOREM ProcessedStays == PSpec => []ProcessedIsCommitted
<1>1. PInv => ProcessedIsCommitted
  BY DEF PInv, DoneInv, HasRow, ProcessedIsCommitted, Exists
<1> QED
  BY <1>1, PipelineInvariant, PTL

\* Once a deletion is processed no job of its comment is claimed for the first time:
\* what is claimed was queued or waits for a retry, and such a row of a deleted
\* comment has been claimed before.
THEOREM DeletionStopsFirstClaims == PSpec => NoFirstClaimAfterDeletion
<1>1. IInv /\ PInv /\ [PNext]_pvars =>
          [\A j \in JobId : j \in claimed' \ claimed => ~Deletion(jobs[j].comment)]_pvars
  <2> SUFFICES ASSUME IInv, PInv, PNext, NEW j \in JobId, j \in claimed', j \notin claimed
               PROVE  ~Deletion(jobs[j].comment)
    OBVIOUS
  <2>1. QueueStep
    BY DEF PNext, IntakeStep, Ahead, Leave, Die, Recover
  <2>2. jobs'[j].status = "sending" /\ RowMove(j)
    BY <2>1, QueueMoves DEF QueueStep, Beside, Sending
  <2>3. jobs[j].status = "queued"
    BY <2>2 DEF RowMove, PInv, ClaimedInv
  <2> QED
    BY <2>3 DEF PInv, ClaimedInv
<1> QED
  BY <1>1, PipelineInvariant, PTL DEF PSpec, NoFirstClaimAfterDeletion
=============================================================================
