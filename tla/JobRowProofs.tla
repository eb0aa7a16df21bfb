---------------------------- MODULE JobRowProofs ----------------------------
(***************************************************************************)
(* What the row operators of JobRow return, change and leave alone: the    *)
(* lemmas shared by the proofs about every module that has the table.      *)
(***************************************************************************)
EXTENDS JobRow, TLAPS

LEMMA CyclesAreInts ==
    /\ Cycles \subseteq 0 .. MaxDeliveryAttempts
    /\ Cycles \subseteq Int
    /\ 0 \in Cycles
    /\ None \notin Cycles
  BY NoneIsNoValue, BudgetsArePositive DEF Cycles

\* Claim, Cancel and Requeue change the status of a row and nothing else.
LEMMA StatusWrites ==
    ASSUME NEW row \in Row
    PROVE  /\ \A new \in {Claim(row), Cancel(row), Requeue(row)} :
                  /\ new \in Row
                  /\ new.slot = row.slot /\ new.comment = row.comment
                  /\ new.cycle = row.cycle /\ new.dmId = row.dmId
           /\ Claim(row).status = "sending"
           /\ Cancel(row).status = "cancelled"
           /\ Requeue(row).status = "queued"
  BY DEF Claim, Cancel, Requeue, Row, Statuses

LEMMA NewRowFacts ==
    ASSUME NEW s \in Slots, NEW c \in Comments \cup {None}
    PROVE  /\ NewRow(s, c) \in Row /\ NewRow(s, c).status = "queued"
           /\ NewRow(s, c).slot = s /\ NewRow(s, c).comment = c
           /\ NewRow(s, c).cycle = 0
  BY NoneIsNoValue, BudgetsArePositive, CyclesAreInts
  DEF NewRow, NoRow, Row, Statuses

\* A row that is retried or given up keeps what it points at.
LEMMA RetryWrites ==
    ASSUME NEW row \in Row
    PROVE  /\ \A new \in {ScheduleRetry(row), GiveUp(row)} :
                  /\ new \in Row
                  /\ new.slot = row.slot /\ new.comment = row.comment
                  /\ new.cycle = row.cycle /\ new.dmId = row.dmId
           /\ ScheduleRetry(row).status = "retry_wait"
           /\ GiveUp(row).status = "failed"
  <1>1. /\ ScheduleRetry(row) \in Row
        /\ ScheduleRetry(row).status = "retry_wait"
        /\ ScheduleRetry(row).slot = row.slot /\ ScheduleRetry(row).comment = row.comment
        /\ ScheduleRetry(row).cycle = row.cycle /\ ScheduleRetry(row).dmId = row.dmId
    BY DEF ScheduleRetry, Row, Statuses
  <1>2. /\ GiveUp(row) \in Row
        /\ GiveUp(row).status = "failed"
        /\ GiveUp(row).slot = row.slot /\ GiveUp(row).comment = row.comment
        /\ GiveUp(row).cycle = row.cycle /\ GiveUp(row).dmId = row.dmId
    BY DEF GiveUp, Row, Statuses
  <1> QED
    BY <1>1, <1>2

\* The answer to a send never moves the key; only "accepted" makes the row
\* `accepted`, and then for the DM of the key the request carried.
LEMMA SendResultFacts ==
    ASSUME NEW row \in Row, row.status # "absent",
           NEW r \in SendResults, NEW k \in Cycles
    PROVE  /\ ApplySendResult(row, r, k) \in Row
           /\ ApplySendResult(row, r, k).slot = row.slot
           /\ ApplySendResult(row, r, k).comment = row.comment
           /\ ApplySendResult(row, r, k).cycle = row.cycle
           /\ ApplySendResult(row, r, k).status \in {"accepted", "retry_wait", "failed"}
           /\ ApplySendResult(row, r, k).status = "accepted" =>
                  r = "accepted" /\ ApplySendResult(row, r, k).dmId = k
  <1>1. CASE r = "accepted"
    BY <1>1, CyclesAreInts DEF ApplySendResult, Row, Statuses
  <1>2. CASE r \in {"rate_limited", "auth_error"}
    BY <1>2 DEF ApplySendResult, ScheduleRetry, Row, Statuses
  <1>3. CASE r = "invalid"
    BY <1>3 DEF ApplySendResult, GiveUp, Row, Statuses
  <1>4. CASE r \notin {"accepted", "rate_limited", "auth_error", "invalid"}
    <2>1. ApplySendResult(row, r, k) = TransientFailure(row)
      BY <1>4 DEF ApplySendResult
    <2> DEFINE spent == [row EXCEPT !.transient = @ + 1]
    <2>2. spent \in Row
      BY DEF Row
    <2>3. TransientFailure(row) \in {GiveUp(spent), ScheduleRetry(spent)}
      BY DEF TransientFailure
    <2>4. \A new \in {GiveUp(spent), ScheduleRetry(spent)} :
             /\ new \in Row /\ new.status \in {"retry_wait", "failed"}
             /\ new.slot = row.slot /\ new.comment = row.comment
             /\ new.cycle = row.cycle
      <3> HIDE DEF spent
      <3>1. /\ \A new \in {GiveUp(spent), ScheduleRetry(spent)} :
                   /\ new \in Row /\ new.status \in {"retry_wait", "failed"}
                   /\ new.slot = spent.slot /\ new.comment = spent.comment
                   /\ new.cycle = spent.cycle
        BY <2>2, RetryWrites
      <3>2. /\ spent.slot = row.slot /\ spent.comment = row.comment
            /\ spent.cycle = row.cycle
        BY DEF spent, Row
      <3> QED
        BY <3>1, <3>2
    <2> QED
      BY <2>1, <2>3, <2>4
  <1> QED
    BY <1>1, <1>2, <1>3, <1>4

\* The stage of a row is read off its status.  In the stages `waiting` and `taken`
\* it holds its slot, and what waits is what a deletion cancels.
LEMMA StageFacts ==
    ASSUME NEW row \in Row
    PROVE  /\ Stage(row) \in {"unposted", "waiting", "taken", "withdrawn"}
           /\ Stage(row) = "unposted" <=> row.status = "absent"
           /\ Stage(row) = "waiting" <=> row.status \in CancellableStatuses
           /\ Stage(row) = "withdrawn" <=> row.status = "cancelled"
           /\ Stage(row) \in {"waiting", "taken"} <=> HoldsSlot(row)
           /\ Entry(row).stage = Stage(row) /\ Entry(row).slot = row.slot
           /\ Entry(row).comment = row.comment
BY DEF Stage, Entry, HoldsSlot, CancellableStatuses, Row, Statuses

\* A confirmed failure is the one thing that moves the key, by one, and a row
\* that is to be sent again has a key left.
LEMMA DeliveryStatusFacts ==
    ASSUME NEW row \in Row, row.status = "accepted", row.cycle \in Cycles,
           NEW a
    PROVE  LET new == ApplyDeliveryStatus(row, a)
           IN  /\ new \in Row /\ new.status # "absent"
               /\ new.slot = row.slot /\ new.comment = row.comment
               /\ a \notin {"delivered", "failed"} => new = row
               /\ a = "delivered" => new.status = "delivered" /\ new.cycle = row.cycle
               /\ a = "failed" => /\ new.status \in {"retry_wait", "failed"}
                                  /\ new.cycle = row.cycle + 1
                                  /\ new.status = "retry_wait" => new.cycle \in Cycles
  <1>1. CASE a = "delivered"
    BY <1>1 DEF ApplyDeliveryStatus, Row, Statuses
  <1>2. CASE a = "failed"
    <2> DEFINE resend == [row EXCEPT !.cycle = @ + 1, !.dmId = None]
               again == [resend EXCEPT !.transient = 0]
    <2>0. row.cycle + 1 \in 0 .. MaxDeliveryAttempts
      BY BudgetsArePositive DEF Cycles
    <2>1. /\ resend \in Row /\ resend.cycle = row.cycle + 1
          /\ resend.slot = row.slot /\ resend.comment = row.comment
      BY <2>0 DEF Row
    <2>2. /\ again \in Row /\ again.cycle = row.cycle + 1
          /\ again.slot = row.slot /\ again.comment = row.comment
      BY <2>1 DEF Row
    <2>3. CASE resend.cycle >= MaxDeliveryAttempts
      <3>1. ApplyDeliveryStatus(row, a) = GiveUp(resend)
        BY <1>2, <2>3 DEF ApplyDeliveryStatus
      <3> HIDE DEF resend
      <3> QED
        BY <1>2, <2>1, <3>1, RetryWrites
    <2>4. CASE ~(resend.cycle >= MaxDeliveryAttempts)
      <3>1. ApplyDeliveryStatus(row, a) = ScheduleRetry(again)
        BY <1>2, <2>4 DEF ApplyDeliveryStatus
      <3>2. row.cycle + 1 \in Cycles
        BY <2>1, <2>4, BudgetsArePositive DEF Cycles
      <3> HIDE DEF again
      <3> QED
        BY <1>2, <2>2, <3>1, <3>2, RetryWrites
    <2> QED
      BY <2>3, <2>4
  <1>3. CASE a \notin {"delivered", "failed"}
    BY <1>3 DEF ApplyDeliveryStatus
  <1> QED
    BY <1>1, <1>2, <1>3
=============================================================================
