------------------------ MODULE WebhookIntakeProofs -------------------------
(***************************************************************************)
(* EventIntake behind repeated and racing deliveries, for every number of  *)
(* threads, events and faults: what holds of the intake alone still does,  *)
(* and a 200 is a receipt.                                                 *)
(***************************************************************************)
EXTENDS EventIntakeProofs, WebhookIntake

\* How far each request has come, and what it and the sender may rely on.
ReqInv ==
    \A t \in Threads :
        /\ req[t].stage # "none" =>
               req[t].event \in EventId /\ \A d \in 1 .. (req[t].event - 1) : Stored(d)
        /\ req[t].stage \in {"count", "answer"} => Stored(req[t].event)

WInv == IInv /\ WTypeOK /\ ReqInv /\ AckedIsStored

-----------------------------------------------------------------------------
(* The intake.                                                             *)

\* A step of a request that is not an Insert leaves the events and the jobs alone.
Aside ==
    /\ UNCHANGED <<events, content, active, jobs, deleted, undo, task, decided, claimed, up>>
    /\ blocked' = blocked \/ (NoTxn /\ blocked' \in Nat)
    /\ faults' \in 0 .. MaxFaults

LEMMA AsideIInv == ASSUME IInv, Aside PROVE IInv'
<1> USE DEF IInv, Aside, task
<1>1. TypeOK'
  BY DEF TypeOK, NoTxn
<1>2. TaskInv'
  BY DEF TaskInv, HasRow
<1>3. Committed' = Committed
  BY DEF Committed, Snapshot, NoTxn
<1>4. TableInv(jobs)' /\ TableInv(Committed)'
  BY <1>3 DEF TableInv, HasRow
<1> QED
  BY <1>1, <1>2, <1>4

\* A first delivery arrives in its turn.
LEMMA InsertIsIngest ==
    ASSUME WInv, NEW t \in Threads, Insert(t)
    PROVE  req[t].event \in EventId /\ Ingest(req[t].event)
BY DEF WInv, ReqInv, Insert, At, Refused, Stored, Ingest, EventId

LEMMA CreditIsNat ==
    ASSUME IsFiniteSet(Slots), IInv, NEW e \in EventId
    PROVE  Cardinality(Matching(content[e])) \in Nat
<1>1. Matching(content[e]) \subseteq Slots
  BY DEF Matching, IInv, TypeOK
<1> QED
  BY <1>1, FS_Subset, FS_CardinalityType

LEMMA RequestIInv ==
    ASSUME IsFiniteSet(Slots), WInv, NEW t \in Threads, Request(t) PROVE IInv'
<1>1. CASE Insert(t)
  BY <1>1, InsertIsIngest, IngestIInv DEF WInv
<1>2. CASE CountReceived(t) \/ Answer(t)
  BY <1>2, AsideIInv DEF CountReceived, Answer, Aside, vars, rows, WInv, IInv, TypeOK
<1>3. CASE CountRepeat(t)
  <2>1. req[t].event \in EventId
    BY <1>3 DEF CountRepeat, At, WInv, ReqInv
  <2>2. Credit(req[t].event) \in Nat
    BY <2>1, CreditIsNat DEF Credit, WInv
  <2>3. blocked' \in Nat
    BY <1>3, <2>2 DEF CountRepeat, WInv, IInv, TypeOK
  <2> QED
    BY <1>3, <2>3, AsideIInv DEF CountRepeat, Aside, task, WInv, IInv, TypeOK
<1>4. CASE StoreFails(t)
  BY <1>4, AsideIInv, IntakeBounds DEF StoreFails, Aside, Fault, rows, task, WInv, IInv, TypeOK
<1> QED
  BY <1>1, <1>2, <1>3, <1>4 DEF Request

\* No step of the intake forgets an event, and only FinishEvent decides one.
LEMMA EventsStay ==
    ASSUME IInv, [Next]_vars
    PROVE  \A e \in EventId : /\ events[e] # "absent" => events'[e] # "absent"
                              /\ events[e] \in Final => events'[e] = events[e]
<1>1. CASE UNCHANGED vars
  BY <1>1 DEF vars
<1>2. CASE Others \/ \E e \in EventId : Ingest(e)
  BY <1>2 DEF Others, CreateRule, DMWorkerMoves, Ingest, IInv, TypeOK, Final
<1>3. CASE Worker
  <2>1. CASE ClaimPendingEvents
    BY <2>1 DEF ClaimPendingEvents, FirstReceived, Received, Final
  <2>2. CASE FinishEvent
    BY <2>2 DEF FinishEvent, Outcome, Idle, IInv, TypeOK, TaskInv, Final
  <2> QED
    BY <1>3, <2>1, <2>2 DEF Worker, BeginEvent, InsertJob, BlockDuplicate, RecordDeletion
<1>4. CASE Failures \/ Crash
  BY <1>4 DEF Failures, ProcessFails, RequeueFails, Restart, Crash, AfterFailure, Recovered,
     Idle, IInv, TypeOK, TaskInv, Final
<1> QED
  BY <1>1, <1>2, <1>3, <1>4 DEF Next

\* What a step of WSpec is to the intake.
LEMMA WNextIsNext ==
    ASSUME WInv, [WNext]_wvars
    PROVE  \/ [Next]_vars
           \/ UNCHANGED <<events, content, jobs, deleted, undo, cur>>
<1>1. ASSUME NEW t \in Threads, NEW e \in EventId, Deliver(t, e) PROVE UNCHANGED vars
  BY <1>1 DEF Deliver
<1>2. ASSUME NEW t \in Threads, Request(t)
      PROVE  [Next]_vars \/ UNCHANGED <<events, content, jobs, deleted, undo, cur>>
  BY <1>2, InsertIsIngest
     DEF Request, Next, CountReceived, CountRepeat, StoreFails, Answer, rows, task
<1> QED
  BY <1>1, <1>2 DEF WNext, wvars, CrashWithRequests, Next

-----------------------------------------------------------------------------
(* The requests.                                                           *)

\* Everything but a request and a crash leaves the requests alone, and which events
\* are stored.
LEMMA OthersStored ==
    ASSUME IInv, Others \/ Worker \/ Failures
    PROVE  \A e \in EventId : Stored(e)' <=> Stored(e)
<1>1. CASE Others
  BY <1>1 DEF Others, CreateRule, DMWorkerMoves, Stored
<1>2. CASE Worker
  <2>1. CASE ClaimPendingEvents
    BY <2>1 DEF ClaimPendingEvents, FirstReceived, Received, Stored
  <2>2. CASE FinishEvent
    BY <2>2 DEF FinishEvent, Outcome, Idle, IInv, TypeOK, TaskInv, Stored
  <2> QED
    BY <1>2, <2>1, <2>2
       DEF Worker, BeginEvent, InsertJob, BlockDuplicate, RecordDeletion, Stored
<1>3. CASE Failures
  BY <1>3 DEF Failures, ProcessFails, RequeueFails, Restart, AfterFailure, Recovered,
     Idle, IInv, TypeOK, TaskInv, Stored
<1> QED
  BY <1>1, <1>2, <1>3

\* The requests and the sender's knowledge after a step of thread t.
LEMMA ThreadStep ==
    ASSUME WInv, NEW t \in Threads, Request(t)
    PROVE  /\ \/ req'[t] = NoRequest
              \/ /\ req'[t].event = req[t].event /\ req[t].stage # "none"
                 /\ req'[t].stage \in {"count", "answer"} /\ Stored(req[t].event)'
           /\ \/ acked' = acked
              \/ /\ acked' = acked \cup {req[t].event}
                 /\ Stored(req[t].event) /\ req[t].stage # "none"
           /\ req' \in [Threads -> [event : EventId \cup {None}, stage : Stages]]
           /\ \A u \in Threads \ {t} : req'[u] = req[u]
           /\ \A e \in EventId : Stored(e) => Stored(e)'
<1> USE DEF WInv, ReqInv, WTypeOK, Goes, At, Stages
<1>1. CASE Insert(t)
  <2>1. req[t].event \in EventId /\ req[t].stage = "insert"
    BY <1>1 DEF Insert
  <2>2. /\ req' = [req EXCEPT ![t].stage = "count"] /\ acked' = acked
        /\ events' = [events EXCEPT ![req[t].event] = "received"]
    BY <1>1 DEF Insert
  <2>3. \A e \in EventId : e = req[t].event \/ Stored(e) => Stored(e)'
    BY <2>1, <2>2 DEF Stored, IInv, TypeOK
  <2>4. /\ req'[t] = [req[t] EXCEPT !.stage = "count"]
        /\ \A u \in Threads \ {t} : req'[u] = req[u]
        /\ req' \in [Threads -> [event : EventId \cup {None}, stage : Stages]]
    BY <2>1, <2>2
  <2>5. req'[t].event = req[t].event /\ req'[t].stage = "count"
    BY <2>4
  <2>6. Stored(req[t].event)'
    BY <2>1, <2>3, <2>5 DEF Stored
  <2> QED
    BY <2>1, <2>2, <2>3, <2>4, <2>5, <2>6
<1>2. CASE CountReceived(t)
  BY <1>2 DEF CountReceived, Stored, vars
<1>3. CASE CountRepeat(t)
  BY <1>3 DEF CountRepeat, Refused, Stored
<1>4. CASE StoreFails(t)
  <2>1. /\ req' = [req EXCEPT ![t] = NoRequest] /\ acked' = acked /\ events' = events
    BY <1>4 DEF StoreFails, TellFailure
  <2>2. req'[t] = NoRequest /\ \A u \in Threads \ {t} : req'[u] = req[u]
    BY <2>1
  <2>3. req' \in [Threads -> [event : EventId \cup {None}, stage : Stages]]
    BY <2>1 DEF NoRequest
  <2>4. \A e \in EventId : Stored(e) => Stored(e)'
    BY <2>1 DEF Stored
  <2> QED
    BY <2>1, <2>2, <2>3, <2>4
<1>5. CASE Answer(t)
  BY <1>5 DEF Answer, Stored, vars, NoRequest
<1> QED
  BY <1>1, <1>2, <1>3, <1>4, <1>5 DEF Request

LEMMA RequestWInv ==
    ASSUME IsFiniteSet(Slots), WInv, NEW t \in Threads, Request(t) PROVE WInv'
<1>1. IInv'
  BY RequestIInv
<1>2. extra' \in 0 .. MaxExtra /\ received' \in Nat
  BY DEF Request, Insert, CountReceived, CountRepeat, StoreFails, Answer, WInv, WTypeOK
<1>3. credit' \in Nat
  <2>1. req[t].stage = "insert" => Cardinality(Matching(content[req[t].event])) \in Nat
    BY CreditIsNat DEF WInv, ReqInv
  <2> QED
    BY <2>1 DEF Request, Insert, CountReceived, CountRepeat, StoreFails, Answer, At,
       WInv, WTypeOK
<1>4. WTypeOK'
  BY <1>2, <1>3, ThreadStep DEF WInv, WTypeOK, ReqInv
<1>5. ReqInv'
  <2> SUFFICES ASSUME NEW u \in Threads
               PROVE  /\ req'[u].stage # "none" =>
                             /\ req'[u].event \in EventId
                             /\ \A d \in 1 .. (req'[u].event - 1) : Stored(d)'
                      /\ req'[u].stage \in {"count", "answer"} => Stored(req[u].event)'
    BY DEF ReqInv, Stored
  <2>1. \A e \in EventId : \A d \in 1 .. (e - 1) : d \in EventId
    BY IntakeBounds DEF EventId
  <2>2. NoRequest.stage = "none"
    BY DEF NoRequest
  <2>3. \A e \in EventId : Stored(e) => Stored(e)'
    BY ThreadStep
  <2>4. CASE u = t
    <3>1. CASE req'[t] = NoRequest
      BY <2>2, <2>4, <3>1
    <3>2. CASE /\ req'[t].event = req[t].event /\ req[t].stage # "none"
               /\ req'[t].stage \in {"count", "answer"} /\ Stored(req[t].event)'
      BY <2>1, <2>3, <2>4, <3>2 DEF WInv, ReqInv, Stored
    <3> QED
      BY <3>1, <3>2, ThreadStep
  <2>5. CASE u # t
    <3>1. req'[u] = req[u]
      BY <2>5, ThreadStep
    <3> QED
      BY <2>1, <2>3, <3>1 DEF WInv, ReqInv, Stored
  <2> QED
    BY <2>4, <2>5
<1>6. AckedIsStored'
  BY ThreadStep DEF AckedIsStored, WInv, WTypeOK, ReqInv
<1> QED
  BY <1>1, <1>4, <1>5, <1>6 DEF WInv

\* Steps that begin no request's work: what is stored stays stored.
LEMMA KeepsWInv ==
    ASSUME WInv, IInv', \A e \in EventId : Stored(e) => Stored(e)',
           req' = req \/ req' = [t \in Threads |-> NoRequest],
           UNCHANGED <<acked, extra, received, credit>>
    PROVE  WInv'
<1>1. WTypeOK'
  BY DEF WInv, WTypeOK, NoRequest, Stages
<1>2. \A e \in EventId : \A d \in 1 .. (e - 1) : d \in EventId
  BY IntakeBounds DEF EventId
<1>3. ReqInv'
  BY <1>2 DEF WInv, ReqInv, NoRequest
<1>4. AckedIsStored'
  BY DEF WInv, AckedIsStored, WTypeOK
<1> QED
  BY <1>1, <1>3, <1>4 DEF WInv

LEMMA DeliverWInv ==
    ASSUME WInv, NEW t \in Threads, NEW e \in EventId, Deliver(t, e) PROVE WInv'
<1> USE DEF Deliver, WInv
<1>1. IInv'
  BY StutterIInv
<1>2. WTypeOK'
  BY WebhookBounds DEF WTypeOK, Stages
<1>3. events' = events
  BY DEF vars
<1>4. ReqInv' /\ AckedIsStored'
  BY <1>3 DEF ReqInv, AckedIsStored, Stored, WTypeOK
<1> QED
  BY <1>1, <1>2, <1>4

LEMMA InitWInv == WInit => WInv
BY InitIInv, WebhookBounds DEF WInit, WInv, WTypeOK, ReqInv, AckedIsStored, NoRequest, Stages

LEMMA NextWInv ==
    ASSUME IsFiniteSet(Slots) PROVE WInv /\ [WNext]_wvars => WInv'
<1> SUFFICES ASSUME WInv, [WNext]_wvars PROVE WInv'
  OBVIOUS
<1>1. CASE UNCHANGED wvars
  BY <1>1, StutterIInv, KeepsWInv DEF wvars, web, vars, WInv, Stored
<1>2. CASE CrashWithRequests
  <2>1. IInv' /\ \A e \in EventId : Stored(e) => Stored(e)'
    BY <1>2, CrashIInv DEF CrashWithRequests, Crash, WInv, Stored
  <2> QED
    BY <1>2, <2>1, KeepsWInv DEF CrashWithRequests
<1>3. CASE (Others \/ Worker \/ Failures) /\ UNCHANGED web
  <2>1. IInv'
    BY <1>3, NextIInv DEF Next, WInv
  <2> QED
    BY <1>3, <2>1, OthersStored, KeepsWInv DEF WInv, web
<1> QED
  BY <1>1, <1>2, <1>3, RequestWInv, DeliverWInv DEF WNext

\* The inductive invariant of the intake behind its endpoint.
THEOREM WebhookInvariant == ASSUME IsFiniteSet(Slots) PROVE WSpec => []WInv
BY InitWInv, NextWInv, PTL DEF WSpec

\* A 200 is a receipt, whatever raced or crashed (_store, receive_webhook).
THEOREM ReceiptsAreKept == ASSUME IsFiniteSet(Slots) PROVE WSpec => []AckedIsStored
<1>1. WInv => AckedIsStored
  BY DEF WInv
<1> QED
  BY <1>1, WebhookInvariant, PTL

\* What holds of processed events and deletions without repeated deliveries holds
\* with them (_handle_duplicate_event).
THEOREM RepeatsAreHarmless ==
    ASSUME IsFiniteSet(Slots) PROVE WSpec => [](ProcessedMeansJob /\ DeletionCatchesAll)
<1>1. WInv => ProcessedMeansJob /\ DeletionCatchesAll
  BY DEF WInv, IInv, TableInv, HasRow, ProcessedMeansJob, DeletionCatchesAll,
     CancellableStatuses
<1> QED
  BY <1>1, WebhookInvariant, PTL

\* An event is decided once, however often and concurrently it is delivered
\* (ingest_event's unique event_id, process_pending_events).
THEOREM EventsDecidedOnce == ASSUME IsFiniteSet(Slots) PROVE WSpec => DecidedOnce
<1>1. WInv /\ [WNext]_wvars
      => [\A e \in EventId : events[e] \in Final => events'[e] = events[e]]_wvars
  BY WNextIsNext, EventsStay DEF WInv
<1> QED
  BY <1>1, WebhookInvariant, PTL DEF WSpec, DecidedOnce

\* What the endpoint adds to the intake moves nothing on IntakeBoard: repeated and
\* racing deliveries, and requests that die, are steps of it or invisible there
\* (_store, _handle_duplicate_event).
THEOREM RepeatsImplementBoard == ASSUME IsFiniteSet(Slots) PROVE WSpec => ImplementsIntake
<1>1. WInv /\ SlotInv /\ TxnInv /\ [WNext]_wvars => (SlotInv /\ TxnInv)' /\ IntakeStep
  <2> SUFFICES ASSUME WInv, SlotInv, TxnInv, [WNext]_wvars
               PROVE  SlotInv' /\ TxnInv' /\ IntakeStep
    OBVIOUS
  <2>1. CASE [Next]_vars
    BY <2>1, NextTxnInv, NextIntake DEF WInv
  <2>2. CASE UNCHANGED <<events, content, jobs, deleted, undo, cur>>
    <3>1. Committed' = Committed /\ Uncommitted' = Uncommitted
      BY <2>2 DEF Committed, Uncommitted, Snapshot, NoTxn
    <3>2. SlotInv' /\ TxnInv'
      BY <2>2, <3>1 DEF SlotInv, TxnInv
    <3> QED
      BY <2>2, <3>1, <3>2, NotSeen
  <2> QED
    BY <2>1, <2>2, WNextIsNext
<1>2. WInit => SlotInv /\ TxnInv /\ Intake!Init
  BY InitTxnInv, InitIntake DEF WInit
<1> QED
  BY <1>1, <1>2, WebhookInvariant, PTL
  DEF ImplementsIntake, Intake!Spec, WSpec, IntakeStep

-----------------------------------------------------------------------------
(* The accounts.                                                           *)

\* What repeated deliveries are due, if they are to be counted.
Due == IF CountDuplicates THEN credit ELSE 0

DInv == WInv /\ TodoIsDecided /\ Books(Due)

\* Steps at the edge of the intake: the rows, the worker's task and the events
\* decided stay, and what a repeated delivery is due is blocked.
LEMMA EdgeBooks ==
    ASSUME IsFiniteSet(Slots), WInv, TodoIsDecided, Books(Due),
           UNCHANGED <<events, jobs, decided, cur, todo, undo>>,
           faults' = 0 => faults = 0,
           \/ UNCHANGED <<blocked, credit>>
           \/ NoTxn /\ \E c \in Nat : blocked' = blocked + c /\ Due' = Due + c
    PROVE  TodoIsDecided' /\ Books(Due)'
<1>1. DealtWith' = DealtWith /\ OwedPairs' = OwedPairs
  BY SamePairs
<1>2. RowsMade(jobs)' = RowsMade(jobs)
  BY DEF RowsMade
<1>3. TodoIsDecided'
  BY DEF TodoIsDecided
<1>4. CASE UNCHANGED <<blocked, credit>>
  <2>1. Due' = Due
    BY <1>4 DEF Due
  <2>2. PICK d : d = Due
    OBVIOUS
  <2>3. Books(d)'
    BY <1>1, <1>4, <2>2, QuietBooks
  <2> QED
    BY <1>3, <2>1, <2>2, <2>3 DEF Books
<1>5. CASE NoTxn /\ \E c \in Nat : blocked' = blocked + c /\ Due' = Due + c
  <2>1. PICK c \in Nat : blocked' = blocked + c /\ Due' = Due + c
    BY <1>5
  <2>2. /\ Committed = jobs /\ Committed' = jobs
        /\ Snapshot.blocked = blocked /\ Snapshot.blocked' = blocked'
    BY <1>5 DEF Committed, Snapshot, NoTxn
  <2>3. RowsMade(Committed)' = RowsMade(jobs)
    BY <2>2 DEF RowsMade
  <2>4. blocked \in Nat /\ Due \in Nat
    BY DEF Due, WInv, WTypeOK, IInv, TypeOK
  <2>5. Books(Due)'
    BY <1>1, <1>2, <2>1, <2>2, <2>3, <2>4, RowsAreCounted, PairsAreCounted DEF Books
  <2> QED
    BY <1>3, <2>5
<1> QED
  BY <1>4, <1>5

LEMMA RequestBooks ==
    ASSUME IsFiniteSet(Slots), DInv, NEW t \in Threads, Request(t)
    PROVE  TodoIsDecided' /\ Books(Due)'
<1> USE DEF DInv
<1>1. CASE Insert(t)
  <2>1. Due' = Due
    BY <1>1 DEF Due, Insert
  <2>2. PICK d : d = Due
    OBVIOUS
  <2>3. Ingest(req[t].event) /\ req[t].event \in EventId
    BY <1>1, InsertIsIngest
  <2>4. TodoIsDecided' /\ Books(d)'
    BY <2>2, <2>3, OthersBooks DEF WInv
  <2> QED
    BY <2>1, <2>2, <2>4 DEF Books
<1>2. CASE CountReceived(t) \/ Answer(t)
  BY <1>2, EdgeBooks DEF CountReceived, Answer, vars, rows, task
<1>3. CASE StoreFails(t)
  <2>1. faults' # 0
    BY <1>3, IntakeBounds DEF StoreFails, Fault, WInv, IInv, TypeOK
  <2> QED
    BY <1>3, <2>1, EdgeBooks DEF StoreFails, rows, task
<1>4. CASE CountRepeat(t)
  <2>1. Cardinality(Matching(content[req[t].event])) \in Nat
    BY <1>4, CreditIsNat DEF CountRepeat, At, WInv, ReqInv
  <2>2. /\ Credit(req[t].event) \in Nat /\ blocked' = blocked + Credit(req[t].event)
        /\ Due' = Due + Credit(req[t].event)
    BY <1>4, <2>1 DEF CountRepeat, Credit, Due
  <2> QED
    BY <1>4, <2>2, EdgeBooks DEF CountRepeat, task
<1> QED
  BY <1>1, <1>2, <1>3, <1>4 DEF Request

LEMMA NextDInv ==
    ASSUME IsFiniteSet(Slots) PROVE DInv /\ [WNext]_wvars => DInv'
<1> SUFFICES ASSUME DInv, [WNext]_wvars PROVE TodoIsDecided' /\ Books(Due)'
  BY NextWInv DEF DInv
<1> USE DEF DInv
<1>1. CASE UNCHANGED wvars
  BY <1>1, EdgeBooks DEF wvars, web, vars, rows, task
<1>2. ASSUME NEW t \in Threads, NEW e \in EventId, Deliver(t, e) PROVE TodoIsDecided' /\ Books(Due)'
  BY <1>2, EdgeBooks DEF Deliver, vars, rows, task
<1>3. CASE CrashWithRequests \/ ((Others \/ Worker \/ Failures) /\ UNCHANGED web)
  <2>1. Due' = Due
    BY <1>3 DEF Due, CrashWithRequests, web
  <2>2. PICK d : d = Due
    OBVIOUS
  <2>3. d \in Nat
    BY <2>2 DEF Due, WInv, WTypeOK
  <2>4. TodoIsDecided' /\ Books(d)'
    BY <1>3, <2>2, <2>3, OthersBooks, WorkerBooks, FailuresBooks DEF WInv, CrashWithRequests
  <2> QED
    BY <2>1, <2>2, <2>4 DEF Books
<1>4. ASSUME NEW t \in Threads, Request(t) PROVE TodoIsDecided' /\ Books(Due)'
  BY <1>4, RequestBooks
<1> QED
  BY <1>1, <1>2, <1>3, <1>4 DEF WNext

\* The books balance under both settings of COUNT_DUPLICATE_EVENTS_AS_BLOCKED.
THEOREM RepeatsAreAccounted ==
    ASSUME IsFiniteSet(Slots) PROVE WSpec => []DeliveriesAccounted
<1>1. WInit => DInv
  <2> SUFFICES ASSUME WInit PROVE TodoIsDecided /\ Books(Due)
    BY InitWInv DEF DInv
  <2>1. RowsMade(jobs) = {} /\ RowsMade(Committed) = {} /\ DealtWith = {} /\ OwedPairs = {}
    BY CommittedIsTable DEF WInit, Init, NoRow, RowsMade, DealtWith, OwedPairs, Final
  <2>2. blocked = 0 /\ Snapshot.blocked = 0 /\ cur = None /\ Due = 0
    BY DEF WInit, Init, Snapshot, NoTxn, Due
  <2> QED
    BY <2>1, <2>2, FS_EmptySet DEF Books, TodoIsDecided
<1>2. DInv => DeliveriesAccounted
  <2> SUFFICES ASSUME DInv PROVE DeliveriesAccounted
    OBVIOUS
  <2>1. Made = Cardinality(RowsMade(jobs)) /\ Owed = Cardinality(OwedPairs)
    BY DEF Made, Owed, RowsMade, OwedPairs
  <2>2. Cardinality(OwedPairs) <= Cardinality(DealtWith)
    BY OwedAreDealtWith
  <2>3. Idle => Cardinality(DealtWith) = Cardinality(OwedPairs)
    BY IdleBooks DEF DInv, WInv
  <2>4. /\ blocked \in Nat /\ Cardinality(RowsMade(jobs)) \in Nat /\ Due \in Nat
        /\ Cardinality(DealtWith) \in Nat /\ Cardinality(OwedPairs) \in Nat
    BY RowsAreCounted, PairsAreCounted DEF DInv, WInv, WTypeOK, IInv, TypeOK, Due
  <2>5. /\ Made + blocked >= Owed + Due
        /\ faults = 0 /\ Idle => Made + blocked = Owed + Due
    BY <2>1, <2>2, <2>3, <2>4 DEF DInv, Books
  <2> QED
    BY <2>5 DEF DeliveriesAccounted, Due
<1> QED
  BY <1>1, <1>2, NextDInv, PTL DEF WSpec

-----------------------------------------------------------------------------
(* The counter events_received.                                            *)

StoredEvents == {e \in EventId : Stored(e)}

Owing == {t \in Threads : req[t].stage = "count"}

\* An event stored is counted, about to be, or was lost to a fault; a fault loses at
\* most what the threads were about to count.
Honest ==
    /\ received + Cardinality(Owing) <= Cardinality(StoredEvents)
    /\ Cardinality(StoredEvents) <= received + Cardinality(Owing) + faults * Cardinality(Threads)

HInv == WInv /\ Honest

LEMMA HonestTypes ==
    ASSUME IsFiniteSet(Threads), WInv
    PROVE  /\ IsFiniteSet(StoredEvents) /\ IsFiniteSet(Owing)
           /\ Cardinality(StoredEvents) \in Nat /\ Cardinality(Owing) \in Nat
           /\ Cardinality(Threads) \in Nat /\ Cardinality(Owing) <= Cardinality(Threads)
           /\ received \in Nat /\ faults \in Nat
<1>1. IsFiniteSet(EventId)
  BY FS_Interval, IntakeBounds DEF EventId
<1>2. /\ StoredEvents \subseteq EventId
      /\ Owing \subseteq Threads
  BY DEF StoredEvents, Owing
<1>3. received \in Nat /\ faults \in Nat
  BY IntakeBounds DEF WInv, WTypeOK, IInv, TypeOK
<1> QED
  BY <1>1, <1>2, <1>3, FS_Subset, FS_CardinalityType

\* Steps after which the same events are stored and the same requests owe a count.
LEMMA SameHonest ==
    ASSUME IsFiniteSet(Threads), WInv, Honest, UNCHANGED received,
           StoredEvents' = StoredEvents, Owing' = Owing,
           faults' \in {faults, faults + 1}
    PROVE  Honest'
<1>1. /\ Cardinality(Threads) \in Nat /\ faults \in Nat
      /\ faults * Cardinality(Threads) \in Nat
      /\ (faults + 1) * Cardinality(Threads) = faults * Cardinality(Threads) + Cardinality(Threads)
  BY HonestTypes
<1>2. CASE faults' = faults
  BY <1>2 DEF Honest
<1>3. CASE faults' = faults + 1
  BY <1>1, <1>3, HonestTypes DEF Honest
<1> QED
  BY <1>2, <1>3

LEMMA RequestHonest ==
    ASSUME IsFiniteSet(Threads), HInv, NEW t \in Threads, Request(t) PROVE Honest'
<1> USE DEF HInv
<1>0. req \in [Threads -> [event : EventId \cup {None}, stage : Stages]]
  BY DEF WInv, WTypeOK
<1>1. CASE Insert(t)
  <2>1. /\ req[t].event \in EventId /\ ~Stored(req[t].event) /\ req[t].stage = "insert"
        /\ events' = [events EXCEPT ![req[t].event] = "received"]
        /\ req' = [req EXCEPT ![t].stage = "count"]
        /\ UNCHANGED <<received, faults>>
    BY <1>1, InsertIsIngest DEF Insert, Goes, At, Refused
  <2>2. StoredEvents' = StoredEvents \cup {req[t].event} /\ req[t].event \notin StoredEvents
    BY <2>1 DEF StoredEvents, Stored, WInv, IInv, TypeOK
  <2>3. Owing' = Owing \cup {t} /\ t \notin Owing
    BY <1>0, <2>1 DEF Owing
  <2>4. /\ Cardinality(StoredEvents') = Cardinality(StoredEvents) + 1
        /\ Cardinality(Owing') = Cardinality(Owing) + 1
    BY <2>2, <2>3, HonestTypes, FS_AddElement
  <2>5. faults * Cardinality(Threads) \in Nat
    BY HonestTypes
  <2> QED
    BY <2>1, <2>4, <2>5, HonestTypes DEF Honest
<1>2. CASE CountReceived(t)
  <2>1. /\ received' = received + 1 /\ req[t].stage = "count"
        /\ req' = [req EXCEPT ![t].stage = "answer"]
        /\ UNCHANGED <<events, faults>>
    BY <1>2 DEF CountReceived, Goes, At, vars
  <2>2. StoredEvents' = StoredEvents
    BY <2>1 DEF StoredEvents, Stored
  <2>3. Owing' = Owing \ {t} /\ t \in Owing
    BY <1>0, <2>1 DEF Owing
  <2>4. Cardinality(Owing') = Cardinality(Owing) - 1
    BY <2>3, HonestTypes, FS_RemoveElement
  <2>5. faults * Cardinality(Threads) \in Nat
    BY HonestTypes
  <2> QED
    BY <2>1, <2>2, <2>4, <2>5, HonestTypes DEF Honest
<1>3. CASE CountRepeat(t) \/ Answer(t)
  <2>1. /\ UNCHANGED <<events, received, faults>>
        /\ req[t].stage # "count" /\ req'[t].stage # "count"
        /\ \A u \in Threads \ {t} : req'[u] = req[u]
    BY <1>0, <1>3 DEF CountRepeat, Answer, Goes, At, NoRequest, vars
  <2>2. StoredEvents' = StoredEvents /\ Owing' = Owing
    BY <2>1 DEF StoredEvents, Stored, Owing
  <2> QED
    BY <2>1, <2>2, SameHonest
<1>4. CASE StoreFails(t)
  <2>1. /\ UNCHANGED <<events, received>> /\ faults' = faults + 1
        /\ req' = [req EXCEPT ![t] = NoRequest]
    BY <1>4 DEF StoreFails, Fault
  <2>2. StoredEvents' = StoredEvents
    BY <2>1 DEF StoredEvents, Stored
  <2>3. Owing' = Owing \ {t}
    BY <1>0, <2>1 DEF Owing, NoRequest
  <2>4. CASE t \notin Owing
    <3>1. Owing' = Owing
      BY <2>3, <2>4
    <3> QED
      BY <2>1, <2>2, <3>1, SameHonest
  <2>5. CASE t \in Owing
    <3>1. Cardinality(Owing') = Cardinality(Owing) - 1 /\ Cardinality(Owing) > 0
      BY <2>3, <2>5, HonestTypes, FS_RemoveElement, FS_EmptySet
    <3>2. /\ faults * Cardinality(Threads) \in Nat
          /\ (faults + 1) * Cardinality(Threads)
                 = faults * Cardinality(Threads) + Cardinality(Threads)
      BY HonestTypes
    <3> QED
      BY <2>1, <2>2, <3>1, <3>2, HonestTypes DEF Honest
  <2> QED
    BY <2>4, <2>5
<1> QED
  BY <1>1, <1>2, <1>3, <1>4 DEF Request

LEMMA OthersHonest ==
    ASSUME IsFiniteSet(Threads), HInv, (Others \/ Worker \/ Failures) /\ UNCHANGED web
    PROVE  Honest'
<1>1. faults' \in {faults, faults + 1}
  BY DEF Others, CreateRule, DMWorkerMoves, Worker, ClaimPendingEvents, BeginEvent, InsertJob,
     BlockDuplicate, RecordDeletion, FinishEvent, Failures, ProcessFails, RequeueFails,
     Restart, Fault
<1>2. StoredEvents' = StoredEvents
  BY OthersStored DEF StoredEvents, HInv, WInv
<1>3. Owing' = Owing /\ received' = received
  BY DEF web, Owing
<1> QED
  BY <1>1, <1>2, <1>3, SameHonest DEF HInv

LEMMA CrashHonest ==
    ASSUME IsFiniteSet(Threads), HInv, CrashWithRequests PROVE Honest'
<1>1. /\ UNCHANGED <<events, received>> /\ faults' = faults + 1
      /\ req' = [t \in Threads |-> NoRequest]
  BY DEF CrashWithRequests, Crash, Fault
<1>2. StoredEvents' = StoredEvents /\ Owing' = {}
  BY <1>1 DEF StoredEvents, Stored, Owing, NoRequest
<1>3. /\ faults * Cardinality(Threads) \in Nat
      /\ (faults + 1) * Cardinality(Threads) = faults * Cardinality(Threads) + Cardinality(Threads)
  BY HonestTypes DEF HInv
<1> QED
  BY <1>1, <1>2, <1>3, HonestTypes, FS_EmptySet DEF HInv, Honest

\* events_received never counts an event twice, and misses one only to a fault
\* (ingest_event's commit before the counter's).
THEOREM ReceivedCounterIsHonest ==
    ASSUME IsFiniteSet(Slots), IsFiniteSet(Threads) PROVE WSpec => []ReceivedIsHonest
<1>1. WInit => HInv
  <2> SUFFICES ASSUME WInit PROVE Honest
    BY InitWInv DEF HInv
  <2>1. StoredEvents = {} /\ Owing = {}
    BY DEF WInit, Init, NoRequest, StoredEvents, Stored, Owing
  <2>2. received = 0 /\ faults = 0 /\ Cardinality(Threads) \in Nat
    BY FS_CardinalityType DEF WInit, Init
  <2> QED
    BY <2>1, <2>2, FS_EmptySet DEF Honest
<1>2. HInv /\ [WNext]_wvars => HInv'
  <2> SUFFICES ASSUME HInv, [WNext]_wvars PROVE Honest'
    BY NextWInv DEF HInv
  <2>1. CASE UNCHANGED wvars
    <3>1. UNCHANGED <<events, req, received, faults>>
      BY <2>1 DEF wvars, web, vars
    <3>2. StoredEvents' = StoredEvents /\ Owing' = Owing
      BY <3>1 DEF StoredEvents, Stored, Owing
    <3> QED
      BY <3>1, <3>2, SameHonest DEF HInv
  <2>2. ASSUME NEW t \in Threads, NEW e \in EventId, Deliver(t, e) PROVE Honest'
    <3>1. /\ UNCHANGED <<events, received, faults>>
          /\ req[t].stage = "none" /\ req' = [req EXCEPT ![t] = [event |-> e, stage |-> "insert"]]
      BY <2>2 DEF Deliver, NoRequest, vars
    <3>2. StoredEvents' = StoredEvents /\ Owing' = Owing
      BY <3>1 DEF StoredEvents, Stored, Owing, HInv, WInv, WTypeOK
    <3> QED
      BY <3>1, <3>2, SameHonest DEF HInv
  <2> QED
    BY <2>1, <2>2, RequestHonest, OthersHonest, CrashHonest DEF WNext
<1>3. HInv => ReceivedIsHonest
  <2> SUFFICES ASSUME HInv PROVE ReceivedIsHonest
    OBVIOUS
  <2>1. /\ received + Cardinality(Owing) <= Cardinality(StoredEvents)
        /\ Cardinality(StoredEvents) - received
               <= Cardinality(Owing) + faults * Cardinality(Threads)
    <3>1. faults * Cardinality(Threads) \in Nat
      BY HonestTypes DEF HInv
    <3> QED
      BY <3>1, HonestTypes DEF HInv, Honest
  <2> QED
    BY <2>1, HonestTypes DEF HInv, ReceivedIsHonest, StoredEvents, Owing
<1> QED
  BY <1>1, <1>2, <1>3, PTL DEF WSpec

=============================================================================
