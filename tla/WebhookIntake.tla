--------------------------- MODULE WebhookIntake ----------------------------
(***************************************************************************)
(* EventIntake behind POST /webhook: the sender delivers an event until it *)
(* is told 200, and perhaps again after that; the deliveries run as        *)
(* threads that race each other, the event worker and a crash.             *)
(*                                                                         *)
(* A request that fails the checks of size, signature, JSON or schema      *)
(* changes nothing and is left out.  So are the counter duplicate_events,  *)
(* which is shown nowhere, and the difference between a 503 and no answer  *)
(* at all: the sender delivers again after both.                           *)
(***************************************************************************)
EXTENDS EventIntake

CONSTANTS
    Threads,          \* requests in progress at a time
    MaxExtra,         \* bound: deliveries the sender makes without need
    CountDuplicates   \* settings.count_duplicate_events_as_blocked

ASSUME WebhookBounds == MaxExtra \in Nat /\ CountDuplicates \in BOOLEAN

VARIABLES
    req,       \* per thread: the event it stores and how far _store has come
    acked,     \* events the sender was told 200 for
    extra,     \* deliveries made without need
    received,  \* counters.events_received
    credit     \* history: rules that repeated deliveries matched

web   == <<req, acked, extra, received, credit>>
wvars == <<vars, web>>

Stages == {"none", "insert", "count", "answer"}

NoRequest == [event |-> None, stage |-> "none"]

WTypeOK ==
    /\ req \in [Threads -> [event : EventId \cup {None}, stage : Stages]]
    /\ acked \subseteq EventId
    /\ extra \in 0 .. MaxExtra
    /\ received \in Nat /\ credit \in Nat

WInit ==
    /\ Init
    /\ req = [t \in Threads |-> NoRequest]
    /\ acked = {}
    /\ extra = 0
    /\ received = 0 /\ credit = 0

-----------------------------------------------------------------------------
(* The sender.                                                             *)

InFlight(e) == \E t \in Threads : req[t].event = e

Needed(e) == e \notin acked /\ ~InFlight(e)

Stored(e) == events[e] # "absent"

\* Events are numbered in the order in which they are stored; a delivery has no
\* effect before it stores its event, so it need not begin before its turn.
Deliver(t, e) ==
    /\ up
    /\ req[t] = NoRequest
    /\ \A d \in 1 .. (e - 1) : Stored(d)
    /\ IF Needed(e) THEN UNCHANGED extra
                    ELSE extra < MaxExtra /\ extra' = extra + 1
    /\ req' = [req EXCEPT ![t] = [event |-> e, stage |-> "insert"]]
    /\ UNCHANGED <<vars, acked, received, credit>>

-----------------------------------------------------------------------------
(* The thread of _store.                                                   *)

At(t, stage) == up /\ req[t].stage = stage

Goes(t, stage) == req' = [req EXCEPT ![t].stage = stage]

\* Mutant: events.event_id is not UNIQUE.
Refused_Never(e) == FALSE
\* The INSERT meets the UNIQUE constraint on events.event_id.
Refused(e) == Stored(e)

\* The row is committed when the savepoint is released, before the counter.
Insert(t) ==
    LET e == req[t].event
    IN  /\ At(t, "insert") /\ NoTxn
        /\ ~Refused(e)
        /\ events' = [events EXCEPT ![e] = "received"]
        /\ Goes(t, "count")
        /\ UNCHANGED <<content, active, rows, task, decided, claimed, up, faults,
                       acked, extra, received, credit>>

CountReceived(t) ==
    /\ At(t, "count") /\ NoTxn
    /\ received' = received + 1
    /\ Goes(t, "answer")
    /\ UNCHANGED <<vars, acked, extra, credit>>

\* Mutant: a rule is credited although the comment is known to be deleted.
Credit_DeletedToo(e) == IF CountDuplicates THEN Cardinality(content[e].slots) ELSE 0
\* What a repeated delivery adds to duplicates_blocked: nothing by default.
Credit(e) == IF CountDuplicates THEN Cardinality(Matching(content[e])) ELSE 0

\* _handle_duplicate_event: one transaction, from the refused INSERT on.
CountRepeat(t) ==
    LET e == req[t].event
    IN  /\ At(t, "insert") /\ NoTxn
        /\ Refused(e)
        /\ blocked' = blocked + Credit(e)
        /\ credit' = credit + Cardinality(Matching(content[e]))
        /\ Goes(t, "answer")
        /\ UNCHANGED <<events, content, active, jobs, deleted, undo, task, decided,
                       claimed, up, faults, acked, extra, received>>

\* Mutant: the endpoint answers 200 whatever happened.
TellFailure_Ok(e) == acked \cup {e}
\* 503, "the sender will retry".
TellFailure(e) == acked

\* An exception, such as a lock that was not given up within its time-out.
StoreFails(t) ==
    /\ At(t, "insert") \/ At(t, "count")
    /\ Fault
    /\ acked' = TellFailure(req[t].event)
    /\ req' = [req EXCEPT ![t] = NoRequest]
    /\ UNCHANGED <<events, content, active, rows, task, decided, claimed, up,
                   extra, received, credit>>

\* The 200 reaches the sender.
Answer(t) ==
    /\ At(t, "answer")
    /\ acked' = acked \cup {req[t].event}
    /\ req' = [req EXCEPT ![t] = NoRequest]
    /\ UNCHANGED <<vars, extra, received, credit>>

-----------------------------------------------------------------------------
\* Requests die with the process.
CrashWithRequests ==
    /\ Crash
    /\ req' = [t \in Threads |-> NoRequest]
    /\ UNCHANGED <<acked, extra, received, credit>>

Request(t) ==
    Insert(t) \/ CountReceived(t) \/ CountRepeat(t) \/ StoreFails(t) \/ Answer(t)

WNext ==
    \/ \E t \in Threads, e \in EventId : Deliver(t, e)
    \/ \E t \in Threads : Request(t)
    \/ CrashWithRequests
    \/ (Others \/ Worker \/ Failures) /\ UNCHANGED web

WSpec == WInit /\ [][WNext]_wvars

\* The sender delivers what it was not told 200 for, threads run, and the event
\* worker and the process go on as in EventIntake.
WFairness ==
    /\ \A e \in EventId : WF_wvars(Needed(e) /\ \E t \in Threads : Deliver(t, e))
    /\ \A t \in Threads :
           WF_wvars(Insert(t) \/ CountReceived(t) \/ CountRepeat(t) \/ Answer(t))
    /\ WF_wvars(Worker /\ UNCHANGED web) /\ WF_wvars(Restart /\ UNCHANGED web)

WFairSpec == WSpec /\ WFairness

-----------------------------------------------------------------------------
(* Safety.                                                                 *)

\* A 200 is a receipt: the row is in the table, whichever of several concurrent
\* deliveries put it there and whatever crashed since.
AckedIsStored == \A e \in acked : Stored(e)

\* Repeated and concurrent deliveries change nothing for an event: once decided
\* it is never received again.
DecidedOnce ==
    [][\A e \in EventId : events[e] \in Final => events'[e] = events[e]]_wvars

\* events_received is honest: it never counts an event twice, and misses one only
\* when a fault came between the two commits of its first delivery.
ReceivedIsHonest ==
    LET short == Cardinality({e \in EventId : Stored(e)}) - received
        owing == Cardinality({t \in Threads : req[t].stage = "count"})
    IN  0 <= short /\ short <= owing + faults * Cardinality(Threads)

\* The books balance under both settings of COUNT_DUPLICATE_EVENTS_AS_BLOCKED
\* (_handle_duplicate_event): with it, jobs and blocked duplicates are never fewer
\* than the pairs of every matching delivery, repeated ones included, and exactly
\* as many while nothing failed; without it, repeated deliveries add nothing.
DeliveriesAccounted ==
    LET due == Owed + IF CountDuplicates THEN credit ELSE 0
    IN  /\ Made + blocked >= due
        /\ faults = 0 /\ Idle => Made + blocked = due

-----------------------------------------------------------------------------
(* Liveness.                                                               *)

\* From end to end: whatever is lost, refused, repeated or interrupted, each event
\* the sender has is decided.
EveryEventIsDecided == \A e \in EventId : <>(events[e] \in Final)
=============================================================================
