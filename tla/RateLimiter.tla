---------------------------- MODULE RateLimiter ----------------------------
(***************************************************************************)
(* RollingWindowRateLimiter with its send_attempt_log, the one DM worker   *)
(* that acquires a slot before every send, and the window PseudoGram keeps *)
(* of the requests that reach it.                                          *)
(*                                                                         *)
(* Time is a number of ticks.  A grant is an id, in order; `ts` is the     *)
(* timestamp the limiter appended for it.  The deque and the table are the *)
(* sets of the grants whose timestamps they hold.                          *)
(***************************************************************************)
EXTENDS Integers, FiniteSets

CONSTANTS
    MaxCalls,    \* send_rate_limit_max_calls
    Window,      \* send_rate_limit_window_seconds
    Safety,      \* send_rate_limit_safety_seconds
    MaxLatency,  \* pseudogram_timeout_seconds, from the timestamp of the grant
    MaxTime,     \* bound: ticks
    MaxGrants,   \* bound: sends
    MaxFaults,   \* bound: crashes, time-outs, failed accesses to the tables
    None

ASSUME LimiterConstants ==
    /\ MaxCalls \in Nat \ {0} /\ Window \in Nat \ {0} /\ Safety \in Nat
    /\ MaxLatency \in Nat /\ MaxTime \in Nat /\ MaxGrants \in Nat /\ MaxFaults \in Nat
ASSUME NoneIsNoTime == None \notin Int

GrantId == 1 .. MaxGrants

VARIABLES
    now,       \* the clock
    granted,   \* number of grants so far
    ts,        \* timestamp of each grant
    stamps,    \* the deque self._timestamps
    log,       \* send_attempt_log
    pc,        \* the worker: idle, sleeping, recording, sending, pausing; or down
    wake,      \* when the sleeper wakes
    sent,      \* grants for which acquire() returned
    arrived,   \* when PseudoGram got the request of each grant, unless a replay
    refused,   \* requests answered 429
    late,      \* requests given up on that may still arrive
    paused,    \* history: the worker paused for a 429 and nothing arrived since
    amnesia,   \* sends the process cannot know of: the table failed it
    faults

limiter  == <<granted, ts, stamps, pc, wake>>
provider == <<arrived, refused>>
outside  == <<sent, provider, late, paused>>
vars     == <<now, limiter, log, outside, amnesia, faults>>

Grants == 1 .. granted

TypeOK ==
    /\ now \in 0 .. MaxTime
    /\ granted \in 0 .. MaxGrants
    /\ ts \in [GrantId -> 0 .. MaxTime]
    /\ stamps \subseteq Grants
    /\ log \subseteq Grants
    /\ pc \in {"idle", "sleeping", "recording", "sending", "pausing", "down"}
    /\ wake \in Nat
    /\ sent \subseteq Grants
    /\ arrived \in [GrantId -> 0 .. MaxTime \cup {None}]
    /\ refused \subseteq sent /\ late \subseteq sent
    /\ paused \in BOOLEAN
    /\ amnesia \subseteq sent
    /\ Cardinality(stamps \ amnesia) <= MaxCalls
    /\ faults \in 0 .. MaxFaults

Init ==
    /\ now = 0 /\ granted = 0
    /\ ts = [g \in GrantId |-> 0]
    /\ stamps = {} /\ log = {}
    /\ pc = "idle" /\ wake = 0
    /\ sent = {} /\ arrived = [g \in GrantId |-> None]
    /\ refused = {} /\ late = {} /\ paused = FALSE
    /\ amnesia = {} /\ faults = 0

-----------------------------------------------------------------------------
Fault == faults < MaxFaults /\ faults' = faults + 1

Tick ==
    /\ now < MaxTime
    /\ pc \in {"recording", "sending"} => now < ts[granted] + MaxLatency
    /\ now' = now + 1
    /\ UNCHANGED <<limiter, log, outside, amnesia, faults>>

\* Mutant: a timestamp exactly one window old is kept.
Fresh_Inclusive(g) == ts[g] >= now - Window
\* What _trim keeps.
Fresh(g) == ts[g] > now - Window

Trimmed == {g \in stamps : Fresh(g)}

\* Mutant: off by one.
HasRoom_OffByOne == Cardinality(Trimmed) <= MaxCalls
HasRoom == Cardinality(Trimmed) < MaxCalls

\* The head of acquire's loop: a new call, or a sleeper that woke up.
Running == pc = "idle" \/ (pc = "sleeping" /\ now >= wake)

Grant ==
    /\ Running /\ HasRoom
    /\ granted < MaxGrants
    /\ granted' = granted + 1
    /\ ts' = [ts EXCEPT ![granted + 1] = now]
    /\ stamps' = Trimmed \cup {granted + 1}
    /\ pc' = "recording"
    /\ UNCHANGED <<now, wake, log, outside, amnesia, faults>>

Sleep ==
    /\ Running /\ ~HasRoom
    /\ stamps' = Trimmed
    /\ \E oldest \in Trimmed :
           /\ \A g \in Trimmed : oldest <= g
           /\ wake' = ts[oldest] + Window + Safety
    /\ pc' = "sleeping"
    /\ UNCHANGED <<now, granted, ts, log, outside, amnesia, faults>>

\* _persist, and acquire returns; a failure to write is logged and forgotten.
Persist ==
    /\ pc = "recording"
    /\ \/ log' = log \cup {granted} /\ UNCHANGED faults
       \/ Fault /\ UNCHANGED log
    /\ pc' = "sending"
    /\ sent' = sent \cup {granted}
    /\ UNCHANGED <<now, granted, ts, stamps, wake, provider, late, paused, amnesia>>

-----------------------------------------------------------------------------
(* PseudoGram's own window.                                                *)

\* The send times it keeps: those of the requests it did not refuse.
InWindow ==
    {g \in GrantId : g \notin refused /\ arrived[g] # None /\ arrived[g] > now - Window}

Full == Cardinality(InWindow) >= MaxCalls

\* The request of g arrives.  One with a known Idempotency-Key is answered
\* before the window is looked at.
Receive(g) ==
    \/ /\ arrived' = [arrived EXCEPT ![g] = now]
       /\ refused' = IF Full THEN refused \cup {g} ELSE refused
    \/ UNCHANGED provider

\* Mutant: Retry-After is forgotten, the worker goes on.
RetryAt_Now(first) == now
\* Retry-After: what is left of the oldest send's window, rounded up.
RetryAt(first) == first + Window + 1

\* penalise(): nothing is sent for as long as the 429 asks.
Penalise ==
    /\ pc' = "pausing" /\ paused' = TRUE
    /\ \E oldest \in InWindow :
           /\ \A g \in InWindow : arrived[oldest] <= arrived[g]
           /\ wake' = RetryAt(arrived[oldest])

GoOn == pc' = "idle" /\ paused' = FALSE /\ UNCHANGED wake

\* The answer: a 202 or an error, or a 429.  Its result is stored before the pause,
\* and an exception there releases the claim and skips penalise().
Arrive ==
    /\ pc = "sending"
    /\ Receive(granted)
    /\ \/ refused' = refused /\ GoOn /\ UNCHANGED faults
       \/ refused' # refused /\ Penalise /\ UNCHANGED faults
       \/ refused' # refused /\ GoOn /\ Fault
    /\ UNCHANGED <<now, granted, ts, stamps, log, sent, late, amnesia>>

\* A time-out or a broken connection; the request may still arrive, or never.
GiveUpOn ==
    /\ pc = "sending"
    /\ Fault
    /\ late' = late \cup {granted}
    /\ pc' = "idle"
    /\ UNCHANGED <<now, granted, ts, stamps, wake, log, sent, provider, paused, amnesia>>

ArriveLate(g) ==
    /\ g \in late
    /\ Receive(g)
    /\ late' = late \ {g}
    /\ paused' = FALSE
    /\ UNCHANGED <<now, limiter, log, sent, amnesia, faults>>

PauseEnds ==
    /\ pc = "pausing" /\ now >= wake
    /\ pc' = "idle"
    /\ UNCHANGED <<now, granted, ts, stamps, wake, log, outside, amnesia, faults>>

-----------------------------------------------------------------------------
\* The pause of penalise() is in memory only: a restart ends it.
Crash ==
    /\ pc # "down" /\ Fault
    /\ pc' = "down"
    /\ stamps' = {} /\ wake' = 0
    /\ late' = IF pc = "sending" THEN late \cup {granted} ELSE late
    /\ paused' = FALSE
    /\ UNCHANGED <<now, granted, ts, log, sent, provider, amnesia>>

\* Mutant: a restart begins with an empty window.
Reloaded_Nothing == {}
\* load_recent, prune and seed at one reading of the clock.
Reloaded == {g \in log : Fresh(g)}

WarmStart ==
    /\ pc = "down"
    /\ stamps' = Reloaded
    /\ log' = {g \in log : ts[g] >= now - Window}
    /\ amnesia' = amnesia \cup {g \in sent \ log : Fresh(g)}
    /\ pc' = "idle"
    /\ UNCHANGED <<now, granted, ts, wake, outside, faults>>

\* "never block startup on this": the window starts empty.
WarmStartFails ==
    /\ pc = "down" /\ Fault
    /\ amnesia' = amnesia \cup sent
    /\ pc' = "idle"
    /\ UNCHANGED <<now, granted, ts, stamps, wake, log, outside>>

Next ==
    \/ Tick \/ Grant \/ Sleep \/ Persist \/ Arrive \/ GiveUpOn \/ PauseEnds
    \/ \E g \in GrantId : ArriveLate(g)
    \/ Crash \/ WarmStart \/ WarmStartFails

Spec == Init /\ [][Next]_vars

-----------------------------------------------------------------------------
(* Safety.                                                                 *)

\* At most MaxCalls sends carry a timestamp of the last Window ticks, across
\* crashes and restarts, as long as the table does not lose them.
WindowRespected ==
    Cardinality({g \in sent \ amnesia : Fresh(g)}) <= MaxCalls

\* acquire sleeps once: the caller that wakes finds a free slot.  After a warm
\* start that failed the next one may load more than MaxCalls timestamps, and
\* then one sleep need not be enough.
WakeFindsSlot == amnesia = {} /\ pc = "sleeping" /\ now >= wake => HasRoom

Latency(g) == arrived[g] - ts[g]

\* A 429 is never the limiter's own doing: PseudoGram refuses only if of two
\* requests the earlier one was longer under way, which is what the margin does
\* not cover.  With a constant latency, whatever it is, nothing is refused.
RefusalNeedsDelay ==
    amnesia = {} /\ refused # {} =>
        \E g, h \in GrantId : /\ g < h /\ arrived[g] # None /\ arrived[h] # None
                              /\ Latency(g) > Latency(h)

\* Waiting for Retry-After is enough: the request after the pause is not refused.
\* The exceptions are those in which there was no pause to speak of: a request given
\* up on arrived in between, the process died and forgot the pause, or the 429 could
\* not be stored and penalise() was skipped (run_once).
PauseIsEnough == [][paused /\ late' = late => refused' = refused]_vars
=============================================================================
