------------------------- MODULE RateLimiterProofs -------------------------
(***************************************************************************)
(* The window bound of RateLimiter for every value of its constants.       *)
(*                                                                         *)
(* The bound itself is not inductive: it needs that the deque holds every  *)
(* fresh send the process can know of (MemoryCovers), for the deque is     *)
(* what is counted, and that the table holds nothing but sends, for the    *)
(* deque is rebuilt from it.                                               *)
(***************************************************************************)
EXTENDS RateLimiter, FiniteSetTheorems, WellFoundedInduction, TLAPS

Known == {g \in sent \ amnesia : Fresh(g)}

MemoryCovers == pc # "down" => Known \subseteq stamps

CallInv ==
    /\ log \subseteq sent
    /\ pc = "down" => stamps = {}
    /\ pc \in {"recording", "sending"} => granted \in Grants
    /\ pc = "recording" => granted \in stamps /\ granted \notin sent
    /\ pc = "sending" => granted \in sent

SleepInv == pc = "sleeping" => \E g \in stamps : wake >= ts[g] + Window

IInv == TypeOK /\ CallInv /\ MemoryCovers /\ WindowRespected /\ SleepInv

-----------------------------------------------------------------------------
(* Finite sets of grants.                                                  *)

\* Any set of grants is finite, and a subset of one has no more elements.
LEMMA SmallerSet ==
    ASSUME NEW n \in Nat, NEW S \in SUBSET (1 .. n), NEW T \in SUBSET S
    PROVE  /\ IsFiniteSet(S) /\ IsFiniteSet(T)
           /\ Cardinality(S) \in Nat /\ Cardinality(T) \in Nat
           /\ Cardinality(T) <= Cardinality(S)
<1>1. IsFiniteSet(1 .. n)
  BY FS_Interval
<1>2. IsFiniteSet(S)
  BY <1>1, FS_Subset
<1>3. IsFiniteSet(T) /\ Cardinality(T) <= Cardinality(S)
  BY <1>2, FS_Subset
<1> QED
  BY <1>2, <1>3, FS_CardinalityType

\* One element more is one more at most.
LEMMA OneMore ==
    ASSUME NEW n \in Nat, NEW S \in SUBSET (1 .. n), NEW g
    PROVE  Cardinality(S \cup {g}) <= Cardinality(S) + 1
<1>1. IsFiniteSet(S)
  BY SmallerSet
<1> QED
  BY <1>1, FS_AddElement, FS_CardinalityType

\* A set with an element missing from its subset is larger than the subset.
LEMMA OneLess ==
    ASSUME NEW n \in Nat, NEW S \in SUBSET (1 .. n), NEW g \in S,
           NEW T \in SUBSET (S \ {g})
    PROVE  Cardinality(T) < Cardinality(S)
<1>1. IsFiniteSet(S) /\ Cardinality(S) \in Nat
  BY SmallerSet
<1>2. Cardinality(S \ {g}) = Cardinality(S) - 1
  BY <1>1, FS_RemoveElement
<1>3. S \ {g} \in SUBSET (1 .. n)
  OBVIOUS
<1>4. Cardinality(T) \in Nat /\ Cardinality(T) <= Cardinality(S \ {g})
  BY <1>3, SmallerSet
<1> QED
  BY <1>1, <1>2, <1>4

-----------------------------------------------------------------------------
(* The invariant.                                                          *)

LEMMA InitIInv == Init => IInv
<1> SUFFICES ASSUME Init PROVE IInv
  OBVIOUS
<1> USE DEF Init
<1>1. Cardinality(stamps \ amnesia) = 0 /\ Known = {}
  BY FS_EmptySet DEF Known
<1>2. TypeOK
  <2>1. ts \in [GrantId -> 0 .. MaxTime] /\ arrived \in [GrantId -> (0 .. MaxTime) \cup {None}]
    BY LimiterConstants
  <2>2. now \in 0 .. MaxTime /\ granted \in 0 .. MaxGrants /\ faults \in 0 .. MaxFaults
    BY LimiterConstants
  <2>3. stamps \subseteq Grants /\ log \subseteq Grants /\ sent \subseteq Grants
        /\ refused \subseteq sent /\ late \subseteq sent /\ amnesia \subseteq sent
    OBVIOUS
  <2>4. Cardinality(stamps \ amnesia) <= MaxCalls
    BY <1>1, LimiterConstants
  <2> QED
    BY <2>1, <2>2, <2>3, <2>4 DEF TypeOK
<1>3. CallInv /\ SleepInv
  BY DEF CallInv, SleepInv, Grants
<1>4. MemoryCovers /\ WindowRespected
  BY <1>1, FS_EmptySet, LimiterConstants DEF MemoryCovers, WindowRespected, Known
<1> QED
  BY <1>2, <1>3, <1>4 DEF IInv

\* While nothing is sent and no timestamp of a send changes, time can only take
\* sends out of the window.
LEMMA KnownShrinks ==
    ASSUME IInv, sent' \ amnesia' \subseteq sent \ amnesia,
           now' \in Nat, now <= now', \A g \in sent : ts'[g] = ts[g]
    PROVE  Known' \subseteq Known /\ WindowRespected'
<1> USE DEF IInv, TypeOK, Grants
<1>0. /\ granted \in Nat /\ now \in Int
      /\ \A g \in sent : g \in GrantId /\ ts[g] \in Int
  BY LimiterConstants DEF GrantId
<1>1. Known' \subseteq Known
  <2> SUFFICES ASSUME NEW g \in Known' PROVE g \in Known
    OBVIOUS
  <2>1. g \in sent \ amnesia /\ ts'[g] > now' - Window
    BY DEF Known, Fresh
  <2>2. ts[g] > now - Window
    BY <1>0, <2>1, LimiterConstants
  <2> QED
    BY <2>1, <2>2 DEF Known, Fresh
<1>2. Known \in SUBSET (1 .. granted)
  BY DEF Known
<1>3. Cardinality(Known') <= Cardinality(Known) /\ Cardinality(Known) \in Nat
      /\ Cardinality(Known') \in Nat
  BY <1>0, <1>1, <1>2, SmallerSet
<1> QED
  BY <1>1, <1>3, LimiterConstants DEF WindowRespected, Known

LEMMA TickIInv == IInv /\ Tick => IInv'
<1> SUFFICES ASSUME IInv, Tick PROVE IInv'
  OBVIOUS
<1> USE DEF IInv, Tick, limiter, outside, provider
<1>1. TypeOK'
  BY LimiterConstants DEF TypeOK, Grants
<1>2. CallInv' /\ SleepInv'
  BY DEF CallInv, SleepInv, Grants
<1>3. Known' \subseteq Known /\ WindowRespected'
  BY <1>1, KnownShrinks, LimiterConstants DEF TypeOK
<1>4. MemoryCovers'
  BY <1>3 DEF MemoryCovers
<1> QED
  BY <1>1, <1>2, <1>3, <1>4

\* What is known and in the window survives the trim.
LEMMA TrimmedCovers ==
    ASSUME IInv, pc # "down"
    PROVE  Known \subseteq Trimmed /\ Trimmed \subseteq stamps
BY DEF IInv, MemoryCovers, Known, Trimmed

LEMMA GrantIInv == IInv /\ Grant => IInv'
<1> SUFFICES ASSUME IInv, Grant PROVE IInv'
  OBVIOUS
<1> USE DEF IInv, Grant, outside, provider
<1>0. /\ granted \in Nat /\ granted + 1 \in GrantId /\ granted + 1 \notin sent
      /\ Grants \subseteq Grants'
      /\ pc # "down"
  BY LimiterConstants DEF TypeOK, Grants, GrantId, Running
<1>1. \A g \in sent : ts'[g] = ts[g]
  BY <1>0 DEF TypeOK
<1>2. Trimmed \in SUBSET (1 .. granted) /\ Trimmed \subseteq stamps
  BY DEF Trimmed, TypeOK, Grants
<1>3. Cardinality((Trimmed \ amnesia) \cup {granted + 1}) <= MaxCalls
  <2>1. Cardinality(Trimmed \ amnesia) <= Cardinality(Trimmed)
        /\ Cardinality(Trimmed \ amnesia) \in Nat /\ Cardinality(Trimmed) \in Nat
    BY <1>0, <1>2, SmallerSet
  <2>2. Trimmed \ amnesia \in SUBSET (1 .. granted)
    BY <1>2
  <2>3. Cardinality((Trimmed \ amnesia) \cup {granted + 1})
            <= Cardinality(Trimmed \ amnesia) + 1
    BY <1>0, <2>2, OneMore
  <2>4. Cardinality((Trimmed \ amnesia) \cup {granted + 1}) \in Nat
    <3>1. granted + 1 \in 1 .. (granted + 1) /\ 1 .. granted \subseteq 1 .. (granted + 1)
          /\ granted + 1 \in Nat
      BY <1>0
    <3>2. (Trimmed \ amnesia) \cup {granted + 1} \in SUBSET (1 .. (granted + 1))
      BY <1>2, <3>1
    <3> QED
      BY ONLY <3>1, <3>2, SmallerSet
  <2> QED
    BY <2>1, <2>3, <2>4, LimiterConstants DEF HasRoom
<1>4. stamps' \ amnesia' = (Trimmed \ amnesia) \cup {granted + 1}
  BY <1>0 DEF TypeOK
<1>5. TypeOK'
  <2>1. granted' \in 0 .. MaxGrants /\ ts' \in [GrantId -> 0 .. MaxTime]
    BY <1>0, LimiterConstants DEF TypeOK, GrantId
  <2>2. stamps' \subseteq Grants' /\ log' \subseteq Grants' /\ sent' \subseteq Grants'
    BY <1>0, <1>2 DEF TypeOK, Grants
  <2> QED
    BY <1>3, <1>4, <2>1, <2>2 DEF TypeOK
<1>6. CallInv' /\ SleepInv'
  BY <1>0 DEF CallInv, SleepInv, Grants
<1>7. Known' \subseteq Known /\ WindowRespected'
  BY <1>1, KnownShrinks, LimiterConstants DEF TypeOK
<1>8. MemoryCovers'
  BY <1>0, <1>7, TrimmedCovers DEF MemoryCovers
<1> QED
  BY <1>5, <1>6, <1>7, <1>8

LEMMA SleepIInv == IInv /\ Sleep => IInv'
<1> SUFFICES ASSUME IInv, Sleep PROVE IInv'
  OBVIOUS
<1> USE DEF IInv, Sleep, outside, provider
<1>0. pc # "down" /\ granted \in Nat
  BY DEF Running, TypeOK
<1>1. Trimmed \in SUBSET (1 .. granted) /\ Trimmed \subseteq stamps
  BY DEF Trimmed, TypeOK, Grants
<1>2. PICK oldest \in Trimmed : wake' = ts[oldest] + Window + Safety
  OBVIOUS
<1>3. ts[oldest] \in Nat
  BY <1>1, LimiterConstants DEF TypeOK, Grants, GrantId
<1>4. Cardinality(Trimmed \ amnesia) <= MaxCalls
  <2>1. stamps \ amnesia \in SUBSET (1 .. granted)
    BY DEF TypeOK, Grants
  <2>2. Trimmed \ amnesia \in SUBSET (stamps \ amnesia)
    BY <1>1
  <2>3. /\ Cardinality(stamps \ amnesia) \in Nat /\ Cardinality(Trimmed \ amnesia) \in Nat
        /\ Cardinality(Trimmed \ amnesia) <= Cardinality(stamps \ amnesia)
    BY <2>1, <2>2, <1>0, SmallerSet
  <2> QED
    BY <2>3, LimiterConstants DEF TypeOK
<1>5. TypeOK'
  <2>1. wake' \in Nat
    BY <1>2, <1>3, LimiterConstants
  <2> QED
    BY <1>1, <1>4, <2>1 DEF TypeOK, Grants
<1>6. CallInv'
  BY DEF CallInv, Grants
<1>7. SleepInv'
  BY <1>2, <1>3, LimiterConstants DEF SleepInv
<1>8. Known' \subseteq Known /\ WindowRespected'
  BY KnownShrinks, LimiterConstants DEF TypeOK
<1>9. MemoryCovers'
  BY <1>0, <1>8, TrimmedCovers DEF MemoryCovers
<1> QED
  BY <1>5, <1>6, <1>7, <1>8, <1>9

LEMMA PersistIInv == IInv /\ Persist => IInv'
<1> SUFFICES ASSUME IInv, Persist PROVE IInv'
  OBVIOUS
<1> USE DEF IInv, Persist, provider
<1>0. granted \in Grants /\ granted \in stamps /\ granted \in Nat
  BY DEF CallInv, TypeOK
<1>1. TypeOK'
  <2>1. faults' \in 0 .. MaxFaults
    BY LimiterConstants DEF TypeOK, Fault
  <2>2. log' \subseteq Grants' /\ sent' \subseteq Grants'
    BY <1>0 DEF TypeOK, Grants
  <2> QED
    BY <2>1, <2>2 DEF TypeOK, Grants
<1>2. CallInv' /\ SleepInv'
  BY <1>0 DEF CallInv, SleepInv, Grants
<1>3. Known' \subseteq Known \cup ({granted} \ amnesia)
  BY DEF Known, Fresh
<1>4. MemoryCovers'
  BY <1>0, <1>3 DEF MemoryCovers
<1>5. WindowRespected'
  <2>1. stamps \ amnesia \in SUBSET (1 .. granted)
    BY DEF TypeOK, Grants
  <2>2. Known' \in SUBSET (stamps \ amnesia)
    BY <1>0, <1>3 DEF MemoryCovers, Known
  <2>3. Cardinality(Known') <= Cardinality(stamps \ amnesia)
        /\ Cardinality(Known') \in Nat /\ Cardinality(stamps \ amnesia) \in Nat
    BY <1>0, <2>1, <2>2, SmallerSet
  <2> QED
    BY <2>3, LimiterConstants DEF TypeOK, WindowRespected, Known
<1> QED
  BY <1>1, <1>2, <1>4, <1>5

\* A request that is answered, given up on, late or waited for leaves the
\* limiter's memory alone.
LEMMA QuietStep ==
    ASSUME IInv, TypeOK', UNCHANGED <<now, granted, ts, stamps, log, sent, amnesia>>,
           \/ UNCHANGED <<pc, wake>>
           \/ pc # "down" /\ pc' \in {"idle", "pausing"}
    PROVE  IInv'
<1> USE DEF IInv
<1>1. CallInv'
  BY DEF CallInv, Grants
<1>2. SleepInv'
  BY DEF SleepInv
<1>3. Known' = Known /\ WindowRespected'
  BY DEF Known, Fresh, WindowRespected
<1>4. MemoryCovers'
  BY <1>3 DEF MemoryCovers
<1> QED
  BY <1>1, <1>2, <1>3, <1>4

\* Whatever arrives was sent.
LEMMA ReceiveTypes ==
    ASSUME TypeOK, NEW g \in sent, Receive(g)
    PROVE  /\ arrived' \in [GrantId -> (0 .. MaxTime) \cup {None}]
           /\ refused' \subseteq sent
BY DEF TypeOK, Receive, provider

LEMMA ArriveIInv == IInv /\ Arrive => IInv'
<1> SUFFICES ASSUME IInv, Arrive PROVE IInv'
  OBVIOUS
<1>1. granted \in sent /\ Receive(granted) /\ TypeOK
  BY DEF IInv, CallInv, Arrive
<1>2. wake' \in Nat
  <2>1. ASSUME NEW oldest \in InWindow PROVE RetryAt(arrived[oldest]) \in Nat
    BY <1>1, <2>1, LimiterConstants DEF InWindow, RetryAt, TypeOK
  <2> QED
    BY <1>1, <2>1 DEF Arrive, Penalise, GoOn, TypeOK
<1>3. pc # "down" /\ pc' \in {"idle", "pausing"} /\ paused' \in BOOLEAN
      /\ UNCHANGED <<now, granted, ts, stamps, log, sent, late, amnesia>>
  BY DEF Arrive, Penalise, GoOn
<1>4. faults' \in 0 .. MaxFaults
  BY <1>1, LimiterConstants DEF Arrive, Fault, TypeOK
<1>5. TypeOK'
  BY <1>1, <1>2, <1>3, <1>4, ReceiveTypes DEF TypeOK, Grants
<1> QED
  BY <1>3, <1>5, QuietStep

LEMMA GiveUpOnIInv == IInv /\ GiveUpOn => IInv'
<1> SUFFICES ASSUME IInv, GiveUpOn PROVE IInv'
  OBVIOUS
<1>1. granted \in sent
  BY DEF IInv, CallInv, GiveUpOn
<1>2. TypeOK'
  BY <1>1, LimiterConstants DEF IInv, TypeOK, GiveUpOn, Grants, Fault, provider
<1> QED
  BY <1>2, QuietStep DEF GiveUpOn

LEMMA ArriveLateIInv == ASSUME IInv, NEW g \in GrantId, ArriveLate(g) PROVE IInv'
<1>1. g \in sent /\ TypeOK
  BY DEF IInv, TypeOK, ArriveLate
<1>2. TypeOK'
  BY <1>1, ReceiveTypes DEF TypeOK, ArriveLate, Grants, limiter
<1> QED
  BY <1>2, QuietStep DEF ArriveLate, limiter

LEMMA PauseEndsIInv == IInv /\ PauseEnds => IInv'
<1> SUFFICES ASSUME IInv, PauseEnds PROVE IInv'
  OBVIOUS
<1>1. TypeOK'
  BY DEF IInv, TypeOK, PauseEnds, Grants, outside, provider
<1> QED
  BY <1>1, QuietStep DEF PauseEnds, outside

LEMMA CrashIInv == IInv /\ Crash => IInv'
<1> SUFFICES ASSUME IInv, Crash PROVE IInv'
  OBVIOUS
<1> USE DEF IInv, Crash, outside, provider
<1>1. Cardinality(stamps' \ amnesia') = 0
  <2>1. stamps' \ amnesia' = {}
    OBVIOUS
  <2> QED
    BY <2>1, FS_EmptySet
<1>2. TypeOK'
  <2>1. late' \subseteq sent' /\ faults' \in 0 .. MaxFaults
    BY LimiterConstants DEF TypeOK, CallInv, Fault
  <2>2. stamps' \subseteq Grants' /\ wake' \in Nat /\ paused' \in BOOLEAN
    OBVIOUS
  <2>3. Cardinality(stamps' \ amnesia') <= MaxCalls
    BY <1>1, LimiterConstants
  <2> QED
    BY <2>1, <2>2, <2>3 DEF TypeOK, Grants
<1>3. CallInv' /\ SleepInv' /\ MemoryCovers'
  BY DEF CallInv, SleepInv, MemoryCovers, Grants
<1>4. WindowRespected'
  BY KnownShrinks, LimiterConstants DEF TypeOK
<1> QED
  BY <1>2, <1>3, <1>4

LEMMA WarmStartIInv == IInv /\ WarmStart => IInv'
<1> SUFFICES ASSUME IInv, WarmStart PROVE IInv'
  OBVIOUS
<1> USE DEF IInv, WarmStart, outside, provider
<1>0. granted \in Nat /\ Known \in SUBSET (1 .. granted)
  <2>1. granted \in Nat /\ sent \subseteq 1 .. granted
    BY LimiterConstants DEF TypeOK, Grants
  <2> QED
    BY <2>1 DEF Known
<1>1. stamps' \ amnesia' \subseteq Known /\ Known' \subseteq stamps'
  BY DEF Reloaded, Known, CallInv, Fresh
<1>2. Known' \subseteq Known /\ WindowRespected'
  BY KnownShrinks, LimiterConstants DEF TypeOK
<1>3. Cardinality(stamps' \ amnesia') <= MaxCalls
  <2>1. /\ Cardinality(stamps' \ amnesia') <= Cardinality(Known)
        /\ Cardinality(stamps' \ amnesia') \in Nat /\ Cardinality(Known) \in Nat
    BY <1>0, <1>1, SmallerSet
  <2> QED
    BY <2>1, LimiterConstants DEF WindowRespected, Known
<1>4. TypeOK'
  BY <1>3, LimiterConstants DEF TypeOK, Grants, Reloaded
<1>5. CallInv' /\ SleepInv' /\ MemoryCovers'
  BY <1>1 DEF CallInv, SleepInv, MemoryCovers, Grants
<1> QED
  BY <1>2, <1>4, <1>5

LEMMA WarmStartFailsIInv == IInv /\ WarmStartFails => IInv'
<1> SUFFICES ASSUME IInv, WarmStartFails PROVE IInv'
  OBVIOUS
<1> USE DEF IInv, WarmStartFails, outside, provider
<1>1. stamps' \ amnesia' = {} /\ Known' = {}
  BY DEF CallInv, Known
<1>2. Cardinality(stamps' \ amnesia') = 0
  BY <1>1, FS_EmptySet
<1>3. TypeOK'
  BY <1>2, LimiterConstants DEF TypeOK, Grants, Fault
<1>4. CallInv' /\ SleepInv' /\ MemoryCovers'
  BY <1>1 DEF CallInv, SleepInv, MemoryCovers, Grants
<1>5. WindowRespected'
  BY KnownShrinks, LimiterConstants DEF TypeOK
<1> QED
  BY <1>3, <1>4, <1>5

LEMMA StutterIInv == IInv /\ UNCHANGED vars => IInv'
<1> SUFFICES ASSUME IInv, UNCHANGED vars PROVE IInv'
  OBVIOUS
<1> USE DEF IInv, vars, limiter, outside, provider
<1>1. TypeOK' /\ CallInv' /\ SleepInv'
  BY DEF TypeOK, CallInv, SleepInv, Grants
<1>2. MemoryCovers' /\ WindowRespected'
  BY DEF MemoryCovers, Known, WindowRespected, Fresh
<1> QED
  BY <1>1, <1>2

-----------------------------------------------------------------------------
(* The theorems.                                                           *)

LEMMA NextIInv == IInv /\ [Next]_vars => IInv'
BY TickIInv, GrantIInv, SleepIInv, PersistIInv, ArriveIInv, GiveUpOnIInv,
   ArriveLateIInv, PauseEndsIInv, CrashIInv, WarmStartIInv, WarmStartFailsIInv,
   StutterIInv DEF Next

\* The inductive invariant holds throughout: the deque is always the memory of
\* what was sent in the window, whatever crashes and fails (acquire, warm_start).
THEOREM Invariant == Spec => []IInv
BY InitIInv, NextIInv, PTL DEF Spec

\* The types, and the deque never holds more than MaxCalls sends the process
\* could know of.
THEOREM TypeCorrect == Spec => []TypeOK
<1>1. IInv => TypeOK
  BY DEF IInv
<1> QED
  BY <1>1, Invariant, PTL

\* Never more than MaxCalls sends in a rolling window, for every limit, window,
\* margin and number of restarts (RollingWindowRateLimiter.acquire).
THEOREM NeverOverTheLimit == Spec => []WindowRespected
<1>1. IInv => WindowRespected
  BY DEF IInv
<1> QED
  BY <1>1, Invariant, PTL

\* One sleep is enough: at the time computed from the oldest timestamp a slot is
\* free, whatever the margin (the wait_for of acquire).
THEOREM SleepsOnce == Spec => []WakeFindsSlot
<1>1. IInv => WakeFindsSlot
  <2> SUFFICES ASSUME IInv, amnesia = {}, pc = "sleeping", now >= wake
               PROVE  HasRoom
    BY DEF WakeFindsSlot
  <2> USE DEF IInv
  <2>1. PICK g \in stamps : wake >= ts[g] + Window
    BY DEF SleepInv
  <2>2. g \notin Trimmed
    BY <2>1, LimiterConstants DEF Trimmed, Fresh, TypeOK, Grants, GrantId
  <2>3. Trimmed \in SUBSET (stamps \ {g}) /\ stamps \in SUBSET (1 .. granted)
        /\ granted \in Nat
    BY <2>2 DEF Trimmed, TypeOK, Grants
  <2>4. Cardinality(Trimmed) < Cardinality(stamps)
    BY <2>3, OneLess
  <2>5. Cardinality(stamps) <= MaxCalls
    <3>1. stamps \ amnesia = stamps
      OBVIOUS
    <3> QED
      BY <3>1 DEF TypeOK
  <2>6. Cardinality(Trimmed) \in Nat /\ Cardinality(stamps) \in Nat
    BY <2>3, SmallerSet
  <2> QED
    BY <2>4, <2>5, <2>6, LimiterConstants DEF HasRoom
<1> QED
  BY <1>1, Invariant, PTL

-----------------------------------------------------------------------------
(***************************************************************************)
(* PseudoGram's own window: a refusal is the network's doing, and one      *)
(* pause is enough.                                                        *)
(*                                                                         *)
(* The first needs a fact about the past: when a grant was given, at most  *)
(* MaxCalls grants carried timestamps of its window (GrantHistory).  If    *)
(* every later request was as long under way as the earlier ones, the      *)
(* requests in PseudoGram's window would all be grants of one such window. *)
(***************************************************************************)

\* The known grants in the window in which h was granted.
GrantedWith(h) == {g \in sent \ amnesia : g <= h /\ ts[g] > ts[h] - Window}

GrantHistory == \A h \in sent : Cardinality(GrantedWith(h)) <= MaxCalls

RecordInv ==
    pc = "recording" =>
        \A g \in sent \ amnesia : ts[g] > ts[granted] - Window => g \in stamps

ArrivalInv ==
    /\ \A g \in GrantId : arrived[g] # None => g \in sent /\ arrived[g] <= now
    /\ \A g \in late : arrived[g] = None
    /\ pc \in {"recording", "sending"} => granted \notin late
    /\ pc = "sending" => arrived[granted] = None
    /\ Cardinality(InWindow) <= MaxCalls

\* o is the request whose age Retry-After is about.
PauseInv ==
    paused =>
        /\ pc = "pausing" =>
               \E o \in GrantId : /\ arrived[o] # None /\ arrived[o] + Window < wake
                                  /\ Cardinality(InWindow \cup {o}) <= MaxCalls
        /\ pc # "pausing" => Cardinality(InWindow) < MaxCalls

ProviderInv ==
    GrantHistory /\ RecordInv /\ ArrivalInv /\ PauseInv /\ RefusalNeedsDelay

-----------------------------------------------------------------------------
(* Sets of grants.                                                         *)

\* A non-empty set of grants has a last one.
LEMMA LastGrant ==
    ASSUME NEW S \in SUBSET GrantId, S # {}
    PROVE  \E m \in S : \A x \in S : x <= m
<1> DEFINE T == {MaxGrants - x : x \in S}
<1>1. \A x \in S : x \in Int /\ MaxGrants - x \in Nat
  BY LimiterConstants DEF GrantId
<1>2. T \subseteq Nat /\ T # {}
  BY <1>1
<1>3. PICK t \in T : \A u \in T : ~(<<u, t>> \in OpToRel(<, Nat))
  <2> HIDE DEF T
  <2> QED
    BY <1>2, NatLessThanWellFounded, WFMin
<1>4. PICK m \in S : t = MaxGrants - m
  OBVIOUS
<1>5. ASSUME NEW x \in S PROVE x <= m
  <2>1. ~(MaxGrants - x < MaxGrants - m)
    BY <1>1, <1>3, <1>4 DEF OpToRel
  <2> QED
    BY <2>1, <1>1, LimiterConstants
<1> QED
  BY <1>5

\* Sets of grants are finite, and counted by natural numbers.
LEMMA GrantSets ==
    ASSUME NEW S \in SUBSET GrantId, NEW T \in SUBSET S
    PROVE  /\ IsFiniteSet(S) /\ Cardinality(S) \in Nat /\ Cardinality(T) \in Nat
           /\ Cardinality(T) <= Cardinality(S)
BY SmallerSet, LimiterConstants DEF GrantId

\* What the types say of times and grants.
LEMMA Times ==
    ASSUME TypeOK
    PROVE  /\ now \in Nat /\ wake \in Nat /\ granted \in Nat
           /\ Grants \subseteq GrantId /\ sent \subseteq GrantId
           /\ \A g \in GrantId : ts[g] \in Nat /\ (arrived[g] = None \/ arrived[g] \in Nat)
           /\ Window \in Nat \ {0} /\ MaxCalls \in Nat \ {0} /\ None \notin Int
BY LimiterConstants, NoneIsNoTime DEF TypeOK, Grants, GrantId

\* PseudoGram's window only shrinks while nothing arrives.
LEMMA WindowShrinks ==
    ASSUME TypeOK, TypeOK', now <= now', arrived' = arrived, refused' = refused
    PROVE  /\ InWindow' \subseteq InWindow /\ InWindow \subseteq GrantId
           /\ \A S \in SUBSET GrantId :
                  Cardinality(InWindow' \cup S) <= Cardinality(InWindow \cup S)
<1>1. InWindow \subseteq GrantId
  BY DEF InWindow
<1>2. InWindow' \subseteq InWindow
  BY Times DEF InWindow, TypeOK
<1>3. ASSUME NEW S \in SUBSET GrantId
      PROVE  Cardinality(InWindow' \cup S) <= Cardinality(InWindow \cup S)
  <2>1. InWindow \cup S \in SUBSET GrantId
    BY <1>1
  <2>2. InWindow' \cup S \in SUBSET (InWindow \cup S)
    BY <1>2
  <2> QED
    BY <2>1, <2>2, GrantSets
<1> QED
  BY <1>1, <1>2, <1>3

-----------------------------------------------------------------------------
(* Steps in which nothing arrives.                                         *)

\* A witness of delay stays one while nothing arrives.
LEMMA DelayStays ==
    ASSUME RefusalNeedsDelay, ArrivalInv, amnesia \subseteq amnesia',
           \A g \in sent : ts'[g] = ts[g], arrived' = arrived, refused' = refused
    PROVE  RefusalNeedsDelay'
BY DEF RefusalNeedsDelay, Latency, ArrivalInv

\* The history of the grants is about sends that are known.
LEMMA HistoryStays ==
    ASSUME TypeOK, GrantHistory, sent' = sent, amnesia \subseteq amnesia',
           \A g \in sent : ts'[g] = ts[g]
    PROVE  GrantHistory'
<1> SUFFICES ASSUME NEW h \in sent PROVE Cardinality(GrantedWith(h)') <= MaxCalls
  BY DEF GrantHistory
<1>1. GrantedWith(h)' \in SUBSET GrantedWith(h) /\ GrantedWith(h) \in SUBSET GrantId
  BY Times DEF GrantedWith
<1>2. /\ Cardinality(GrantedWith(h)') <= Cardinality(GrantedWith(h))
      /\ Cardinality(GrantedWith(h)') \in Nat /\ Cardinality(GrantedWith(h)) \in Nat
  BY <1>1, GrantSets
<1> QED
  BY <1>2, LimiterConstants DEF GrantHistory

-----------------------------------------------------------------------------
(* A request arrives.                                                      *)

\* A request that finds PseudoGram's window full was overtaken by a later one, or
\* overtook an earlier one: the requests in the window and this one are too many
\* for one window of grants.
LEMMA CrowdedWindow ==
    ASSUME TypeOK, GrantHistory, ArrivalInv, amnesia = {}, Full,
           NEW g \in sent, arrived[g] = None,
           arrived' = [arrived EXCEPT ![g] = now], ts' = ts
    PROVE  \E x, y \in GrantId : /\ x < y /\ arrived'[x] # None /\ arrived'[y] # None
                                 /\ Latency(x)' > Latency(y)'
<1> DEFINE S == InWindow \cup {g}
<1>1. S \in SUBSET GrantId /\ S \subseteq sent /\ g \notin InWindow
  BY Times DEF InWindow, ArrivalInv
<1>2. Cardinality(S) > MaxCalls
  <2>1. IsFiniteSet(InWindow) /\ Cardinality(InWindow) \in Nat
    BY GrantSets DEF InWindow
  <2>2. Cardinality(S) = Cardinality(InWindow) + 1
    BY <1>1, <2>1, FS_AddElement
  <2> QED
    BY <2>1, <2>2, LimiterConstants DEF Full
<1>3. \A x \in S : arrived'[x] \in Nat /\ arrived'[x] <= now /\ arrived'[x] > now - Window
  BY <1>1, Times, LimiterConstants DEF InWindow, ArrivalInv, TypeOK
<1>4. PICK m \in S : \A x \in S : x <= m
  <2> HIDE DEF S
  <2>1. S # {}
    BY DEF S
  <2> QED
    BY <1>1, <2>1, LastGrant
<1>5. PICK x \in S : x \notin GrantedWith(m)
  <2>1. GrantedWith(m) \in SUBSET GrantId
    BY Times DEF GrantedWith
  <2>2. Cardinality(GrantedWith(m)) <= MaxCalls /\ Cardinality(GrantedWith(m)) \in Nat
    BY <1>1, <2>1, GrantSets DEF GrantHistory
  <2>3. ASSUME S \subseteq GrantedWith(m) PROVE FALSE
    <3>1. Cardinality(S) <= Cardinality(GrantedWith(m)) /\ Cardinality(S) \in Nat
      BY <2>1, <2>3, GrantSets
    <3> QED
      BY <1>2, <2>2, <3>1, LimiterConstants
  <2> QED
    BY <2>3
<1>6. ts[x] <= ts[m] - Window /\ x <= m
  BY <1>1, <1>4, <1>5, Times DEF GrantedWith
<1>7. x \in GrantId /\ m \in GrantId /\ ts[x] \in Nat /\ ts[m] \in Nat /\ x \in Int /\ m \in Int
  BY <1>1, Times DEF GrantId
<1>8. x < m
  BY <1>6, <1>7, LimiterConstants
<1>9. Latency(x)' > Latency(m)'
  BY <1>3, <1>6, <1>7, Times DEF Latency
<1>10. arrived'[x] # None /\ arrived'[m] # None
  BY <1>3, NoneIsNoTime
<1> QED
  BY <1>7, <1>8, <1>9, <1>10

\* What an arrival does to PseudoGram's window and to its refusals.
LEMMA ReceiveStep ==
    ASSUME TypeOK, ProviderInv, NEW g \in sent, arrived[g] = None, Receive(g),
           UNCHANGED <<now, ts, sent, amnesia>>
    PROVE  /\ \A x \in GrantId : arrived'[x] # None => x \in sent /\ arrived'[x] <= now
           /\ \A x \in GrantId \ {g} : arrived'[x] = arrived[x]
           /\ Cardinality(InWindow') <= MaxCalls
           /\ refused' # refused => InWindow' = InWindow /\ Full
           /\ RefusalNeedsDelay'
<1> USE DEF ProviderInv
<1>1. CASE UNCHANGED provider
  <2>1. InWindow' = InWindow
    BY <1>1 DEF InWindow, provider
  <2> QED
    BY <1>1, <2>1, DelayStays DEF provider, ArrivalInv
<1>2. CASE /\ arrived' = [arrived EXCEPT ![g] = now]
           /\ refused' = IF Full THEN refused \cup {g} ELSE refused
  <2>1. g \in GrantId /\ arrived \in [GrantId -> (0 .. MaxTime) \cup {None}]
    BY Times DEF TypeOK
  <2>2. \A x \in GrantId : arrived'[x] = IF x = g THEN now ELSE arrived[x]
    BY <1>2, <2>1
  <2>3. \A x \in GrantId : arrived'[x] # None => x \in sent /\ arrived'[x] <= now
    BY <2>2, Times DEF ArrivalInv
  <2>4. InWindow \in SUBSET GrantId /\ g \notin InWindow
    BY DEF InWindow
  <2>5. CASE Full
    <3>1. InWindow' = InWindow
      BY <1>2, <2>2, <2>5 DEF InWindow
    <3>2. RefusalNeedsDelay'
      BY <1>2, <2>5, CrowdedWindow DEF RefusalNeedsDelay
    <3> QED
      BY <2>2, <2>3, <2>5, <3>1, <3>2 DEF ArrivalInv
  <2>6. CASE ~Full
    <3>1. InWindow' \in SUBSET (InWindow \cup {g}) /\ refused' = refused
      BY <1>2, <2>2, <2>6 DEF InWindow
    <3>2. Cardinality(InWindow') <= MaxCalls
      <4>1. InWindow \cup {g} \in SUBSET GrantId
        BY <2>1, <2>4
      <4>2. /\ Cardinality(InWindow') <= Cardinality(InWindow \cup {g})
            /\ Cardinality(InWindow') \in Nat /\ Cardinality(InWindow \cup {g}) \in Nat
        BY <3>1, <4>1, GrantSets
      <4>3. IsFiniteSet(InWindow) /\ Cardinality(InWindow) \in Nat
        BY <2>4, GrantSets
      <4>4. Cardinality(InWindow \cup {g}) = Cardinality(InWindow) + 1
        BY <2>4, <4>3, FS_AddElement
      <4> QED
        BY <2>6, <4>2, <4>3, <4>4, LimiterConstants DEF Full
    <3>3. RefusalNeedsDelay'
      BY <2>2, <3>1 DEF RefusalNeedsDelay, Latency
    <3> QED
      BY <2>2, <2>3, <3>1, <3>2, <3>3
  <2> QED
    BY <2>5, <2>6
<1> QED
  BY <1>1, <1>2 DEF Receive

-----------------------------------------------------------------------------
(* The invariant.                                                          *)

LEMMA InitProviderInv == Init => ProviderInv
<1> SUFFICES ASSUME Init PROVE ProviderInv
  OBVIOUS
<1>1. InWindow = {}
  BY DEF Init, InWindow
<1>2. Cardinality(InWindow) = 0
  BY <1>1, FS_EmptySet
<1> QED
  BY <1>2, LimiterConstants
  DEF Init, ProviderInv, GrantHistory, RecordInv, ArrivalInv, PauseInv, RefusalNeedsDelay

\* Nothing arrives, nothing is sent: what is known of both stays known.
LEMMA QuietProvider ==
    ASSUME TypeOK, TypeOK', ProviderInv, now <= now', UNCHANGED <<sent, provider>>,
           amnesia \subseteq amnesia', \A g \in sent : ts'[g] = ts[g]
    PROVE  /\ GrantHistory' /\ RefusalNeedsDelay'
           /\ \A g \in GrantId : arrived'[g] # None => g \in sent' /\ arrived'[g] <= now'
           /\ Cardinality(InWindow') <= Cardinality(InWindow)
           /\ Cardinality(InWindow) \in Nat /\ Cardinality(InWindow') \in Nat
           /\ Cardinality(InWindow') <= MaxCalls
<1> USE DEF ProviderInv, provider
<1>1. GrantHistory' /\ RefusalNeedsDelay'
  BY HistoryStays, DelayStays
<1>2. \A g \in GrantId : arrived'[g] # None => g \in sent' /\ arrived'[g] <= now'
  BY Times DEF ArrivalInv, TypeOK
<1>3. InWindow' \in SUBSET InWindow /\ InWindow \in SUBSET GrantId
  BY WindowShrinks
<1>4. /\ Cardinality(InWindow') <= Cardinality(InWindow)
      /\ Cardinality(InWindow) \in Nat /\ Cardinality(InWindow') \in Nat
  BY <1>3, GrantSets
<1> QED
  BY <1>1, <1>2, <1>4, LimiterConstants DEF ArrivalInv

LEMMA TickProvider == ASSUME IInv, IInv', ProviderInv, Tick PROVE ProviderInv'
<1> USE DEF IInv, Tick, limiter, outside, provider
<1>0. now <= now'
  BY Times
<1>1. /\ GrantHistory' /\ RefusalNeedsDelay'
      /\ \A g \in GrantId : arrived'[g] # None => g \in sent' /\ arrived'[g] <= now'
      /\ Cardinality(InWindow') <= Cardinality(InWindow)
      /\ Cardinality(InWindow) \in Nat /\ Cardinality(InWindow') \in Nat
      /\ Cardinality(InWindow') <= MaxCalls
  BY <1>0, QuietProvider
<1>2. ArrivalInv' /\ RecordInv'
  BY <1>1 DEF ProviderInv, ArrivalInv, RecordInv
<1>3. PauseInv'
  <2>1. CASE paused /\ pc = "pausing"
    <3>1. PICK o \in GrantId : /\ arrived[o] # None /\ arrived[o] + Window < wake
                               /\ Cardinality(InWindow \cup {o}) <= MaxCalls
      BY <2>1 DEF ProviderInv, PauseInv
    <3>2. Cardinality(InWindow' \cup {o}) <= Cardinality(InWindow \cup {o})
      BY <1>0, WindowShrinks
    <3>3. Cardinality(InWindow' \cup {o}) \in Nat /\ Cardinality(InWindow \cup {o}) \in Nat
      <4>1. InWindow \cup {o} \in SUBSET GrantId /\ InWindow' \cup {o} \in SUBSET GrantId
        BY DEF InWindow
      <4> QED
        BY <4>1, GrantSets
    <3>4. Cardinality(InWindow' \cup {o}) <= MaxCalls
      BY <3>1, <3>2, <3>3, LimiterConstants
    <3>5. arrived'[o] # None /\ arrived'[o] + Window < wake' /\ pc' = "pausing"
      BY <2>1, <3>1
    <3> QED
      BY <3>4, <3>5 DEF PauseInv
  <2>2. CASE ~(paused /\ pc = "pausing")
    BY <1>1, <2>2, LimiterConstants DEF ProviderInv, PauseInv
  <2> QED
    BY <2>1, <2>2
<1> QED
  BY <1>1, <1>2, <1>3 DEF ProviderInv

\* acquire: the deque of a new grant holds every known send of its window.
LEMMA GrantProvider == ASSUME IInv, IInv', ProviderInv, Grant PROVE ProviderInv'
<1> USE DEF IInv, Grant, outside, provider
<1>0. /\ now \in Nat /\ granted + 1 \in GrantId /\ granted + 1 \notin sent /\ pc # "down"
      /\ pc # "pausing"
  BY LimiterConstants DEF TypeOK, Grants, GrantId, Running
<1>1. \A g \in sent : ts'[g] = ts[g]
  BY <1>0 DEF TypeOK
<1>2. /\ GrantHistory' /\ RefusalNeedsDelay'
      /\ \A g \in GrantId : arrived'[g] # None => g \in sent' /\ arrived'[g] <= now'
      /\ Cardinality(InWindow') <= Cardinality(InWindow)
      /\ Cardinality(InWindow) \in Nat /\ Cardinality(InWindow') \in Nat
      /\ Cardinality(InWindow') <= MaxCalls
  BY <1>0, <1>1, QuietProvider
<1>3. RecordInv'
  <2> SUFFICES ASSUME NEW g \in sent \ amnesia, ts[g] > now - Window PROVE g \in stamps'
    BY <1>0, <1>1 DEF RecordInv, TypeOK
  <2>1. g \in Known
    BY DEF Known, Fresh
  <2> QED
    BY <1>0, <2>1, TrimmedCovers
<1>4. ArrivalInv'
  BY <1>0, <1>2 DEF ProviderInv, ArrivalInv, TypeOK
<1>5. PauseInv'
  BY <1>0, <1>2, LimiterConstants DEF ProviderInv, PauseInv
<1> QED
  BY <1>2, <1>3, <1>4, <1>5 DEF ProviderInv

\* acquire returns: the new send and the known ones of its window fit in the deque.
LEMMA PersistProvider == ASSUME IInv, IInv', ProviderInv, Persist PROVE ProviderInv'
<1> USE DEF IInv, Persist, provider
<1>0. /\ granted \in stamps /\ granted \in Grants /\ granted \notin sent
      /\ granted \notin amnesia /\ stamps \in SUBSET GrantId
      /\ \A h \in sent : h <= granted /\ h \in Nat
  BY Times DEF CallInv, TypeOK, Grants, GrantId
<1>1. GrantHistory'
  <2> SUFFICES ASSUME NEW h \in sent' PROVE Cardinality(GrantedWith(h)') <= MaxCalls
    BY DEF GrantHistory
  <2>1. CASE h \in sent
    <3>1. GrantedWith(h)' = GrantedWith(h)
      BY <1>0, <2>1, Times DEF GrantedWith
    <3> QED
      BY <2>1, <3>1 DEF ProviderInv, GrantHistory
  <2>2. CASE h = granted
    <3>1. GrantedWith(h)' \in SUBSET (stamps \ amnesia)
      BY <1>0, <2>2 DEF GrantedWith, ProviderInv, RecordInv
    <3>2. /\ Cardinality(GrantedWith(h)') <= Cardinality(stamps \ amnesia)
          /\ Cardinality(GrantedWith(h)') \in Nat /\ Cardinality(stamps \ amnesia) \in Nat
      <4>1. stamps \ amnesia \in SUBSET GrantId
        BY <1>0
      <4> QED
        BY <3>1, <4>1, GrantSets
    <3> QED
      BY <3>2, LimiterConstants DEF TypeOK
  <2> QED
    BY <2>1, <2>2
<1>2. InWindow' = InWindow
  BY DEF InWindow
<1>3. RefusalNeedsDelay' /\ RecordInv' /\ PauseInv'
  BY <1>2, DelayStays DEF ProviderInv, RecordInv, PauseInv
<1>4. ArrivalInv'
  BY <1>0, <1>2, Times DEF ProviderInv, ArrivalInv
<1> QED
  BY <1>1, <1>3, <1>4 DEF ProviderInv

\* The answer: where the worker pauses, the window is that of the refusal.
LEMMA ArriveProvider == ASSUME IInv, IInv', ProviderInv, Arrive PROVE ProviderInv'
<1> USE DEF IInv, Arrive, ProviderInv
<1>0. granted \in sent /\ arrived[granted] = None
  BY DEF CallInv, ArrivalInv
<1>1. /\ \A x \in GrantId : arrived'[x] # None => x \in sent /\ arrived'[x] <= now
      /\ \A x \in GrantId \ {granted} : arrived'[x] = arrived[x]
      /\ Cardinality(InWindow') <= MaxCalls
      /\ refused' # refused => InWindow' = InWindow /\ Full
      /\ RefusalNeedsDelay'
  BY <1>0, ReceiveStep
<1>2. GrantHistory' /\ RecordInv'
  BY HistoryStays DEF RecordInv, Penalise, GoOn
<1>3. ArrivalInv'
  BY <1>1, Times DEF ArrivalInv, TypeOK, Penalise, GoOn
<1>4. PauseInv'
  <2> SUFFICES ASSUME refused' # refused, Penalise PROVE PauseInv'
    BY DEF PauseInv, GoOn
  <2>1. PICK oldest \in InWindow : wake' = RetryAt(arrived[oldest])
    BY DEF Penalise
  <2>2. oldest \in GrantId /\ arrived[oldest] # None /\ oldest # granted
        /\ arrived[oldest] \in Nat
    BY <1>0, <2>1, Times DEF InWindow
  <2>3. arrived'[oldest] + Window < wake' /\ arrived'[oldest] # None
    BY <1>1, <2>1, <2>2, LimiterConstants DEF RetryAt
  <2>4. InWindow' \cup {oldest} = InWindow'
    BY <1>1, <2>1
  <2> QED
    BY <1>1, <2>2, <2>3, <2>4 DEF PauseInv, Penalise
<1> QED
  BY <1>1, <1>2, <1>3, <1>4

LEMMA ArriveLateProvider ==
    ASSUME IInv, IInv', ProviderInv, NEW g \in GrantId, ArriveLate(g) PROVE ProviderInv'
<1> USE DEF IInv, ArriveLate, ProviderInv, limiter
<1>0. g \in sent /\ arrived[g] = None
  BY DEF TypeOK, ArrivalInv
<1>1. /\ \A x \in GrantId : arrived'[x] # None => x \in sent /\ arrived'[x] <= now
      /\ \A x \in GrantId \ {g} : arrived'[x] = arrived[x]
      /\ Cardinality(InWindow') <= MaxCalls
      /\ RefusalNeedsDelay'
  BY <1>0, ReceiveStep
<1>2. GrantHistory' /\ RecordInv' /\ PauseInv'
  BY HistoryStays DEF RecordInv, PauseInv
<1>3. ArrivalInv'
  <2>1. \A x \in late' : arrived'[x] = None
    BY <1>1, Times DEF ArrivalInv, TypeOK
  <2>2. pc \in {"recording", "sending"} => granted \notin late' /\ granted # g
    BY DEF ArrivalInv
  <2>3. pc = "sending" => arrived'[granted] = None
    BY <1>1, <2>2, Times DEF ArrivalInv, CallInv
  <2> QED
    BY <1>1, <2>1, <2>2, <2>3 DEF ArrivalInv
<1> QED
  BY <1>1, <1>2, <1>3

\* After the pause the request that filled the window has left it.
LEMMA PauseEndsProvider == ASSUME IInv, IInv', ProviderInv, PauseEnds PROVE ProviderInv'
<1> USE DEF IInv, PauseEnds, ProviderInv, outside, provider
<1>1. InWindow' = InWindow
  BY DEF InWindow
<1>2. GrantHistory' /\ RefusalNeedsDelay' /\ RecordInv'
  BY HistoryStays, DelayStays DEF RecordInv
<1>3. ArrivalInv'
  BY <1>1 DEF ArrivalInv
<1>4. PauseInv'
  <2> SUFFICES ASSUME paused PROVE Cardinality(InWindow) < MaxCalls
    BY <1>1 DEF PauseInv
  <2>1. PICK o \in GrantId : /\ arrived[o] # None /\ arrived[o] + Window < wake
                             /\ Cardinality(InWindow \cup {o}) <= MaxCalls
    BY DEF PauseInv
  <2>2. o \notin InWindow
    BY <2>1, Times DEF InWindow
  <2>3. IsFiniteSet(InWindow) /\ Cardinality(InWindow) \in Nat
    BY GrantSets DEF InWindow
  <2>4. Cardinality(InWindow \cup {o}) = Cardinality(InWindow) + 1
    BY <2>2, <2>3, FS_AddElement
  <2> QED
    BY <2>1, <2>3, <2>4, LimiterConstants
<1> QED
  BY <1>2, <1>3, <1>4

\* The other steps: the clock and what PseudoGram has do not change.
LEMMA OtherProvider ==
    ASSUME IInv, IInv', ProviderInv,
           Sleep \/ GiveUpOn \/ Crash \/ WarmStart \/ WarmStartFails \/ UNCHANGED vars
    PROVE  ProviderInv'
<1> USE DEF IInv, Sleep, GiveUpOn, Crash, WarmStart, WarmStartFails, vars,
        ProviderInv, outside, provider, limiter
<1>0. UNCHANGED <<now, granted, ts, sent, arrived, refused>> /\ amnesia \subseteq amnesia'
  OBVIOUS
<1>1. InWindow' = InWindow
  BY <1>0 DEF InWindow
<1>2. GrantHistory' /\ RefusalNeedsDelay'
  BY <1>0, HistoryStays, DelayStays
<1>3. RecordInv'
  BY <1>0 DEF RecordInv, Running
<1>4. ArrivalInv'
  <2>1. late' \subseteq late \cup {granted} /\ (late' # late => pc = "sending")
    OBVIOUS
  <2>2. pc' \in {"recording", "sending"} => pc' = pc /\ late' = late
    BY DEF Running
  <2> QED
    BY <1>0, <1>1, <2>1, <2>2 DEF ArrivalInv
<1>5. PauseInv'
  <2>1. paused' => paused
    OBVIOUS
  <2>2. paused' => (pc' = "pausing" <=> pc = "pausing")
    BY DEF Running
  <2>3. pc' = "pausing" => wake' = wake
    BY DEF Running
  <2> QED
    BY <1>0, <1>1, <2>1, <2>2, <2>3 DEF PauseInv
<1> QED
  BY <1>2, <1>3, <1>4, <1>5

-----------------------------------------------------------------------------
(* The theorems.                                                           *)

\* The inductive invariant of PseudoGram's window and of the pause.
THEOREM ProviderInvariant == Spec => [](IInv /\ ProviderInv)
<1>1. IInv /\ [Next]_vars => IInv'
  BY NextIInv
<1>2. IInv /\ IInv' /\ ProviderInv /\ [Next]_vars => ProviderInv'
  BY TickProvider, GrantProvider, PersistProvider, ArriveProvider, ArriveLateProvider,
     PauseEndsProvider, OtherProvider DEF Next
<1> QED
  BY InitIInv, InitProviderInv, <1>1, <1>2, PTL DEF Spec

\* PseudoGram answers 429 only if of two requests the earlier one was longer under
\* way, for every limit, window, margin and number of restarts (acquire).
THEOREM RefusalsNeedDelay == Spec => []RefusalNeedsDelay
<1>1. ProviderInv => RefusalNeedsDelay
  BY DEF ProviderInv
<1> QED
  BY <1>1, ProviderInvariant, PTL

\* The pause of penalise(), where there is one, is long enough: the next request to
\* arrive is accepted, for every limit, window, margin and latency (run_once).
THEOREM OnePauseIsEnough == Spec => PauseIsEnough
<1>1. IInv /\ ProviderInv /\ [Next]_vars => [paused /\ late' = late => refused' = refused]_vars
  <2> SUFFICES ASSUME IInv, ProviderInv, Next, paused, late' = late
               PROVE  refused' = refused
    BY DEF vars, outside, provider
  <2>1. CASE Arrive
    <3>1. ~Full
      <4>1. Cardinality(InWindow) < MaxCalls
        BY <2>1 DEF Arrive, ProviderInv, PauseInv
      <4>2. Cardinality(InWindow) \in Nat
        BY GrantSets DEF InWindow
      <4> QED
        BY <4>1, <4>2, LimiterConstants DEF Full
    <3> QED
      BY <2>1, <3>1 DEF Arrive, Receive, provider
  <2>2. CASE \E g \in GrantId : ArriveLate(g)
    BY <2>2 DEF ArriveLate
  <2>3. CASE Tick \/ Grant \/ Sleep \/ Persist \/ GiveUpOn \/ PauseEnds
             \/ Crash \/ WarmStart \/ WarmStartFails
    BY <2>3 DEF Tick, Grant, Sleep, Persist, GiveUpOn, PauseEnds, Crash, WarmStart,
                WarmStartFails, outside, provider
  <2> QED
    BY <2>1, <2>2, <2>3 DEF Next
<1> QED
  BY <1>1, ProviderInvariant, PTL DEF Spec, PauseIsEnough
=============================================================================
