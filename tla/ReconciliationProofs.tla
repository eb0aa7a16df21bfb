------------------------ MODULE ReconciliationProofs ------------------------
(***************************************************************************)
(* Proofs about Reconciliation: every row is of its type, and no accepted  *)
(* row waits for more rounds than it takes to poll the rows before it.     *)
(***************************************************************************)
EXTENDS Reconciliation, JobRowProofs, FiniteSetTheorems, WellFoundedInduction

\* A row that can still be sent is in a send cycle that has a key.
RowInv ==
    \A j \in JobId : jobs[j].status \in CancellableStatuses \cup {"accepted"}
                         => jobs[j].cycle \in Cycles

\* An accepted row has a DM.
DMInv == \A j \in JobId : Accepted(j) => fate[j] # "none"

BaseInv == TypeOK /\ RowInv /\ DMInv

\* The rows before row j in the order that make room when they are polled.
Ahead(j) == {i \in JobId : Accepted(i) /\ fate[i] # "lost" /\ Older(i, j)}

\* How many rows before a waiting row each round moves behind it.
Gain == BatchSize - MaxLost

\* What the round under way still owes row j: an answer, or the rows it moves.
Credit(j) ==
    LET owed == Cardinality(batch \cap Ahead(j))
    IN  IF j \in batch \/ owed >= Gain THEN Gain ELSE owed

\* Each round since the row's last answer moved Gain rows behind it, or was lost
\* to a fault, or is still under way.
Paid(j) ==
    Gain * waited[j] + Cardinality(Ahead(j)) <= MaxJobs - 1 + Gain * faults + Credit(j)

WaitInv == \A j \in JobId : Accepted(j) => Paid(j)

-----------------------------------------------------------------------------
(* Sets of rows, and the order of updated_at.                              *)

\* Sets of rows are finite, and counted by natural numbers.
LEMMA RowSets ==
    ASSUME NEW S \in SUBSET JobId, NEW T \in SUBSET S
    PROVE  /\ IsFiniteSet(S) /\ Cardinality(S) \in Nat /\ Cardinality(T) \in Nat
           /\ Cardinality(T) <= Cardinality(S)
           /\ \A x : Cardinality(S \ {x}) =
                         IF x \in S THEN Cardinality(S) - 1 ELSE Cardinality(S)
<1>1. IsFiniteSet(JobId)
  BY FS_Interval, ReconciliationBounds DEF JobId
<1>2. IsFiniteSet(S) /\ IsFiniteSet(T)
  BY <1>1, FS_Subset
<1> QED
  BY <1>2, FS_Subset, FS_CardinalityType, FS_RemoveElement

\* There are no more other rows than MaxJobs - 1.
LEMMA OtherRows ==
    ASSUME NEW j \in JobId, NEW S \in SUBSET (JobId \ {j})
    PROVE  Cardinality(S) <= MaxJobs - 1
<1>1. Cardinality(JobId) = MaxJobs
  BY FS_Interval, ReconciliationBounds DEF JobId
<1>2. Cardinality(JobId \ {j}) = MaxJobs - 1
  BY <1>1, RowSets
<1> QED
  BY <1>2, RowSets

\* A non-empty set of rows has one that was written longest ago.
LEMMA OldestRow ==
    ASSUME TypeOK, NEW S \in SUBSET JobId, S # {}
    PROVE  \E m \in S : \A x \in S : ~Older(x, m)
<1> DEFINE T == {updatedAt[x] : x \in S}
<1>1. \A x \in S : updatedAt[x] \in Nat
  BY ReconciliationBounds DEF TypeOK, JobId
<1>2. T \subseteq Nat /\ T # {}
  BY <1>1
<1>3. PICK t \in T : \A u \in T : ~(<<u, t>> \in OpToRel(<, Nat))
  <2> HIDE DEF T
  <2> QED
    BY <1>2, NatLessThanWellFounded, WFMin
<1>4. PICK m \in S : t = updatedAt[m]
  OBVIOUS
<1>5. ASSUME NEW x \in S PROVE ~Older(x, m)
  BY <1>1, <1>3, <1>4 DEF OpToRel, Older
<1> QED
  BY <1>5

\* The order is total.
LEMMA OrderIsTotal ==
    ASSUME TypeOK
    PROVE  /\ \A i \in JobId : ~Older(i, i)
           /\ \A i, j \in JobId : i # j => Older(i, j) \/ Older(j, i)
           /\ \A i, j, k \in JobId : Older(i, j) /\ Older(j, k) => Older(i, k)
           /\ \A i, j, k \in JobId : ~Older(j, i) /\ Older(j, k) => Older(i, k)
<1>1. \A i \in JobId : updatedAt[i] \in Int
  BY ReconciliationBounds DEF TypeOK, JobId
<1>2. \A i, j \in JobId : updatedAt[i] = updatedAt[j] => i = j
  BY DEF TypeOK
<1> QED
  BY <1>1, <1>2 DEF Older

\* A row that is written goes behind all others, which keep their order.
LEMMA TouchMovesBack ==
    ASSUME TypeOK, NEW k \in JobId, Touch(k)
    PROVE  /\ updatedAt' \in [JobId -> JobId]
           /\ \A i, j \in JobId : updatedAt'[i] = updatedAt'[j] => i = j
           /\ \A i, j \in JobId \ {k} : Older(i, j)' <=> Older(i, j)
           /\ \A j \in JobId : ~Older(k, j)'
<1>1. /\ MaxJobs \in JobId
      /\ \A i \in JobId : updatedAt[i] \in 1 .. MaxJobs
  <2>1. k \in 1 .. MaxJobs /\ MaxJobs \in 1 .. MaxJobs
    BY ReconciliationBounds DEF JobId
  <2>2. updatedAt \in [JobId -> JobId]
    BY DEF TypeOK
  <2> QED
    BY <2>1, <2>2 DEF JobId
<1>2. \A i, j \in JobId : updatedAt[i] = updatedAt[j] => i = j
  BY DEF TypeOK
<1>3. \A i \in JobId : updatedAt'[i] = IF i = k THEN MaxJobs
                                      ELSE IF updatedAt[k] < updatedAt[i] THEN updatedAt[i] - 1
                                      ELSE updatedAt[i]
  BY DEF Touch, Older
<1>4. \A i \in JobId \ {k} : updatedAt'[i] \in 1 .. (MaxJobs - 1)
  BY <1>1, <1>2, <1>3, ReconciliationBounds
<1>5. updatedAt' \in [JobId -> JobId]
  <2>1. \A i \in JobId : updatedAt'[i] \in JobId
    BY <1>1, <1>3, <1>4, ReconciliationBounds DEF JobId
  <2>2. DOMAIN updatedAt' = JobId /\ updatedAt' = [i \in DOMAIN updatedAt' |-> updatedAt'[i]]
    BY DEF Touch
  <2> QED
    BY <2>1, <2>2
<1>6. \A i, j \in JobId \ {k} : updatedAt'[i] < updatedAt'[j] <=> updatedAt[i] < updatedAt[j]
  BY <1>1, <1>2, <1>3, ReconciliationBounds
<1>7. \A i, j \in JobId : updatedAt'[i] = updatedAt'[j] => i = j
  <2> SUFFICES ASSUME NEW i \in JobId, NEW j \in JobId, i # j
               PROVE  updatedAt'[i] # updatedAt'[j]
    OBVIOUS
  <2>1. CASE i # k /\ j # k
    BY <2>1, <1>1, <1>2, <1>3, ReconciliationBounds
  <2>2. CASE i = k \/ j = k
    BY <2>2, <1>3, <1>4, ReconciliationBounds
  <2> QED
    BY <2>1, <2>2
<1>8. \A j \in JobId : ~(updatedAt'[k] < updatedAt'[j])
  BY <1>3, <1>4, ReconciliationBounds
<1> QED
  BY <1>5, <1>6, <1>7, <1>8 DEF Older

\* A round that passes over an accepted row is full, and all of it goes first.
LEMMA FullRoundGoesFirst ==
    ASSUME TypeOK, NEW j \in JobId, Accepted(j), j \notin Selected
    PROVE  /\ Cardinality(Selected) >= BatchSize
           /\ \A i \in Selected : Older(i, j)
<1> DEFINE Left == {i \in JobId : Accepted(i) /\ i \notin Selected}
<1>1. Selected \subseteq JobId /\ \A i \in JobId : OlderPending(i) \subseteq JobId
  BY DEF Selected, OlderPending
<1>2. PICK m \in Left : \A x \in Left : ~Older(x, m)
  <2>1. Left \in SUBSET JobId /\ Left # {}
    OBVIOUS
  <2> HIDE DEF Left
  <2> QED
    BY <2>1, OldestRow
<1>3. OlderPending(m) \subseteq Selected
  BY <1>2 DEF OlderPending
<1>4. ~(Cardinality(OlderPending(m)) < BatchSize)
  BY <1>2 DEF Selected
<1>5. Cardinality(Selected) >= BatchSize
  BY <1>1, <1>3, <1>4, RowSets, ReconciliationBounds
<1>6. ASSUME NEW i \in Selected PROVE Older(i, j)
  <2> SUFFICES ASSUME ~Older(i, j) PROVE FALSE
    OBVIOUS
  <2>1. OlderPending(j) \subseteq OlderPending(i)
    BY OrderIsTotal, <1>1 DEF OlderPending
  <2>2. Cardinality(OlderPending(i)) < BatchSize
    BY DEF Selected
  <2>3. Cardinality(OlderPending(j)) < BatchSize
    BY <2>1, <2>2, <1>1, RowSets, ReconciliationBounds
  <2> QED
    BY <2>3 DEF Selected
<1> QED
  BY <1>5, <1>6

-----------------------------------------------------------------------------
(* Types.                                                                  *)

\* An answer leaves a row that is sent again, or polled again, with a key.
LEMMA AnsweredRow ==
    ASSUME NEW row \in Row, row.status = "accepted", row.cycle \in Cycles, NEW answer
    PROVE  LET new == ApplyDeliveryStatus(row, answer)
           IN  /\ new \in Row
               /\ new.status \in CancellableStatuses \cup {"accepted"} => new.cycle \in Cycles
<1>1. CASE answer = "delivered"
  BY <1>1, DeliveryStatusFacts
<1>2. CASE answer = "failed"
  BY <1>2, DeliveryStatusFacts DEF CancellableStatuses
<1>3. CASE answer \notin {"delivered", "failed"}
  BY <1>3, DeliveryStatusFacts
<1> QED
  BY <1>1, <1>2, <1>3

\* Writing a row of the right kind keeps the part of BaseInv about the table.
LEMMA WriteKeepsRows ==
    ASSUME BaseInv, NEW k \in JobId, NEW row \in Row, Write(k, row),
           row.status \in CancellableStatuses \cup {"accepted"} => row.cycle \in Cycles
    PROVE  /\ jobs' \in [JobId -> Row]
           /\ updatedAt' \in [JobId -> JobId]
           /\ \A i, j \in JobId : updatedAt'[i] = updatedAt'[j] => i = j
           /\ RowInv'
<1>1. jobs' = [jobs EXCEPT ![k] = row] /\ jobs \in [JobId -> Row]
  BY DEF Write, BaseInv, TypeOK
<1>2. RowInv'
  BY <1>1 DEF BaseInv, RowInv
<1> QED
  BY <1>1, <1>2, TouchMovesBack DEF Write, BaseInv

\* A change of fates that loses no more DMs than it may.
LEMMA LostStaysBounded ==
    ASSUME TypeOK, NEW k \in JobId, NEW new \in Fates, fate' = [fate EXCEPT ![k] = new],
           new = "lost" => Cardinality(Lost) < MaxLost
    PROVE  fate' \in [JobId -> Fates] /\ Cardinality(Lost') <= MaxLost
<1>1. fate' \in [JobId -> Fates]
  BY DEF TypeOK
<1>2. Lost \in SUBSET JobId /\ Lost' \in SUBSET JobId
  BY DEF Lost
<1>3. CASE new = "lost"
  <2>1. Lost' \ {k} \subseteq Lost
    BY DEF Lost, TypeOK
  <2>2. /\ Cardinality(Lost' \ {k}) <= Cardinality(Lost)
        /\ Cardinality(Lost') <= Cardinality(Lost' \ {k}) + 1
        /\ Cardinality(Lost) \in Nat /\ Cardinality(Lost') \in Nat
        /\ Cardinality(Lost' \ {k}) \in Nat
    BY <2>1, <1>2, RowSets
  <2> QED
    BY <1>1, <1>3, <2>2, ReconciliationBounds
<1>4. CASE new # "lost"
  <2>1. Lost' \subseteq Lost
    BY <1>4 DEF Lost, TypeOK
  <2>2. Cardinality(Lost') <= Cardinality(Lost)
    BY <2>1, <1>2, RowSets
  <2>3. Cardinality(Lost) \in Nat /\ Cardinality(Lost') \in Nat
    BY <1>2, RowSets
  <2> QED
    BY <1>1, <2>2, <2>3, ReconciliationBounds DEF TypeOK
<1> QED
  BY <1>3, <1>4

\* A row becomes accepted with its DM.
LEMMA DMStep ==
    ASSUME BaseInv, [Next]_vars
    PROVE  DMInv'
<1> USE DEF BaseInv, DMInv, Accepted
<1>1. CASE UNCHANGED vars
  BY <1>1 DEF vars, rows
<1>2. CASE LoadPending \/ RoundLost \/ \E k \in JobId : PollNotFound(k) \/ PollError(k)
  BY <1>2 DEF LoadPending, RoundLost, PollNotFound, PollError, rows
<1>3. ASSUME NEW k \in JobId, PollOK(k) PROVE DMInv'
  BY <1>3 DEF PollOK, Settles, Write, rows, TypeOK
<1>4. ASSUME NEW k \in JobId, HandOver(k) PROVE DMInv'
  BY <1>4 DEF HandOver, Write, TypeOK
<1>5. ASSUME NEW k \in JobId, Decide(k) \/ LoseDM(k) PROVE DMInv'
  BY <1>5 DEF Decide, LoseDM, rows, TypeOK
<1> QED
  BY <1>1, <1>2, <1>3, <1>4, <1>5 DEF Next, Round

LEMMA BaseInit ==
    ASSUME Init
    PROVE  BaseInv
<1>1. PICK s \in Slots, c \in Comments : jobs = [j \in JobId |-> NewRow(s, c)]
  BY DEF Init
<1>2. NewRow(s, c) \in Row /\ NewRow(s, c).cycle \in Cycles
  BY NewRowFacts, CyclesAreInts
<1>3. RowInv /\ jobs \in [JobId -> Row]
  BY <1>1, <1>2 DEF RowInv
<1>4. Lost = {}
  BY DEF Lost, Init
<1>5. Cardinality(Lost) <= MaxLost
  BY <1>4, FS_EmptySet, ReconciliationBounds
<1>6. DMInv
  BY <1>1, <1>2, NewRowFacts DEF DMInv, Accepted
<1>7. MaxWait \in Nat /\ 0 \in 0 .. MaxWait /\ faults \in 0 .. MaxFaults
  BY ReconciliationBounds DEF MaxWait, Init
<1> QED
  BY <1>3, <1>5, <1>6, <1>7 DEF Init, BaseInv, TypeOK, Fates

LEMMA AnsweredTypes ==
    ASSUME TypeOK, NEW k, Answered(k)
    PROVE  waited' \in [JobId -> 0 .. MaxWait]
<1>1. 0 \in 0 .. MaxWait
  BY ReconciliationBounds DEF MaxWait
<1> QED
  BY <1>1 DEF TypeOK, Answered

\* Every step keeps BaseInv.
LEMMA BaseStep ==
    ASSUME BaseInv, [Next]_vars
    PROVE  BaseInv'
<1> USE DEF BaseInv
<1>1. ASSUME UNCHANGED vars PROVE TypeOK' /\ RowInv'
  BY <1>1 DEF vars, rows, TypeOK, RowInv, Lost
<1>2. ASSUME LoadPending PROVE TypeOK' /\ RowInv'
  <2>1. waited' \in [JobId -> 0 .. MaxWait]
    BY <1>2, ReconciliationBounds DEF LoadPending, TypeOK, MaxWait
  <2>2. batch' \subseteq JobId
    BY <1>2 DEF LoadPending, Selected
  <2> QED
    BY <1>2, <2>1, <2>2 DEF LoadPending, rows, TypeOK, RowInv, Lost
<1>3. ASSUME NEW k \in JobId, PollOK(k) PROVE TypeOK' /\ RowInv'
  <2>1. waited' \in [JobId -> 0 .. MaxWait]
    BY <1>3, AnsweredTypes DEF PollOK
  <2>2. /\ jobs' \in [JobId -> Row]
        /\ updatedAt' \in [JobId -> JobId]
        /\ \A i, j \in JobId : updatedAt'[i] = updatedAt'[j] => i = j
        /\ RowInv'
    <3>1. CASE Accepted(k)
      <4>1. jobs[k] \in Row /\ jobs[k].cycle \in Cycles /\ jobs[k].status = "accepted"
        BY <3>1 DEF TypeOK, RowInv, Accepted
      <4>2. /\ ApplyDeliveryStatus(jobs[k], fate[k]) \in Row
            /\ ApplyDeliveryStatus(jobs[k], fate[k]).status
                   \in CancellableStatuses \cup {"accepted"}
                   => ApplyDeliveryStatus(jobs[k], fate[k]).cycle \in Cycles
        BY <4>1, AnsweredRow
      <4>3. Write(k, ApplyDeliveryStatus(jobs[k], fate[k]))
        BY <1>3, <3>1 DEF PollOK
      <4> QED
        BY <4>2, <4>3, WriteKeepsRows
    <3>2. CASE ~Accepted(k)
      BY <1>3, <3>2 DEF PollOK, rows, TypeOK, RowInv
    <3> QED
      BY <3>1, <3>2
  <2> QED
    BY <1>3, <2>1, <2>2 DEF PollOK, TypeOK, Lost
<1>4. ASSUME NEW k \in JobId, PollNotFound(k) PROVE TypeOK' /\ RowInv'
  <2>1. waited' \in [JobId -> 0 .. MaxWait]
    BY <1>4, AnsweredTypes DEF PollNotFound
  <2> QED
    BY <1>4, <2>1 DEF PollNotFound, rows, TypeOK, RowInv, Lost
<1>5. ASSUME RoundLost \/ \E k \in JobId : PollError(k) PROVE TypeOK' /\ RowInv'
  <2>1. faults' \in 0 .. MaxFaults
    BY <1>5, ReconciliationBounds DEF RoundLost, PollError, Fault, TypeOK
  <2> QED
    BY <1>5, <2>1 DEF RoundLost, PollError, rows, TypeOK, RowInv, Lost
<1>6. ASSUME NEW k \in JobId, HandOver(k) PROVE TypeOK' /\ RowInv'
  <2>1. waited' \in [JobId -> 0 .. MaxWait]
    BY <1>6, AnsweredTypes DEF HandOver
  <2>2. jobs[k] \in Row /\ jobs[k].status \in CancellableStatuses /\ jobs[k].cycle \in Cycles
    BY <1>6 DEF HandOver, TypeOK, RowInv
  <2>3. /\ jobs' \in [JobId -> Row]
        /\ updatedAt' \in [JobId -> JobId]
        /\ \A i, j \in JobId : updatedAt'[i] = updatedAt'[j] => i = j
        /\ RowInv'
    <3>1. /\ ApplySendResult(jobs[k], "accepted", jobs[k].cycle) \in Row
          /\ ApplySendResult(jobs[k], "accepted", jobs[k].cycle).cycle \in Cycles
      BY <2>2, SendResultFacts DEF SendResults, CancellableStatuses
    <3> QED
      BY <1>6, <3>1, WriteKeepsRows DEF HandOver
  <2>4. fate' \in [JobId -> Fates] /\ Cardinality(Lost') <= MaxLost
    BY <1>6, LostStaysBounded DEF HandOver, Fates
  <2> QED
    BY <1>6, <2>1, <2>3, <2>4 DEF HandOver, TypeOK
<1>7. ASSUME NEW k \in JobId, Decide(k) \/ LoseDM(k) PROVE TypeOK' /\ RowInv'
  <2>1. fate' \in [JobId -> Fates] /\ Cardinality(Lost') <= MaxLost
    BY <1>7, LostStaysBounded DEF Decide, LoseDM, Fates
  <2> QED
    BY <1>7, <2>1 DEF Decide, LoseDM, rows, TypeOK, RowInv
<1> QED
  BY DMStep, <1>1, <1>2, <1>3, <1>4, <1>5, <1>6, <1>7 DEF Next, Round

\* The rows of Reconciliation are of their types, and a row to be sent has a key.
THEOREM TypeCorrect == Spec => []TypeOK
<1>1. Init => BaseInv
  BY BaseInit
<1>2. BaseInv /\ [Next]_vars => BaseInv'
  BY BaseStep
<1>3. BaseInv => TypeOK
  BY DEF BaseInv
<1> QED
  BY <1>1, <1>2, <1>3, PTL DEF Spec

-----------------------------------------------------------------------------
(* Waiting.  Products with Gain are treated as numbers of their own.       *)

LEMMA Products ==
    ASSUME NEW g \in Nat, NEW n \in Nat
    PROVE  g * n \in Nat /\ g * (n + 1) = g * n + g /\ g * 0 = 0
OBVIOUS

\* The numbers WaitInv is made of.
Counts(j) ==
    /\ Gain \in Nat \ {0}
    /\ waited[j] \in Nat /\ faults \in Nat
    /\ Gain * waited[j] \in Nat /\ Gain * faults \in Nat
    /\ Cardinality(Ahead(j)) \in 0 .. (MaxJobs - 1)
    /\ Cardinality(batch \cap Ahead(j)) \in Nat
    /\ Credit(j) \in 0 .. Gain

LEMMA WaitTypes == MaxLost < BatchSize /\ TypeOK => \A j \in JobId : Counts(j)
<1> SUFFICES ASSUME MaxLost < BatchSize, TypeOK, NEW j \in JobId PROVE Counts(j)
  OBVIOUS
<1>1. Gain \in Nat \ {0}
  BY ReconciliationBounds DEF Gain
<1>2. waited[j] \in Nat /\ faults \in Nat
  BY ReconciliationBounds DEF TypeOK, MaxWait
<1>3. Ahead(j) \in SUBSET (JobId \ {j}) /\ batch \cap Ahead(j) \in SUBSET JobId
  BY OrderIsTotal DEF Ahead
<1>4. Cardinality(Ahead(j)) \in 0 .. (MaxJobs - 1) /\ Cardinality(batch \cap Ahead(j)) \in Nat
  <2>1. Ahead(j) \in SUBSET JobId
    BY <1>3
  <2> QED
    BY <1>3, <2>1, RowSets, OtherRows, ReconciliationBounds
<1>5. Credit(j) \in 0 .. Gain
  BY <1>1, <1>4 DEF Credit
<1> QED
  BY <1>1, <1>2, <1>4, <1>5, Products DEF Counts

LEMMA WaitTypesAfter == MaxLost < BatchSize /\ TypeOK' => \A j \in JobId : Counts(j)'
<1>1. (MaxLost < BatchSize /\ TypeOK => \A j \in JobId : Counts(j))'
  BY WaitTypes, PTL
<1> QED
  BY <1>1

\* A step that answers row j, or hands it over, pays whatever it waited for.
LEMMA AnswerPays ==
    ASSUME MaxLost < BatchSize, TypeOK', NEW j \in JobId, waited'[j] = 0
    PROVE  Paid(j)'
<1>1. Counts(j)'
  BY WaitTypesAfter
<1>2. Gain' * waited'[j] = 0
  BY <1>1, Products DEF Counts
<1> QED
  BY <1>1, <1>2, ReconciliationBounds DEF Paid, Counts

\* What counts for row j is the same if one row, at most, leaves the rows before
\* it and one, not j, the round, and whatever leaves the round leaves both.
LEMMA OneRowMoves ==
    ASSUME MaxLost < BatchSize, TypeOK, TypeOK', NEW j \in JobId, NEW i \in JobId, Paid(j),
           Ahead(j)' = Ahead(j) \ {i},
           batch' = batch \/ (batch' = batch \ {i} /\ i # j),
           waited'[j] = waited[j], faults' = faults
    PROVE  Paid(j)'
<1> DEFINE A == Cardinality(Ahead(j))
           B == Cardinality(batch \cap Ahead(j))
<1>1. Counts(j) /\ Counts(j)'
  BY WaitTypes, WaitTypesAfter
<1>2. Gain' = Gain
  BY DEF Gain
<1>3. (batch \cap Ahead(j))' = (batch \cap Ahead(j)) \ {i}
  OBVIOUS
<1>4. Ahead(j) \in SUBSET JobId /\ batch \cap Ahead(j) \in SUBSET JobId
  BY DEF Ahead
<1>5. /\ A' = IF i \in Ahead(j) THEN A - 1 ELSE A
      /\ B' = IF i \in batch \cap Ahead(j) THEN B - 1 ELSE B
  BY <1>3, <1>4, RowSets
<1>6. j \in batch' <=> j \in batch
  OBVIOUS
<1>7. Credit(j)' >= Credit(j) - (IF i \in Ahead(j) THEN 1 ELSE 0)
  <2> HIDE DEF A, B
  <2>1. /\ Credit(j) = IF j \in batch \/ B >= Gain THEN Gain ELSE B
        /\ Credit(j)' = IF j \in batch' \/ B' >= Gain THEN Gain ELSE B'
    BY <1>2 DEF Credit, A, B
  <2>2. B \in Nat /\ B' \in Nat /\ Gain \in Nat \ {0}
    BY <1>1 DEF Counts, B
  <2> QED
    BY <1>5, <1>6, <2>1, <2>2
<1>8. Gain' * waited'[j] = Gain * waited[j] /\ Gain' * faults' = Gain * faults
  BY <1>2
<1> HIDE DEF A, B
<1>9. /\ A \in Nat /\ A' \in Nat /\ Gain * waited[j] \in Nat /\ Gain * faults \in Nat
      /\ Credit(j) \in Int /\ Credit(j)' \in Int
  BY <1>1, <1>2 DEF Counts, A
<1>10. Gain * waited[j] + A <= MaxJobs - 1 + Gain * faults + Credit(j)
  BY DEF Paid, A
<1>11. Gain' * waited'[j] + A' <= MaxJobs - 1 + Gain' * faults' + Credit(j)'
  BY <1>5, <1>7, <1>8, <1>9, <1>10, ReconciliationBounds
<1> QED
  BY <1>11 DEF Paid, A

\* A fault may drop a whole round: it is worth one.
LEMMA FaultPays ==
    ASSUME MaxLost < BatchSize, TypeOK, TypeOK', NEW j \in JobId, Paid(j),
           Ahead(j)' = Ahead(j), waited'[j] = waited[j], faults' = faults + 1
    PROVE  Paid(j)'
<1>1. Counts(j) /\ Counts(j)'
  BY WaitTypes, WaitTypesAfter
<1>2. Gain' = Gain
  BY DEF Gain
<1>3. Gain' * waited'[j] = Gain * waited[j] /\ Gain' * faults' = Gain * faults + Gain
  BY <1>1, <1>2, Products DEF Counts
<1>4. Credit(j) <= Gain /\ Credit(j)' >= 0
  BY <1>1 DEF Counts
<1> QED
  BY <1>1, <1>2, <1>3, <1>4, ReconciliationBounds DEF Paid, Counts

\* A round that begins owes row j an answer, or moves Gain rows behind it.
LEMMA RoundPays ==
    ASSUME MaxLost < BatchSize, TypeOK, TypeOK', NEW j \in JobId, Paid(j),
           Accepted(j), LoadPending
    PROVE  Paid(j)'
<1>1. Counts(j) /\ Counts(j)'
  BY WaitTypes, WaitTypesAfter
<1>2. Gain' = Gain /\ faults' = faults /\ Ahead(j)' = Ahead(j) /\ batch = {} /\ batch' = Selected
  BY DEF Gain, LoadPending, rows, Ahead, Accepted, Older
<1>3. waited'[j] \in {waited[j], waited[j] + 1}
  BY DEF LoadPending
<1>4. Gain' * waited'[j] <= Gain * waited[j] + Gain
  BY <1>1, <1>2, <1>3, Products DEF Counts
<1>5. Credit(j) = 0
  <2>1. Cardinality(batch \cap Ahead(j)) = 0
    BY <1>2, FS_EmptySet
  <2> QED
    BY <2>1, <1>1, <1>2 DEF Credit, Counts
<1>6. Credit(j)' = Gain
  <2>1. CASE j \in Selected
    BY <2>1, <1>2 DEF Credit
  <2>2. CASE j \notin Selected
    <3>1. Cardinality(Selected) >= BatchSize /\ \A i \in Selected : Older(i, j)
      BY <2>2, FullRoundGoesFirst
    <3>2. Selected \subseteq JobId /\ Lost \subseteq JobId /\ \A i \in Selected : Accepted(i)
      BY DEF Selected, Lost
    <3>3. Selected \subseteq (Selected \cap Ahead(j)) \cup Lost
      BY <3>1, <3>2 DEF Ahead, Lost
    <3>4. Cardinality(Selected) <= Cardinality(Selected \cap Ahead(j)) + Cardinality(Lost)
      <4>1. /\ IsFiniteSet(Selected \cap Ahead(j)) /\ IsFiniteSet(Lost)
            /\ (Selected \cap Ahead(j)) \cup Lost \in SUBSET JobId
            /\ (Selected \cap Ahead(j)) \cap Lost \in SUBSET JobId
        BY <3>2, RowSets
      <4>2. Cardinality((Selected \cap Ahead(j)) \cup Lost)
                <= Cardinality(Selected \cap Ahead(j)) + Cardinality(Lost)
        <5>1. /\ Cardinality(Selected \cap Ahead(j)) \in Nat /\ Cardinality(Lost) \in Nat
              /\ Cardinality((Selected \cap Ahead(j)) \cap Lost) \in Nat
          BY <4>1, FS_CardinalityType, RowSets
        <5>2. Cardinality((Selected \cap Ahead(j)) \cup Lost)
                  = Cardinality(Selected \cap Ahead(j)) + Cardinality(Lost)
                    - Cardinality((Selected \cap Ahead(j)) \cap Lost)
          BY <4>1, FS_Union
        <5> QED
          BY <5>1, <5>2
      <4>3. Cardinality(Selected) <= Cardinality((Selected \cap Ahead(j)) \cup Lost)
        BY <4>1, <3>3, RowSets
      <4> QED
        BY <4>1, <4>2, <4>3, <3>2, RowSets, FS_CardinalityType
    <3>5. /\ Cardinality(Lost) <= MaxLost /\ Cardinality(Lost) \in Nat
          /\ Cardinality(Selected) \in Nat /\ Cardinality(Selected \cap Ahead(j)) \in Nat
      BY <3>2, RowSets DEF TypeOK
    <3>6. Cardinality(Selected \cap Ahead(j)) >= Gain
      BY <3>1, <3>4, <3>5, ReconciliationBounds DEF Gain
    <3> QED
      BY <3>6, <1>2 DEF Credit
  <2> QED
    BY <2>1, <2>2
<1> QED
  BY <1>1, <1>2, <1>4, <1>5, <1>6, ReconciliationBounds DEF Paid, Counts

LEMMA InitWaits ==
    ASSUME MaxLost < BatchSize, Init
    PROVE  WaitInv
<1> SUFFICES ASSUME NEW j \in JobId PROVE Paid(j)
  BY DEF WaitInv
<1>1. Counts(j)
  BY BaseInit, WaitTypes DEF BaseInv
<1>2. Gain * waited[j] = 0
  BY <1>1, Products DEF Counts, Init
<1>3. /\ Cardinality(Ahead(j)) \in Int /\ Cardinality(Ahead(j)) <= MaxJobs - 1
      /\ Gain * faults \in Nat /\ Credit(j) \in Nat
  BY <1>1, ReconciliationBounds DEF Counts
<1> QED
  BY <1>2, <1>3, ReconciliationBounds DEF Paid

\* A written row leaves the rows before any other row, which stay what they are.
LEMMA WriteMovesOne ==
    ASSUME TypeOK, NEW k \in JobId, NEW j \in JobId \ {k}, NEW row, Write(k, row),
           \A i \in JobId \ {k} : fate'[i] = fate[i]
    PROVE  Ahead(j)' = Ahead(j) \ {k} /\ (Accepted(j)' <=> Accepted(j))
<1>1. \A i \in JobId \ {k} : /\ Older(i, j)' <=> Older(i, j)
                             /\ Accepted(i)' <=> Accepted(i)
  BY TouchMovesBack DEF Write, Accepted, TypeOK
<1>2. ~Older(k, j)'
  BY TouchMovesBack DEF Write
<1> QED
  BY <1>1, <1>2 DEF Ahead

\* Every step of the rounds, the DM worker and PseudoGram keeps WaitInv.
LEMMA WaitStep ==
    ASSUME MaxLost < BatchSize, BaseInv, BaseInv', WaitInv, [Next]_vars
    PROVE  WaitInv'
<1> SUFFICES ASSUME NEW j \in JobId, Accepted(j)' PROVE Paid(j)'
  BY DEF WaitInv
<1>0. TypeOK /\ TypeOK' /\ (Accepted(j) => Paid(j))
  BY DEF BaseInv, WaitInv
<1>1. CASE UNCHANGED vars
  BY <1>0, <1>1 DEF vars, rows, Paid, Ahead, Credit, Gain, Accepted, Older
<1>2. CASE LoadPending
  <2>1. Accepted(j)
    BY <1>2 DEF LoadPending, rows, Accepted
  <2> QED
    BY <1>0, <1>2, <2>1, RoundPays
<1>3. ASSUME NEW k \in JobId, PollOK(k) PROVE Paid(j)'
  <2>1. CASE j = k
    <3>1. waited'[j] = 0
      BY <1>0, <1>3, <2>1 DEF PollOK, Answered, TypeOK
    <3> QED
      BY <1>0, <3>1, AnswerPays
  <2>2. CASE j # k
    <3>1. Ahead(j)' = Ahead(j) \ {k} /\ Accepted(j)
      <4>1. CASE Accepted(k)
        BY <1>0, <1>3, <2>2, <4>1, WriteMovesOne DEF PollOK
      <4>2. CASE ~Accepted(k)
        BY <1>3, <4>2 DEF PollOK, rows, Ahead, Accepted, Older
      <4> QED
        BY <4>1, <4>2
    <3>2. batch' = batch \ {k} /\ waited'[j] = waited[j] /\ faults' = faults
      BY <1>0, <1>3, <2>2 DEF PollOK, Answered, TypeOK
    <3> QED
      BY <1>0, <2>2, <3>1, <3>2, OneRowMoves
  <2> QED
    BY <2>1, <2>2
<1>4. ASSUME NEW k \in JobId, PollNotFound(k) PROVE Paid(j)'
  <2>1. CASE j = k
    <3>1. waited'[j] = 0
      BY <1>0, <1>4, <2>1 DEF PollNotFound, Answered, TypeOK
    <3> QED
      BY <1>0, <3>1, AnswerPays
  <2>2. CASE j # k
    <3>1. k \notin Ahead(j)
      <4>1. CASE fate[k] = "lost"
        BY <4>1 DEF Ahead
      <4>2. CASE fate[k] = "none"
        BY <4>2 DEF BaseInv, DMInv, Ahead
      <4>3. fate[k] \in {"lost", "none"}
        BY <1>0, <1>4 DEF PollNotFound, Settles, TypeOK, Fates
      <4> QED
        BY <4>1, <4>2, <4>3
    <3>2. Ahead(j)' = Ahead(j) \ {k} /\ Accepted(j)
      BY <1>4, <3>1 DEF PollNotFound, rows, Ahead, Accepted, Older
    <3>3. batch' = batch \ {k} /\ waited'[j] = waited[j] /\ faults' = faults
      BY <1>0, <1>4, <2>2 DEF PollNotFound, Answered, TypeOK
    <3> QED
      BY <1>0, <2>2, <3>2, <3>3, OneRowMoves
  <2> QED
    BY <2>1, <2>2
<1>5. ASSUME RoundLost \/ \E k \in JobId : PollError(k) PROVE Paid(j)'
  <2>1. /\ Ahead(j)' = Ahead(j) /\ Accepted(j)
        /\ waited'[j] = waited[j] /\ faults' = faults + 1
    BY <1>5 DEF RoundLost, PollError, Fault, rows, Ahead, Accepted, Older
  <2> QED
    BY <1>0, <2>1, FaultPays
<1>6. ASSUME NEW k \in JobId, HandOver(k) PROVE Paid(j)'
  <2>1. CASE j = k
    <3>1. waited'[j] = 0
      BY <1>0, <1>6, <2>1 DEF HandOver, Answered, TypeOK
    <3> QED
      BY <1>0, <3>1, AnswerPays
  <2>2. CASE j # k
    <3>1. \A i \in JobId \ {k} : fate'[i] = fate[i]
      BY <1>0, <1>6 DEF HandOver, TypeOK
    <3>2. Ahead(j)' = Ahead(j) \ {k} /\ Accepted(j)
      BY <1>0, <1>6, <2>2, <3>1, WriteMovesOne DEF HandOver
    <3>3. /\ batch' = batch \/ (batch' = batch \ {k} /\ k # j)
          /\ waited'[j] = waited[j] /\ faults' = faults
      BY <1>0, <1>6, <2>2 DEF HandOver, Answered, TypeOK
    <3> QED
      BY <1>0, <3>2, <3>3, OneRowMoves
  <2> QED
    BY <2>1, <2>2
<1>7. ASSUME NEW k \in JobId, LoseDM(k) PROVE Paid(j)'
  <2>1. Ahead(j)' = Ahead(j) \ {k} /\ Accepted(j)
    BY <1>0, <1>7 DEF LoseDM, rows, Ahead, Accepted, Older, TypeOK
  <2>2. /\ batch' = batch \/ (batch' = batch \ {k} /\ k # j)
        /\ waited'[j] = waited[j] /\ faults' = faults
    <3>1. batch' = batch /\ waited' = waited /\ faults' = faults
      BY <1>7 DEF LoseDM
    <3> QED
      BY <3>1
  <2> QED
    BY <1>0, <2>1, <2>2, OneRowMoves
<1>8. ASSUME NEW k \in JobId, Decide(k) PROVE Paid(j)'
  <2>1. \A i \in JobId : fate'[i] # "lost" <=> fate[i] # "lost"
    BY <1>0, <1>8 DEF Decide, TypeOK
  <2>2. Ahead(j)' = Ahead(j) /\ Accepted(j)
    BY <1>8, <2>1 DEF Decide, rows, Ahead, Accepted, Older
  <2>3. batch' = batch /\ waited' = waited /\ faults' = faults /\ Gain' = Gain
    BY <1>8 DEF Decide, Gain
  <2> QED
    BY <1>0, <2>2, <2>3 DEF Paid, Credit
<1> QED
  BY <1>1, <1>2, <1>3, <1>4, <1>5, <1>6, <1>7, <1>8 DEF Next, Round

\* If g fits n times into a, n is no more than the quotient.
LEMMA Quotient ==
    ASSUME NEW a \in Nat, NEW g \in Nat \ {0}, NEW n \in Nat, g * n <= a
    PROVE  a \div g \in Nat /\ n <= a \div g
<1> DEFINE q == a \div g
           r == a % g
<1>1. q \in Int /\ r \in Int /\ a = g * q + r /\ 0 <= r /\ r < g
  OBVIOUS
<1> HIDE DEF q, r
<1>2. ASSUME NEW x \in Int, NEW y \in Int, x < y PROVE g * x + g <= g * y
  <2>1. PICK d \in Nat : y = x + 1 + d
    BY <1>2, y - x - 1 \in Nat
  <2>2. g * y = g * x + g + g * d
    BY <2>1
  <2>3. g * d \in Nat
    OBVIOUS
  <2>4. g * x \in Int /\ g * y \in Int
    OBVIOUS
  <2> QED
    BY <2>2, <2>3, <2>4
<1>3. q >= 0
  <2> SUFFICES ASSUME q < 0 PROVE FALSE
    BY <1>1
  <2>1. g * q + g <= g * 0
    BY <1>1, <1>2
  <2> QED
    BY <1>1, <2>1
<1>4. n <= q
  <2> SUFFICES ASSUME q < n PROVE FALSE
    BY <1>1
  <2>1. g * q + g <= g * n
    BY <1>1, <1>2
  <2>2. g * q \in Int /\ g * n \in Int
    BY <1>1
  <2> QED
    BY <1>1, <2>1, <2>2
<1> QED
  BY <1>1, <1>3, <1>4 DEF q

\* What was paid for bounds the wait.
LEMMA PaidIsBounded ==
    ASSUME MaxLost < BatchSize, TypeOK, NEW j \in JobId, Paid(j)
    PROVE  waited[j] <= MaxRounds + faults
<1> DEFINE n == waited[j] - 1 - faults
           q == (MaxJobs - 1) \div Gain
<1>1. Counts(j) /\ MaxJobs - 1 \in Nat
  BY WaitTypes, ReconciliationBounds DEF JobId
<1>2. MaxRounds = 1 + q
  BY DEF MaxRounds, Gain
<1>3. q \in Nat
  BY <1>1, Quotient, Products DEF Counts
<1>4. n > 0 => n <= q
  <2> SUFFICES ASSUME n > 0 PROVE n <= q
    OBVIOUS
  <2>1. n \in Nat /\ waited[j] = (faults + n) + 1
    BY <1>1 DEF Counts
  <2>2. Gain * waited[j] = Gain * faults + Gain * n + Gain
    BY <1>1, <2>1 DEF Counts
  <2>3. Gain * n <= MaxJobs - 1
    BY <1>1, <2>1, <2>2, Products, ReconciliationBounds DEF Paid, Counts
  <2> QED
    BY <1>1, <2>1, <2>3, Quotient DEF Counts
<1> HIDE DEF q
<1> QED
  BY <1>1, <1>2, <1>3, <1>4 DEF Counts

\* No accepted row waits longer for an answer than it takes to poll all other rows,
\* if PseudoGram forgets fewer DMs than a batch holds (run_once, _load_pending).
THEOREM NobodyStarves ==
    ASSUME MaxLost < BatchSize
    PROVE  Spec => []WaitIsBounded
<1>1. Init => BaseInv /\ WaitInv
  BY BaseInit, InitWaits
<1>2. BaseInv /\ WaitInv /\ [Next]_vars => BaseInv' /\ WaitInv'
  BY BaseStep, WaitStep
<1>3. BaseInv /\ WaitInv => WaitIsBounded
  BY PaidIsBounded DEF BaseInv, WaitInv, WaitIsBounded
<1> QED
  BY <1>1, <1>2, <1>3, PTL DEF Spec
=============================================================================
