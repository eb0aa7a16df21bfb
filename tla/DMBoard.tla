------------------------------ MODULE DMBoard -------------------------------
(***************************************************************************)
(* What the queue of DMs promises, whatever it does to keep the promise:   *)
(* per job the state /stats derives its numbers from, and whether          *)
(* PseudoGram has a DM of it that arrived or may still arrive.             *)
(*                                                                         *)
(* A job belongs to one slot, a (rule, user) pair.  It has at most one     *)
(* live DM, `sent` is only said of a DM that arrived and is never taken    *)
(* back, and two jobs of a slot need the first one withdrawn.              *)
(***************************************************************************)
CONSTANTS Job, Slots, None

VARIABLES
    slot,      \* the slot of each job, None before it is posted
    state,     \* what is said of each job
    live,      \* the jobs with a DM that arrived or may still arrive
    arrived,   \* the jobs with a DM that arrived
    exclusive  \* no more than one party writes a job at a time

bvars == <<slot, state, live, arrived, exclusive>>

Init ==
    /\ slot = [j \in Job |-> None]
    /\ state = [j \in Job |-> "unposted"]
    /\ live = {} /\ arrived = {}
    /\ exclusive \in BOOLEAN

Holds(j, s) == slot[j] = s /\ state[j] \in {"pending", "sent", "failed"}

\* Jobs are posted one by one or several at once, each into a slot of its own.
Post(J) ==
    /\ \A j \in J : state[j] = "unposted"
    /\ \E to \in [J -> Slots] :
           /\ \A i, j \in J : to[i] = to[j] => i = j
           /\ \A j \in J, i \in Job : ~Holds(i, to[j])
           /\ slot' = [j \in Job |-> IF j \in J THEN to[j] ELSE slot[j]]
    /\ state' = [j \in Job |-> IF j \in J THEN "pending" ELSE state[j]]
    /\ UNCHANGED <<live, arrived, exclusive>>

\* A DM appears at PseudoGram, for whatever request of the job, however late.
Appear(j) ==
    /\ state[j] # "unposted"
    /\ j \notin live
    /\ live' = live \cup {j}
    /\ UNCHANGED <<slot, state, arrived, exclusive>>

Arrive(j) ==
    /\ j \in live \ arrived
    /\ arrived' = arrived \cup {j}
    /\ UNCHANGED <<slot, state, live, exclusive>>

Vanish(j) ==
    /\ j \in live \ arrived
    /\ live' = live \ {j}
    /\ UNCHANGED <<slot, state, arrived, exclusive>>

Confirm(j) ==
    /\ state[j] = "pending" /\ j \in arrived
    /\ state' = [state EXCEPT ![j] = "sent"]
    /\ UNCHANGED <<slot, live, arrived, exclusive>>

GiveUp(j) ==
    /\ state[j] = "pending"
    /\ state' = [state EXCEPT ![j] = "failed"]
    /\ UNCHANGED <<slot, live, arrived, exclusive>>

\* A comment was deleted: its jobs go together.
Withdraw(J) ==
    /\ \A j \in J : state[j] = "pending"
    /\ state' = [j \in Job |-> IF j \in J THEN "withdrawn" ELSE state[j]]
    /\ UNCHANGED <<slot, live, arrived, exclusive>>

\* Where two parties may write one job, an end other than `sent` may be undone,
\* though never into a slot that another job holds.
Reopen(j) ==
    /\ ~exclusive
    /\ state[j] \in {"failed", "withdrawn"}
    /\ \A i \in Job \ {j} : ~Holds(i, slot[j])
    /\ \E s \in {"pending", "failed"} : state' = [state EXCEPT ![j] = s]
    /\ UNCHANGED <<slot, live, arrived, exclusive>>

ChangeHands ==
    /\ exclusive' = ~exclusive
    /\ UNCHANGED <<slot, state, live, arrived>>

Next ==
    \/ \E j \in Job : Appear(j) \/ Arrive(j) \/ Vanish(j) \/ Confirm(j)
                      \/ GiveUp(j) \/ Reopen(j)
    \/ \E J \in SUBSET Job : Post(J) \/ Withdraw(J)
    \/ ChangeHands

Spec == Init /\ [][Next]_bvars
=============================================================================
