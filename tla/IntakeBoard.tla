---------------------------- MODULE IntakeBoard -----------------------------
(***************************************************************************)
(* What the event worker and the DM worker may do to each other's rows of  *)
(* dm_jobs, as far as it is committed.  EventIntake, where the events are  *)
(* decided and the DM worker is a sketch, and DMQueue, where it is the     *)
(* other way round, both implement it: what the one leaves out is what the *)
(* other keeps.                                                            *)
(*                                                                         *)
(* Rows are posted for a comment not known to be deleted, into slots that  *)
(* nobody holds, those of one transaction together.  A deletion withdraws  *)
(* all rows of its comment that wait, and none that was taken.             *)
(***************************************************************************)
CONSTANTS Job, Slots, Comments, None

VARIABLES
    board,     \* the stage, slot and comment of each row
    deleted,   \* the comments known to be deleted
    exclusive  \* no more than one party writes a row at a time

ivars == <<board, deleted, exclusive>>

Blank == [stage |-> "unposted", slot |-> None, comment |-> None]

Init ==
    /\ board = [j \in Job |-> Blank]
    /\ deleted = {}
    /\ exclusive \in BOOLEAN

Posted == {j \in Job : board[j].stage \in {"waiting", "taken"}}

Free(s, J) == \A j \in J \cap Posted : board[j].slot # s

Post(J, c) ==
    /\ c \notin deleted
    /\ \A j \in J : board[j].stage = "unposted"
    /\ \E slot \in [J -> Slots] :
           /\ \A i, j \in J : slot[i] = slot[j] => i = j
           /\ \A j \in J : Free(slot[j], Job)
           /\ board' = [j \in Job |->
                            IF j \in J
                            THEN [stage |-> "waiting", slot |-> slot[j], comment |-> c]
                            ELSE board[j]]
    /\ UNCHANGED <<deleted, exclusive>>

Delete(c) ==
    /\ deleted' = deleted \cup {c}
    /\ UNCHANGED <<board, exclusive>>

At(j, stage) == [board[j] EXCEPT !.stage = stage]

Waits(j, c) == board[j].stage = "waiting" /\ board[j].comment = c

Withdraw(c) ==
    /\ c \in deleted
    /\ board' = [j \in Job |-> IF Waits(j, c) THEN At(j, "withdrawn") ELSE board[j]]
    /\ UNCHANGED <<deleted, exclusive>>

\* Rows are taken, put back and finished, several at once when the process starts.
Handle ==
    /\ \E stage \in [Posted -> {"waiting", "taken"}] :
           board' = [j \in Job |-> IF j \in Posted THEN At(j, stage[j]) ELSE board[j]]
    /\ UNCHANGED <<deleted, exclusive>>

\* Where two parties may write one row, a withdrawn one may come back, though never
\* into a slot that another row holds.
Revive(j) ==
    /\ ~exclusive
    /\ board[j].stage = "withdrawn" /\ Free(board[j].slot, Job \ {j})
    /\ \E stage \in {"waiting", "taken"} : board' = [board EXCEPT ![j] = At(j, stage)]
    /\ UNCHANGED <<deleted, exclusive>>

ChangeHands ==
    /\ exclusive' = ~exclusive
    /\ UNCHANGED <<board, deleted>>

Next ==
    \/ \E J \in SUBSET Job, c \in Comments \cup {None} : Post(J, c)
    \/ \E c \in Comments : Delete(c) \/ Withdraw(c)
    \/ Handle
    \/ \E j \in Job : Revive(j)
    \/ ChangeHands

Spec == Init /\ [][Next]_ivars
=============================================================================
