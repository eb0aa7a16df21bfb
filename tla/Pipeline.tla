------------------------------ MODULE Pipeline ------------------------------
(***************************************************************************)
(* From the comment to the DM: the event worker of EventIntake and the     *)
(* writers of DMQueue in one process, on one database.                     *)
(*                                                                         *)
(* SQLite is in WAL mode.  `jobs` is the table as committed, which every   *)
(* connection reads; `view` is the table as the event worker's own         *)
(* connection reads it.  The two differ only while the event worker has a  *)
(* transaction open, and then nobody else can write.                       *)
(***************************************************************************)
EXTENDS DMQueue

CONSTANTS
    MaxEvents, BatchSize, RequeueMayFail, Payloads   \* as in EventIntake

ASSUME PipelineBounds ==
    /\ MaxEvents \in Nat /\ BatchSize \in Nat \ {0} /\ RequeueMayFail \in BOOLEAN

VARIABLES
    view,     \* dm_jobs as the event worker's connection sees it
    events, content, active, blocked, undo, batch, cur, todo, decided,
    ifaults,  \* faults of EventIntake so far
    claimed   \* history: jobs that were ever claimed

I == INSTANCE EventIntake WITH
    MaxRows <- MaxJobs,
    jobs    <- view,
    up      <- mode # "down",
    faults  <- ifaults

ASSUME PipelinePayloads ==
    /\ Payloads \subseteq I!Payload
    /\ \A p \in Payloads : /\ p.type = "deleted" => p.comment # None
                           /\ p.type = "created" => p.comment \in Origins
    /\ None \notin [jobs : [JobId -> Row], blocked : Nat]

log    == <<events, content, active>>
task   == <<batch, cur, todo, decided>>
intake == <<view, log, blocked, undo, task, ifaults>>
pvars  == <<vars, intake, claimed>>

PInit == Init /\ I!Init /\ claimed = {}

-----------------------------------------------------------------------------
\* Requests are served until the shutdown begins.
Web ==
    /\ mode = "up"
    /\ \/ \E e \in I!EventId : I!Ingest(e)
       \/ \E s \in Slots : I!CreateRule(s)

\* The thread of the event worker goes on when the tasks are cancelled, and may be
\* so late that it claims its batch only then.
Ahead(action) ==
    /\ UNCHANGED <<provider, worker, recon, process, claimed>>
    /\ action
    /\ jobs' = I!Snapshot.jobs'

IntakeStep == Ahead(Web \/ I!Worker \/ I!ProcessFails \/ I!RequeueFails)

\* Mutant: the event worker's next commit writes the rows back as it read them first.
Follow_Never == UNCHANGED view
\* The event worker reads what is committed; its open transaction keeps the other
\* writers waiting.
Follow ==
    /\ undo # None => jobs' = jobs
    /\ view' = IF undo = None THEN jobs' ELSE view

Sending == {j \in JobId : jobs[j].status = "sending"}

\* An action of DMQueue next to the event worker.
Beside(action) ==
    /\ action
    /\ Follow
    /\ claimed' = claimed \cup Sending'
    /\ UNCHANGED <<log, blocked, undo, task, ifaults>>

QueueStep ==
    Beside(DMWorker \/ Reconciler \/ PseudoGram \/ Stop \/ \E j \in JobId : RequeueStale(j))

\* The interpreter waits for the threads of the pool.
Leave ==
    /\ ExitProcess
    /\ cur = None /\ batch = {}
    /\ UNCHANGED <<intake, claimed>>

Die == Crash /\ I!Crash /\ UNCHANGED claimed

\* recover_state is one transaction for both tables.
Recover ==
    /\ Restart
    /\ view' = jobs'
    /\ events' = [e \in I!EventId |-> I!Recovered(events[e])]
    /\ UNCHANGED <<content, active, blocked, undo, task, ifaults, claimed>>

PNext == IntakeStep \/ QueueStep \/ Leave \/ Die \/ Recover

PSpec == PInit /\ [][PNext]_pvars

-----------------------------------------------------------------------------
(* Safety.                                                                 *)

\* The pipeline behaves like DMQueue, where jobs appear out of nothing: with the
\* real event worker in front, whose transactions show several rows at once or
\* are rolled back, the table is written in no other way, so that all DMQueue is
\* shown to promise holds from end to end.
ImplementsQueue == Spec

\* Every DM at PseudoGram goes back to a stored comment that matched an active rule:
\* nothing rolled back, repeated or requeued leaves a DM nobody asked for.
EveryDMWasAskedFor ==
    \A j \in JobId, k \in Cycles : dm[j][k] # "none" =>
        \E e \in I!EventId :
            /\ events[e] # "absent" /\ content[e].type = "created"
            /\ content[e].comment = jobs[j].comment
            /\ jobs[j].slot \in content[e].slots \cap active

\* An event marked processed has its jobs in the committed table, and its DMs are
\* someone's business from then on, with the DM worker and all its failures at work
\* on the same rows.
ProcessedIsCommitted ==
    \A e \in I!EventId : events[e] = "processed" =>
        \A s \in decided[e] : \E j \in JobId : Exists(j) /\ jobs[j].slot = s

Deletion(c) ==
    \E e \in I!EventId :
        events[e] = "processed" /\ content[e].type = "deleted" /\ content[e].comment = c

\* Once a deletion is processed no DM of its comment is begun: a job of the comment
\* that is claimed from then on had been claimed before.
NoFirstClaimAfterDeletion ==
    [][\A j \in JobId :
           j \in claimed' \ claimed => ~Deletion(jobs[j].comment)]_pvars

-----------------------------------------------------------------------------
(* What the documents say and the code does not do.                        *)

\* "Cancel not-yet-sent jobs created by a comment that was deleted": once the deletion
\* is processed, cancellation and all, no request leaves for a job that never reached
\* PseudoGram before.
DeletedCommentIsNotSent ==
    [][phase = "acquiring" /\ phase' = "sending" =>
           \/ ~Deletion(jobs[wJob].comment)
           \/ \E k \in Cycles : dm[wJob][k] # "none" \/ <<wJob, k>> \in late]_pvars

-----------------------------------------------------------------------------
(* Liveness.                                                               *)

\* Every loop of the process keeps running, PseudoGram answers requests and
\* decides the fate of each DM, and a process that is down is started again.
PFairness ==
    /\ WF_pvars(Ahead(I!Worker))
    /\ WF_pvars(Beside(SelectCandidates)) /\ WF_pvars(Beside(ClaimNone))
    /\ WF_pvars(Beside(\E j \in JobId : ClaimNextJob(j) \/ LoseClaim(j)))
    /\ WF_pvars(Beside(SendRequest))
    /\ WF_pvars(Beside(\E r \in SendResults : SendReturns(r)))
    /\ WF_pvars(Beside(ApplyResult))
    /\ WF_pvars(Beside(ReleaseRead)) /\ WF_pvars(Beside(ReleaseWrite))
    /\ WF_pvars(Beside(ReconLoad)) /\ WF_pvars(Beside(ReconApply))
    /\ WF_pvars(Beside(\E p \in rBatch : ReconPoll(p)))
    /\ WF_pvars(Leave) /\ WF_pvars(Recover)
    /\ \A j \in JobId : WF_pvars(Beside(RequeueStale(j)))
    /\ \A j \in JobId, k \in Cycles : WF_pvars(Beside(DMOutcome(j, k)))

PFairSpec == PSpec /\ PFairness

\* A stored comment leads to its outcome: it is decided, and every (rule, user) pair
\* it matched has a job that is delivered, given up or cancelled.
CommentReachesOutcome ==
    \A e \in I!EventId : events[e] = "received" ~>
        /\ events[e] \in I!Final
        /\ \A s \in decided[e] :
               \E j \in JobId : jobs[j].slot = s /\ jobs[j].status \in FinalStatuses
=============================================================================
