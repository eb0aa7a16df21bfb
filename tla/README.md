# LinkPlease: TLA+ specification

LinkPlease receives signed webhooks about comments, matches comment texts
against keyword rules, and sends one direct message (DM) per matching rule and
user through the PseudoGram API, never faster than 10 sends per rolling 60 s.
It is one asyncio process with a SQLite database. Webhooks arrive at least once
and in any order; PseudoGram answers `202` before anything is delivered, fails
often, and deduplicates by `Idempotency-Key`; the process may die anywhere.

This directory models the parts whose order of steps matters, checks them on
small instances with TLC, and proves the central safety properties with TLAPS
for every value of the constants.

| Module | Models | Checked by | Proofs |
| --- | --- | --- | --- |
| `JobRow` | one row of `dm_jobs` and the pure transitions of `services/jobs.py` | through the modules that extend it | `JobRowProofs` |
| `DMBoard` | abstractly, what the queue promises: posted, sent, given up or withdrawn | through `DMQueue` | `DMQueueProofs` |
| `IntakeBoard` | abstractly, what event worker and DM worker may do to each other's rows | through `EventIntake` and `DMQueue` | `EventIntakeProofs`, `DMQueueProofs`, `WebhookIntakeProofs` |
| `DMQueue` | DM worker, reconciler, maintenance, start/stop, PseudoGram, all on one table | `MCDMQueue` | `DMQueueProofs` |
| `JobBudget` | `DMQueue` with `attempts` and the requests that really left | `MCJobBudget` | `JobBudgetProofs` |
| `Reconciliation` | the reconciler's batch and the order of `updated_at` | `MCReconciliation` | `ReconciliationProofs` |
| `EventIntake` | `events`, the event worker and its transactions | `MCEventIntake` | `EventIntakeProofs` |
| `WebhookIntake` | `EventIntake` behind `POST /webhook`: racing and repeated deliveries | `MCWebhookIntake` | `WebhookIntakeProofs` |
| `Pipeline` | `EventIntake`'s event worker and all of `DMQueue` on one database | `MCPipeline` | `PipelineProofs` |
| `RateLimiter` | the rolling window, `send_attempt_log`, PseudoGram's own window | `MCRateLimiter` | `RateLimiterProofs` |

`JobRow` has no variables. `DMQueue`, `Reconciliation` and `EventIntake` all
extend it, so a row is created, claimed, cancelled and requeued by the same
operators everywhere. `JobBudget` extends `DMQueue` and `WebhookIntake` extends
`EventIntake`: each adds variables and joins its steps to those of the module
below. `DMBoard` is what `DMQueue` is shown to implement, and `IntakeBoard` what
`EventIntake`, `WebhookIntake` and `DMQueue` are all shown to implement.
`Pipeline` puts the two halves of the system together, by extending `DMQueue` with
an instance of `EventIntake`, and is shown to implement `DMQueue`.

## 1. Inventory

### Components

| Component | State | Operations | Modelled in |
| --- | --- | --- | --- |
| Job table (`services/jobs.py`, `models.py`) | `dm_jobs`, partial unique index on (rule, user) | create, cancel, claim, apply send result, apply delivery status, requeue stale | `JobRow`, `DMQueue`, `JobBudget`; abstractly `DMBoard`, `IntakeBoard` |
| DM worker (`workers/dm_worker.py`) | the claimed row held across awaits | `run_once`: claim, acquire, send, apply, release | `DMQueue`, `Pipeline` |
| Reconciler (`services/reconciliation.py`) | batch of (job, dm_id) pairs | load, poll, apply | `DMQueue` (one at a time), `Reconciliation` (batches) |
| Worker manager (`workers/manager.py`, `main.py`) | tasks, stop event | recover, start, stop, sweep | `DMQueue`, `EventIntake`, `Pipeline` |
| PseudoGram client (`services/pseudogram.py`) | none | classify answers | `JobRow`, `DMQueue`, `RateLimiter` |
| PseudoGram (external; `scripts/mock_pseudogram.py`) | DMs by idempotency key, its own rolling window | accept, refuse with 429, decide, forget | `DMQueue`, `RateLimiter`, `Reconciliation` |
| Event intake, event worker (`services/events.py`, `workers/event_worker.py`) | `events`, `deleted_comments`, claimed batch | ingest, claim, process, retry, requeue | `EventIntake`, `Pipeline`; abstractly `IntakeBoard` |
| Counters (`services/counters.py`) | `counters` | increment | `EventIntake` (`duplicates_blocked`), `WebhookIntake` (`events_received`) |
| Rate limiter (`services/rate_limiter.py`) | deque, `send_attempt_log` | acquire, persist, warm start, penalise | `RateLimiter` |
| Database sessions (`database.py`) | open transaction | commit, rollback | `undo` in `EventIntake`, failing threads in `DMQueue`, what each connection sees in `Pipeline` |
| Matching (`services/matching.py`), rules endpoint (`api/rules.py`) | `rules` | match, create | `EventIntake` (partly) |
| Webhook endpoint, signature, schemas | one thread per request | verify, parse, ingest, answer | `WebhookIntake` from ingest on |
| Statistics endpoint | none | read | `DMBoard` is the table as it counts it |
| Settings, clock, scripts | none | | not modelled |

### How they interact

All components of the running process share the database and nothing else,
except that the DM worker calls the rate limiter and the client. Database work
runs in threads (`asyncio.to_thread`), so two components' statements interleave
at every commit, and a thread goes on after the task that waits for it was
cancelled. Everything the worker or reconciler knows about a row it read in an
earlier transaction.

### What is hard

* The claim, the wait for the limiter, the request, and the write of its result
  are four steps of one `run_once`; cancellation, the maintenance sweep, the
  reconciler, shutdown and a crash fall between any two of them.
* A request may be accepted without our knowing, and may arrive long after we
  gave up on it.
* `apply_send_result` never looks at the status the row has by then;
  `ReconciliationService._apply` looks at the status but not at `dm_id`.
* An event may be interrupted after some of its jobs are committed, and the
  deletion of a comment may be processed before its creation.
* Deliveries of one event race each other and the event worker; the row and the
  counter of an event are two commits, and the sender learns no more than a
  status code.
* The limiter's memory must survive a restart, though writing it may fail; it
  counts grants, while PseudoGram counts arrivals.
* Rows whose polls change nothing keep their place at the head of the
  reconciler's order.

### What makes each component correct

* Jobs: one live DM per job; the send cycle counts real delivery failures;
  `delivered` means delivered; a final status stays; every job finishes.
  `sent` is never taken back. The two retry budgets together bound what a job
  can cost, and every request is paid for.
* Unique index: two live DMs for one (rule, user) only through a cancellation.
* DM worker: a claimed row is the worker's alone. Reconciler: what it loaded is
  still what it may act on, no row is starved and each outcome arrives.
* Intake: a processed event has its jobs; creation and deletion commute; what was
  committed is never taken back; the
  counters never fall short; every event is decided, and only once.
* Webhook endpoint: a `200` is a receipt, and repeated deliveries do no harm.
* Limiter: at most `max_calls` per window, also across restarts; one sleep is
  enough, so is one pause after a `429` where it is made, and a `429` is the network's doing.

The full list of hazards, each with its source line and the properties that
cover it, is in `PROJECT.json`.

## 2. Models and code

### `JobRow`

A row keeps what the properties distinguish: status, the (rule, user) pair as
one `slot`, the comment, `transient` (`transient_failures`), `cycle`
(`send_cycle`), `dmId` and whether `next_retry_at` is set. The idempotency key
of a row is a function of its id and cycle, so within a row the key *is* the
cycle, and `dmId` is the key PseudoGram created the DM for. `attempts` (reported
only, no decision reads it) is added by `JobBudget`; messages, error texts,
timestamps and the amount of a backoff are left out.

### `DMQueue`

Variables: `jobs`, `deleted` (the two tables), `dm` and `late` (PseudoGram and
the network), `phase`, `cand`, `wJob`, `wKey`, `result`, `threads` (the DM
worker), `rBatch`, `rCur` (the reconciler), `mode` and `faults` (the process).

| Code | Action |
| --- | --- |
| `create_job` / `_process_comment_deleted`, as far as they are committed | `CreateJobs(J, c)`, `RecordDeletion`, `CancelJobs` |
| `claim_next_job`: SELECT, conditional UPDATE | `SelectCandidates`, `ClaimNextJob`, `ClaimNone`, `LoseClaim` |
| `limiter.acquire()` returns | `SendRequest` |
| `send_dm` returns or raises | `SendReturns(r)` for each outcome, `SendRaises` |
| `DMWorker._apply` in its thread | `ApplyResult` |
| `_release_claim`: read, then write | `ReleaseRead`, `ReleaseWrite` |
| a statement in one of those threads fails | `ThreadFails` |
| `_load_pending`, `get_dm_status`, `_apply` | `ReconLoad`, `ReconPoll`, `ReconPollFails`, `ReconApply`, `ReconApplyFails` |
| maintenance sweep | `RequeueStale` |
| `stop`, end of the process, kill, `start` | `Stop`, `ExitProcess`, `Crash`, `Restart` |
| PseudoGram decides; a delayed request arrives | `DMOutcome`, `LateArrives` |

Decisions a reader should know:

* The event worker commits the rows of an event one by one, or several together
  when a transaction was open (see `EventIntake`), so `CreateJobs` takes a set. A
  comment may come without an id: `Origins` says what events are about, and a row
  of `None` is never reached by a deletion. That this is all the event worker does
  to the table is not taken on trust: `Pipeline` shows it.
* A `retry_wait` row may be due at any time, and two rows with `next_retry_at`
  set may come in either order: time is left to TLC. The `ORDER BY` is kept as
  far as it separates rows with and without `next_retry_at`. `LIMIT 10` of
  `claim_next_job` is not reached; the reconciler's batch is the subject of
  `Reconciliation`.
* `threads` may hold `apply` and `read` at once: `stop()` cancels `run_once`,
  whose `except CancelledError` starts `_release_claim` while the thread of
  `_apply` is still running. `ReleaseRead` and `ReleaseWrite` are two steps
  because the ORM reads the row and writes it at the commit.
* `ApplyResult` and `ReconApply` read and write the same way but are one step:
  while a claim or a poll is held nobody else changes the columns their write is
  computed from (`WorkerInv` and `PollInv` below), so a write by another thread
  that falls between their read and their write gives the same row as one before
  the read.
* A `5xx` creates no DM; `accepted_no_dm_id` and a timeout may. A replayed key
  is answered with the DM it stands for before the request is validated, so
  `invalid` is only answered to a key that is not known. This is the behaviour
  of `scripts/mock_pseudogram.py`, the repository's own stand-in; a DM created
  behind an error is covered by the timeout, after which the job goes the same
  way.
* `SlowSend` says whether a live claim can outlast `sending_stale_seconds`
  (120 s by default, while `acquire` alone can take a minute and a request its
  HTTP timeout). Both values are checked, and the proofs hold for both.
* The client is configured (`run_once` returns at once otherwise) and one
  process runs, as `FAILURES.md` of the repository requires ("run exactly one instance").

### `DMBoard`

Per job the board shows what `/stats` derives its numbers from (`unposted`,
`pending`, `sent`, `failed`, `withdrawn`) and whether PseudoGram has a DM of it
that arrived (`arrived`) or still may (`live`). `Confirm` needs a DM that
arrived, `Post` a free slot, and a job has one live DM at a time. `Reopen` is what
two writers of one row can do: undo `failed` or `withdrawn`, never `sent`, and
never into a slot another job holds. It is possible only while `exclusive` is
false. The mapping (`Board` in `DMQueue`) reads `exclusive` as
`mode # "stopping" /\ ~SlowSend`: with fast sends, only a shutdown can reopen a
job. Claims, retries, sweeps, polls and restarts are stutters of the board. A DM
that appears without the worker's knowing and an answer that never comes are
visible there only as `Appear`, at whatever time.

### `IntakeBoard`

`EventIntake` knows the DM worker as a sketch (`DMWorkerMoves`), and `DMQueue` the
event worker (`CreateJobs`, `RecordDeletion`, `CancelJobs`). `IntakeBoard` is where
the two meet: it says what either party may do to the rows of the table and
to the deletions recorded, as far as it is committed, and both modules implement
it. A row is `unposted`, `waiting` (to be sent, for the first time or again),
`taken` (claimed, handed over, or at an end) or `withdrawn`; `Stage` and `Entry` of
`JobRow` are the mapping.

* `Post(J, c)`: rows appear, those of one transaction together, for one comment
  that is not known to be deleted and in slots nobody holds.
* `Delete(c)`, `Withdraw(c)`: a deletion is recorded, and later withdraws all rows
  of its comment that wait and none that was taken. What is recorded stays.
* `Handle`: rows that hold their slots are taken, put back and finished.
* `Revive(j)`: a withdrawn row comes back, into a slot that is free, and only while
  two parties may write one row (`~exclusive`).

In `EventIntake` the board is the *committed* table (`Snapshot.jobs`), so that a row
that was shown and then rolled back would be a step no action of the board
allows; `exclusive` is `TRUE`. In `DMQueue`, where each transaction is one step,
it is the table, and `exclusive` is read as for `DMBoard`. The two modules thus keep one
contract, each with the other as a sketch; `Pipeline` has both in full.

### `JobBudget`

`attempts` is `dm_jobs.attempts`, `requests` the number of requests that left.
`Request`, `Result` and `Outcome` are `SendRequest`, `ApplyResult` and
`ReconApply` with what they count; every other step of `DMQueue` counts nothing
(`Uncounted`). A result the unique index refuses is rolled back with its count.

### `Reconciliation`

`updatedAt` is each row's place in the order of `updated_at`: whoever writes a row
moves it to the end (`Touch`). A batch (`Selected`) is the first `BatchSize`
accepted rows of that order, and `NextToPoll` its oldest row. `PollOK` is poll and
`_apply` together, and an answer of "queued" writes the row, too;
`PollNotFound` (404) and `PollError` leave row and order as they are; `RoundLost`
is an exception, which ends the round. `HandOver` is the DM worker, seen as one
step. PseudoGram may leave a DM undecided for ever, or forget it (`LoseDM`).
`waited` is a history variable: how many rounds began since the last answer about
an accepted row. It stops counting at `MaxWait`, one past what `WaitIsBounded` allows.

### `EventIntake`

Variables: `events`, `content` (what each event says, fixed at the start),
`active` (slots opened by the active rules), `jobs`, `deleted`, `blocked`
(`duplicates_blocked`), `undo` (what a rollback restores), `batch`, `cur`,
`todo` (the event worker), `decided` (history: what the event was matched with
when it was last begun), `claimed` (history: the rows ever claimed), `up`, `faults`.

| Code | Action |
| --- | --- |
| `ingest_event`, `POST /rules`, DM worker | `Ingest`, `CreateRule`, `DMWorkerMoves` |
| `claim_pending_events` | `ClaimPendingEvents` |
| `process_event` up to its first write | `BeginEvent` |
| `create_job`: inserted, or refused by the index | `InsertJob`, `BlockDuplicate` |
| the row of `deleted_comments` | `RecordDeletion` |
| rest of `process_event`, and the commit | `FinishEvent` |
| the `except` branch; an exception in it | `ProcessFails`, `RequeueFails` |
| the process dies; `recover_state` | `Crash`, `Restart` |

Commit points are those of SQLite under the driver's default mode: reading
opens no transaction, an `UPDATE` opens one, and a `SAVEPOINT` issued with no
transaction open is itself the outermost one. Releasing the savepoint of
`create_job` then commits the row at once. After a
refused insert the `UPDATE` of the counter leaves a transaction open, and later
savepoints are nested in it. `undo` is `None` outside a transaction. A writer
elsewhere waits until the transaction is closed (`NoTxn`).

A rule is the set of (rule, user) slots it opens and a comment the set of slots
it matches, so that the substring test, a pure function, is left out. The order
in which matching rules are inserted is left open. An event arrives once here;
its deliveries are the subject of `WebhookIntake`.

`DMWorkerMoves` is a sketch of `DMQueue`: a row is claimed, and what `Handled` says of
a claimed row covers the results of the send, the reconciler, the release of the
claim and the sweep; `Restart` puts claimed rows back (`Unclaimed`). The sketch
writes each row on the status it has at that moment. Writes that come too late for
that, over a cancellation or an end, are the subject of `DMQueue`. Since a row may be
`queued` again after it was claimed, "a deletion catches all" can only be said of
rows that were not claimed before it; `claimed` remembers those that were.

### `WebhookIntake`

| Code | Action |
| --- | --- |
| the sender delivers, needed or not | `Deliver` |
| `ingest_event`: the INSERT, committed with its savepoint | `Insert` |
| `counters.increment(EVENTS_RECEIVED)`, a second commit | `CountReceived` |
| the INSERT is refused: `_handle_duplicate_event` | `CountRepeat` |
| an exception in `_store`: 503 | `StoreFails` |
| the 200 reaches the sender | `Answer` |
| the process dies with its requests | `CrashWithRequests` |

`Insert` takes the place of `Ingest`, every other step of `EventIntake` is as it
was. The threads of two deliveries of one event interleave with each other and
with the worker. `credit` remembers what the repeated deliveries matched, so that
the counting of `COUNT_DUPLICATE_EVENTS_AS_BLOCKED=true` can be stated. Events are
numbered in the order in which they are stored. Requests that fail the checks of
size, signature, JSON or schema change nothing and are left out, and so is the
counter `duplicate_events`, which is shown nowhere.

### `Pipeline`

The event worker is the instance `I` of `EventIntake`, without its sketch of the DM
worker. Its steps (`IntakeStep`) interleave on one table with those of `DMQueue`
(`QueueStep`), without their sketch of the event worker. SQLite is in WAL mode, so
`jobs` is the table as committed, which everyone reads, and `view` the table as the
event worker's connection sees it. They differ only while it has a transaction open.
During that time nobody else can write (`Follow`): a write elsewhere waits for the
lock and then goes on from what is committed, while a step that only reads, or
talks to PseudoGram, goes on.

| Code | Action |
| --- | --- |
| webhooks and rules, until the shutdown | `Web` |
| the event worker's thread; it outlives its cancelled task | `IntakeStep` |
| DM worker, reconciler, sweep, `stop` | `QueueStep` |
| the interpreter ends when the threads of its pool have | `Leave` |
| the process dies in the middle of both | `Die` |
| `recover_state`: one transaction over events and jobs | `Recover` |

`claimed` is a history variable, the jobs that were ever claimed. How many
batches the event worker still claims during a shutdown is left open (the code
claims one at most).

### `RateLimiter`

`ts` gives each grant its timestamp; the deque `stamps` and the table `log` are
sets of grants. `Grant` and `Sleep` are the two ways through the loop of
`acquire`, `Persist` its `_persist`, `Arrive` the request reaching PseudoGram,
`WarmStart` load, prune and seed. `amnesia` collects the sends that the process
cannot know of because their row was never written, or because a warm start
failed: the code chooses to start anyway ("never block startup on this"), so
the bound is stated for the others. The clock only moves forward.

PseudoGram's window is modelled after the mock: `arrived` and `refused` say when
each request got there and whether it was answered 429. A request is under way
for at most `MaxLatency` ticks before the client gives up on it (`GiveUpOn`), and
may arrive later still (`ArriveLate`). A replayed `Idempotency-Key` is answered
before the window is looked at. After a 429 the worker pauses for `Retry-After`
(`penalise`), which a crash forgets. The result of the 429 is stored before the pause;
if that fails (`_apply` raises), the claim is released, `penalise` is skipped and the
next request leaves at once. This is the third disjunct of `Arrive`, and `paused` is
true only where a pause was made.

## 3. Runs

Deadlock checking is off everywhere: when every job is final, every event
decided, or the bounds are used up, the system has nothing left to do.

| Run | Instance | States | Shows |
| --- | --- | --- | --- |
| `queue_safety` | 2 jobs, 2 slots, 1 comment, budgets 2 and 2, 1 fault, fast sends | 1.7 M | `TypeOK`, `OneLiveDMPerJob`, `CycleCountsFailures`, `SentIsDelivered`, `WorkerOwnsClaim`, `FinalStatusStays`, `ImplementsBoard` |
| `slow_send` | `JobBudget`: 2 jobs, 1 slot, a comment or none, budgets 2 and 2, 1 fault, slow sends | 1.0 M | `AttemptsBounded`, `RequestsAreCounted`, `OneLiveDMPerJob`, `PollsAreCurrent`, `SecondDMNeedsDeletedComment`, `ImplementsIntake` when a live claim is requeued under the worker and a slot changes hands |
| `recon` | 3 rows, batches of 2, 1 forgotten DM, 1 fault, fairness | 0.2 M | `TypeOK`, `WaitIsBounded`, `EveryRowIsPolled`, `OutcomeReachesRow` |
| `intake_safety` | 3 events, 2 comments, 2 slots, each text holding every keyword, 4 rows, batches of 2, 1 fault | 0.8 M | `TypeOK`, `ProcessedMeansJob`, `DeletionCatchesAll`, `AccountingNeverShort`, `ImplementsIntake` |
| `intake_live` | 2 events, 1 comment, 1 slot, 2 threads, 1 delivery too many, 2 faults, fairness | 0.9 M | `AckedIsStored`, `ReceivedIsHonest`, `DeliveriesAccounted`, `DecidedOnce`, `EveryEventIsDecided` when the exception handler itself works |
| `pipeline` | 2 events of 1 comment, 2 slots, 2 jobs, budgets 1 and 1, 1 fault on each side, fast sends | 1.6 M | `EveryDMWasAskedFor`, `ProcessedIsCommitted`, `ImplementsQueue`, `NoFirstClaimAfterDeletion` |
| `pipeline_live` | as above, 1 slot, budgets 2 and 2, fairness | 0.2 M | `CommentReachesOutcome`, `JobsFinish` when the exception handler itself works |
| `limiter` | 2 calls per 3 ticks, latency up to 1, 7 ticks, 4 grants, 2 faults | 5.6 M | `TypeOK`, `WindowRespected`, `WakeFindsSlot`, `RefusalNeedsDelay`, `PauseIsEnough` |

Why the bounds are enough to be interesting: two jobs let one job's steps fall
between another's and compete for one slot; budgets of 2 give each budget a
first failure, a last one and a reset. In `intake_safety` every creation matches what is
active when it is begun, and `CreateRule` decides which slots that is. Two slots and two comments make a
duplicate, a deletion of one's own comment and a deletion of another's
different, and so do a comment and none in `slow_send`. One fault puts a crash, a
shutdown or a failed write at any point of the queue, and what several do together
is left to the proofs. Three events cover create, create again, delete in every order, with a batch of two that leaves
one behind. Two request threads are the least that race on one event, and two
faults reach a 503 followed by a crash. In the pipeline two slots are the least for
which a refused insert leaves a transaction open over a second one, and two events
of one comment are a deletion beside a creation that fails, or a repeated
creation; its liveness run has both budgets to spare instead. Three rows are one more
than a batch of two, and one forgotten DM is the most a batch of two tolerates. The bound of
`WaitIsBounded` is attained in other instances (for example 4 rows, batches of 3,
one forgotten DM, no fault; or 3 rows, batches of 1, none forgotten, one fault). In the limiter 4
grants of 2 per window fill the window twice and 7 ticks pass two windows; a
latency of 0 or 1 lets an earlier request be longer under way than a later one. Slots and comments are symmetric in the safety runs; no
symmetry is used for liveness.

### Fairness

`JobsFinish` and `CommentReachesOutcome` (`PFairness`) assume that each loop of the
process goes on: weak fairness of every step of the event worker, the DM worker, the
reconciler, the sweep and shutdown. This is what `run_forever`, `_reconcile_forever` and `_maintenance_forever` do, which
catch every exception. No fault is ever required to happen, and faults are
finite: if PseudoGram answered `429` or `401` for ever, jobs would wait for
ever, as intended. PseudoGram is assumed to answer requests and polls and to
decide each DM. A process that is down is started again; that is the
supervisor's part, and without it nothing can be said of what is stored.
`EventsAreDecided` assumes weak fairness of the event worker and of the
restart only. `EveryEventIsDecided` adds that the threads of requests run and
that the sender delivers an event until it is told 200: this is the contract of
at-least-once webhooks that the 503 of `receive_webhook` relies on. Faults, and
with them 503s, are finite. `EveryRowIsPolled` and `OutcomeReachesRow` assume only
that rounds go on (`_reconcile_forever`); PseudoGram need not decide anything.
`WaitIsBounded` bounds the wait in rounds without any fairness; `EveryRowIsPolled`
adds that the wait ends.

### Divergences

Four runs check what a document or a comment says and find it violated by the
code. They are listed with the quotation in `PROJECT.json` under `findings`.

| Run | Claim | What happens |
| --- | --- | --- |
| `doc_twice` | "Every job that was sent or can still be sent holds its slot, so nobody is DMed twice." | a job in `retry_wait` whose lost request was accepted is cancelled with its comment and frees its slot; another comment of the user makes a second job and a second DM |
| `doc_failed` | a `400` is "`failed` immediately, ... never retried" | at shutdown `_release_claim` has read `sending`, the thread of `_apply` commits `failed`, the release writes `queued` |
| `doc_deleted` | "Cancel not-yet-sent jobs created by a comment that was deleted." | a claimed job that waits in `acquire` is `sending` when `cancel_jobs_for_comment` runs, is skipped by it, and its first request leaves after the deletion was processed (checked in `Pipeline`) |
| `doc_requeue` | "Leave it retryable rather than losing it." | if the handler's own `UPDATE` fails, the event and the rest of its batch stay `processing` until the next restart |

`SecondDMNeedsDeletedComment` is what does hold in the case of `doc_twice`: a
cancelled job of a deleted comment is the only way to a second DM.

Met while modelling, and not given a run of their own:

* `FAILURES.md` (line 60) says that marking an event and creating its jobs is
  one transaction. The savepoint of each `create_job` commits by itself as long
  as no transaction is open, so a crash leaves jobs without a processed event.
  It is harmless: the event is matched again over them (`ProcessedMeansJob`).
* `config.py` (line 55) says the margin keeps clock skew from pushing us over the
  limit. The margin is part of a wait only; a caller that comes after the oldest
  timestamp aged out is granted at once. `RefusalNeedsDelay` states what does
  hold: nothing is refused unless a request was longer under way than a later one.
* `models.py` (line 145) and `README.md` (line 275) call `attempts` the total
  number of send requests. A delivery failure counts again on top of its request,
  a 429 or 401 not at all. `AttemptsBounded` and `RequestsAreCounted` state how
  the two are related, and what bounds them: `MaxDeliveryAttempts` cycles of up to
  `MaxDMAttempts + 1`, and `MaxDMAttempts` more for a shutdown that requeues a job
  whose 202 is just being written.
* `tests/test_regression.py` (line 162) calls the product of the two budgets (25) the worst
  case of a job's send requests. The test multiplies two settings. Requests answered
  429 or 401 are retried without being counted, a release or a sweep sends again
  what was sent, and both go beyond the product; `RequestsAreCounted` lists what pays for
  a request.
* `dm_worker.py` (line 102) says of a 429: "trust the server and stop sending for as long
  as it asked". If the result of the 429 cannot be stored, the pause is skipped.
  `PauseIsEnough` is about the pauses that are made.
* `FAILURES.md` (line 38) leaves open for how long PseudoGram remembers an
  `Idempotency-Key`. The models assume that it does for as long as the job lives; what
  they show of one DM per job (`OneLiveDMPerJob`, `SecondDMNeedsDeletedComment`, the live
  DM of `DMBoard`) holds inside that window, and outside it a resend may be a second DM,
  as that file says.
* As many rows with a forgotten `dm_id` as a batch holds (50) would keep the head
  of the reconciler's order and starve all others: a 404 leaves `updated_at` alone.
  With `MaxLost = BatchSize`, `recon` finds `EveryRowIsPolled` violated; hence the
  bound on `MaxLost` there, and the hypothesis of `NobodyStarves`.

## 4. Proofs

All theorems hold for all values of the constants that satisfy the named
assumptions: budgets, `MaxCalls`, `Window` and `BatchSize` are positive, bounds
are natural numbers, `None` is not one of the values it is distinguished from, and
a deletion names a comment, and in the pipeline a creation is about one of `Origins`. PseudoGram never forgets a key. Four kinds of theorem assume more: those about
counts take `Slots` (and, for requests, `Threads`) to be finite, as do all
of `WebhookIntakeProofs`, whose invariant counts credits; `ClaimIsOwned` and
`FinalStays` take sends to be fast (`~SlowSend`), and `NobodyStarves` takes
`MaxLost < BatchSize`, without which they are false.

### `JobRowProofs`

What each transition of a row returns, changes and leaves alone, once for all
modules that have the table: which results move the send cycle
(`DeliveryStatusFacts`), which leave it (`SendResultFacts`, `StatusWrites`), and
what a row's stage says of its status and its slot (`StageFacts`). What a retry writes is a
lemma of its own (`RetryWrites`): both kinds of failure use it, and the prover is
spared the arithmetic of the budgets in each of their cases.

### `DMQueueProofs`

`TypeCorrect`, `OneLiveDM`, `FailuresCounted`, `SentHonest`,
`PollsStayCurrent`, `SecondDM`. None of the properties is inductive. `IInv` is
`TypeOK` with five parts:

* `WorkerInv`: the key the worker holds is the row's current key. Whoever moves
  the row's *status* under the worker, nobody moves its *cycle*, since only the
  reconciler does that, on an `accepted` row, and while the process is up the
  row of a held claim is not `accepted`.
* `RowInv`: what each status says of the row and of PseudoGram. A row that has
  not failed is in a cycle that can be sent; an `accepted` one has a DM.
* `KeyInv`: keys before the current cycle have failed, keys after it are unused,
  no request with a later key is under way. This is what makes a late request
  harmless, and it implies `OneLiveDMPerJob`.
* `PollInv`: what the reconciler holds is about a row that is `accepted` for
  that DM and that the worker does not hold; a final answer is still true. It
  explains why `_apply` can do without a check of `dm_id`: only the reconciler
  itself takes a row out of `accepted`.
* `SlotInv`: the partial unique index.

The proof has a lemma per action; `Settle`, shared by eight actions, has its
own, and so has what a commit of several rows puts into the table (`CreatedRows`).

`QueueImplementsBoard` proves `Spec => Board!Spec`, and `ClaimIsOwned` and
`FinalStays` prove `WorkerOwnsClaim` and `FinalStatusStays`. `IInv` says what a row and
PseudoGram have to do with each other; a refinement needs besides who may write a
row (`ClaimInv`): in a running process at most one helper thread works at a time,
a claimed row is never `delivered`, and with fast sends it stays `sending`. The
refinement has one lemma per group of actions, which says what the mapped
variables do: an action that moves a row from one pending status to another is a
stutter of the board, and a thread that overwrites a final status is a `Reopen`,
into a slot that `SlotInv` and the guard `Conflict` keep free.

`QueueImplementsIntake` proves `Spec => Intake!Spec` from the same invariants. Most
actions are `Handle`; a cancellation leaves alone what is not waiting; and that a
`withdrawn` row comes back only while `exclusive` is false is again `ClaimInv`.

### `JobBudgetProofs`

`BudgetHolds` and `RequestsPaid`. What a job may have spent is a function of its
row (`Spent`): whole send cycles, and in the current one as many transient
failures as the row shows, or the whole cycle once it was accepted.
`BudgetInv` bounds `attempts` by it plus a share per fault; a shutdown can put a
row back after its result was written, so while it is under way the fault it is
must still be in hand (`Reserve`). `DebtInv` says that at most one request of a job
is not yet counted, and where it is (`InDebt`). Both need `ClaimedOpen`: until a
result is written, the claimed row is `sending`, requeued or cancelled.

### `PipelineProofs`

`PipelineImplementsQueue` proves `PSpec => Spec`: a step of the pipeline is a step of
`DMQueue` or leaves its variables alone. So what holds of `DMQueue` holds with
the real event worker in front of it, and `PipelinePromises` draws the conclusion for
the properties a user of the whole would ask for first. It needs, on the event
worker's side, to know which `CreateJobs` or `CancelJobs` a commit is:

* `TxnInv`: what the event worker sees and nobody else does are new rows of one
  comment, not known to be deleted, in slots nobody holds. Ids leave no gap (`NoGaps`),
  neither in what is committed nor in the view: `CreateJobs` takes the next ids, and a
  transaction takes them from its view.
* `TaskInv`: the pairs an event no longer has to do have their rows, and only a
  creation of a comment not deleted has any to do; after a shutdown or a crash the event worker
  holds nothing.

`NoUnaskedDM`, `ProcessedStays` and `DeletionStopsFirstClaims` are about both sides at
once. `AskInv` follows each row of the view back to an event, and `IInv` of `DMQueue`
each DM to its row; a row with a DM is committed, hence in the view. `DoneInv` is about
the committed rows: no queue step removes one, and a rollback takes back only what
was not committed. `ClaimedInv` says that a row in any state but `queued` and
`cancelled` was claimed, and after a deletion a `queued` one, too: only a requeue can
have put it there.

All steps of the queue need from the pipeline is what they may do to a row (`RowMove`),
so those of `DMQueue` are gone through once (`QueueMoves`), and what such moves keep is
shown without regard to which step it was (`MovesKeep`, `MovesClaimed`).

### `EventIntakeProofs`

`TypeCorrect`, `ProcessedHasJobs`, `DeletionIsFinal`. A rollback replaces the
table by an earlier one, so what is claimed of the table (`TableInv`) must be
carried for the table as it is and for the table a rollback would restore
(`Committed`). `TaskInv` says how far the current event has come: each matched
slot is either still in `todo` or has a row; pending inserts belong to a comment
not recorded as deleted; a processed deletion is recorded. `DeletionIsFinal` needs two
more clauses of `TableInv`: a row in any state but `queued` or `cancelled` was
claimed, so that whatever is released, retried or requeued was, and after a deletion a
row that waits was, too.

`AccountsBalance` proves `AccountingNeverShort`. A pair is dealt with
(`DealtWith`) when its event is decided or, in the event at hand, it is no longer
in `todo`. `Books` says that rows and blocked duplicates are as many as the pairs
dealt with, or more after a fault, and, like `TableInv`, that the same holds of
what a rollback restores for the events decided (`OwedPairs`).

`IntakeImplementsBoard` proves `Spec => Intake!Spec`, where the board shows what is
committed. It needs what an open transaction holds (`TxnInv`): new rows of the one
comment of the current event, which is not known to be deleted, and nothing else
of the table. Hence a commit is a `Post` of all of them at once, a deletion is
never in one transaction with a row, and a rollback changes nothing that was
committed. `SlotInv` is the unique index: no two rows of the table, committed or not,
hold one slot.

### `WebhookIntakeProofs`

`WInv` adds to `IInv` how far each request has come (`ReqInv`: a request past its
INSERT has its event in the table, whoever put it there) and that a 200 is a
receipt. `ReceiptsAreKept`, `RepeatsAreHarmless` and `EventsDecidedOnce` follow,
the last two because every step is one of `EventIntake` or leaves its events,
rows and transaction alone (`WNextIsNext`); so does `RepeatsImplementBoard`, that
the refinement of `IntakeBoard` survives racing and repeated deliveries. `RepeatsAreAccounted` uses the `Books` of `EventIntakeProofs` with the credit
of the repeated deliveries as what is due besides. `ReceivedCounterIsHonest`
counts the events stored against the threads about to count one (`Owing`) and
the faults.

### `RateLimiterProofs`

`TypeCorrect`, `NeverOverTheLimit`, `SleepsOnce`. The bound needs `MemoryCovers`
(the deque holds every fresh send the process can know of: the deque is what is
counted) and `CallInv` (the table holds nothing but sends: the deque is rebuilt
from it). `SleepsOnce` needs that the sleeper waits for the oldest timestamp
still in the deque (`SleepInv`). The proof showed that after a failed warm
start and a further restart the deque may hold more than `max_calls`
timestamps, when one sleep is not enough; the code's loop copes with it.

`RefusalsNeedDelay` needs a fact about the past: when a grant was given, at most
`MaxCalls` known grants carried a timestamp of its window (`GrantHistory`). If no
earlier request was longer under way than a later one, all requests in PseudoGram's window when one is refused
are grants of one such window, which are too few to refuse it.
`OnePauseIsEnough` needs what a pause waits for (`PauseInv`): that the oldest
request leaves PseudoGram's window before the pause ends. Nothing is claimed where
`penalise` was skipped.

### `ReconciliationProofs`

`TypeCorrect` and `NobodyStarves`. The bound on a row's wait is not inductive; what
is, is an account (`WaitInv`). `Ahead(j)` are the accepted rows before row j that move
behind it when they are polled: those PseudoGram has not forgotten. A round whose batch
does not reach j polls `BatchSize` rows before it, of which all but `MaxLost` move,
so each round brings j forward by `Gain = BatchSize - MaxLost`, unless a fault pays for
it. `Paid(j)` adds the rounds waited, the rows still ahead, what faults excuse
and what the round under way still owes. No step puts a row ahead of another that
waits: a write goes to the end of the order, and a DM once forgotten is not found again.
Hence `waited[j] <= MaxRounds + faults`, for any number of rows.

### Only model-checked

Liveness (`JobsFinish`, `EveryEventIsDecided`, `EveryRowIsPolled`,
`OutcomeReachesRow`, `CommentReachesOutcome`) is out of the prover's reach. Every other property of a passing
run is a theorem. That each property can fail at all is shown by the mutants next to the
definitions they replace (`..._OffByOne`, `..._Unchecked` and so on), each of
which violates its property in the run named in `PROJECT.json`.

## 5. Not modelled

* Signature check, request parsing, size limits, settings, logging, engine
  set-up, time formatting: pure functions or I/O that reject or transform before
  any state changes.
* Matching on texts: a pure substring test.
* The counter `duplicate_events`, which is shown nowhere.
* A step of the clock: the limiter uses the wall clock because its table must
  survive a restart, and does not try to handle one.
* Several processes on one database: the repository excludes them.
* SQLite lock time-outs other than as a failing statement (`StoreFails`,
  `ProcessFails`, `ThreadFails`).
* The reads of `/stats` and `GET /rules`.
* The durations of backoff, pauses and poll intervals.
* A stream of new jobs that never ends: `claim_next_job` takes them before every
  retry that is due. With finitely many jobs each retry has its turn.

## 6. Plan

Done: all modules of the table above and their proofs; every safety property of a
passing run is a theorem. What is left:

1. What the abstract modules promise by themselves: that no history of `DMBoard` or
   `IntakeBoard` has two rows in one slot, or a DM that arrived taken back, so that a
   reader need not read it off their actions.
2. The webhook's request threads in `Pipeline`: it has the event worker behind a webhook that
   delivers once; that repeats and races do no harm is shown of `WebhookIntake`, whose
   steps are those of the same `EventIntake` or leave its tables alone.
3. `JobBudget` shows the bound on attempts per job; a bound on the DMs of a slot
   would join it with `SecondDMNeedsDeletedComment`.
4. The README of the repository says in one place that a cancelled job releases
   its slot (line 351) and in another that it keeps it (line 640); the code does
   the former.
