# Formal models of the backup orchestrator

A FastAPI + SQLite backend (`src/app`) schedules and records backups, a Windows
agent (`src/agent`, C#) executes them on each server, a Telegram bot
(`src/bot`) forwards alerts, and a React frontend (`src/frontend`) shows the
state. The models here are about the parts that must agree although they run
concurrently and fail independently: a *run* of a backup job, from the moment
somebody asks for it to the moment its outcome is final; the verification and
the restore that follow it; and the heartbeats, alerts and messages by which
people learn that something is wrong.

`tlc -config X.cfg M` checks a run, `tlapm M.tla` checks a proof module; which
run uses which module, what it checks and which code each definition stands for
is in `PROJECT.json`.

## 1. Inventory

### Components, state, operations, interaction

| Component | State | Operations | Talks to |
| --- | --- | --- | --- |
| Job runs, `app/routers/job_runs.py` | `job_runs` rows: status, trigger, `dispatched_at`, cancel columns, `started_at` | create, patch, complete, claim, cancel | agents and administrators by HTTP; alerts; WebSocket subscribers |
| Run watchdogs, `app/workers/alert_worker.py` | none of its own; the rows a pass selected | `check_missed_runs`, `check_job_timeouts`, `check_stuck_pending_dispatch`, one tick after the other | the same tables as the handlers, concurrently |
| Server watch, `agents.py` heartbeat, `check_agent_offline`, `servers.py`, `disks.py` | server status, `last_seen_at`, disks | heartbeat, offline check, edit and delete | alerts |
| Alerts, `routers/_alerts.py`, `routers/alerts.py` | alert rows (ACTIVE, ACKNOWLEDGED, RESOLVED) | raise if absent, resolve, acknowledge, list | worker, handlers, bot |
| Backup verification, `workers/backup_verification.py` | verification runs | create, execute, periodic sweep, stuck check | SQL server, alerts, the worker's tick |
| Restore operations, `routers/restore_operations.py` | restore rows | create, update | one open per instance and database; SQL instances, records, the bot |
| Backup jobs and records, SQL instances | jobs with their instance, one record per file | edit, delete, upsert | everything above, through foreign keys and checks |
| Bot poller, `bot/poller.py` | linked users and their tokens, high-water mark | list pages, send, save the mark | backend; Telegram |
| Bot dialogue, `bot/handlers/restore.py` | the pending confirmation of each chat | ask, confirm, cancel | backend |
| Run pipeline (agent), `Pipeline/BackupRunPipeline.cs` | one task per run, the runs known to be over | create or claim, wait for the window, start, transfer, record, complete; progress callbacks | backend; offline queue; job cache |
| Offline queue (agent), `OfflineQueue/SqliteOfflineEventQueue.cs`, `HostedServices/OfflineReplayHostedService.cs` | `queued_events`, which survives the process | enqueue, evict, replay in order, delete | pipeline; backend |
| Job poll and cache (agent) | a snapshot of the jobs, with the pending manual run and the cancelled run of each | poll, replace all | backend; scheduler; pipeline |
| Scheduler (agent), `SchedulerHostedService.cs`, `JobScheduler.cs` | next fire per job, jobs under way, schedule errors | tick | pipeline; backend |
| Watch mode (agent), `Watch/*.cs` | candidates, the ledger in SQLite, dispatch cycles | file appeared, readiness, reconcile, dispatch | file system; pipeline |
| Run updates, `core/ws_manager.py`, `routers/job_run_ws.py` | sockets per run | connect, broadcast, close all | frontend |
| Copy verification, calculators, transfer client, host monitoring, users, summary, frontend, migrations | | | see 6 |

### What is hard, and what makes each part correct

* **A handler reads, then writes.** Between the read and the guarded UPDATE other
  handlers and the worker commit. Correct: at most one active run per job, a
  closed run never changes, a run is handed to one executor only, STUCK only for
  a run nobody was given. (`JobRun`)
* **The worker decides on rows it selected earlier** and its ticks may fail half
  way. Correct: the same invariants, and overdue runs are closed eventually.
  (`JobRun`)
* **Every call of the agent may be lost, executed without an answer, executed
  twice or executed late; the agent may restart anywhere.** Correct: the agent
  never executes a run the backend will not hear of, outcomes agree with backup
  records, and no run stays open for ever. (`AgentRun`; the last one fails,
  see 5)
* **The queue outlives the process; the replay does not.** Correct: completions
  and records are not lost, are executed in order, and get through.
  (`OfflineQueue`; the last one holds only if no queued request is refused)
* **Cancellation is a message to the agent that travels by poll** and is taken
  back when the backend believes the agent reacted. Correct: an acknowledged
  cancellation stopped the transfer. (`AgentRun`; fails, see 5)
* **Verdict and alert of a verification are two transactions**, of a task that may
  be slow, killed, or overtaken by the stuck check or the deletion of its job.
  Correct: a verdict is final, an active alert tells the verdict of its run, and
  no verification stays open for ever (holds for RUNNING ones unless a call of the
  sweep never returns; a PENDING one that a crash left behind stays).
  (`Verification`)
* **Heartbeats, the offline check and administrators write one row** from values
  read earlier. Correct: an agent is reported offline if and only if it is
  silent, alerts say what the last heartbeat said, DISABLED is respected.
  (`Fleet`; the "if" has an exception, see `SilenceIsReported`)
* **The bot pages through a list that changes** and remembers one number.
  Correct: the mark passes only what was sent. (`AlertPush`; only while no
  listing is disturbed as it is read)
* **A restore is checked, confirmed and written at different times.** Correct: one
  open restore per instance, final outcomes, and the bot never restores to an
  instance the job had left before the user confirmed. (`Restores`)

`PROJECT.json` lists the hazards one by one, each at its line.

## 2. Modules

| Module | Kind | Models |
| --- | --- | --- |
| `RunLifecycle` | abstract specification | what the backend promises about the runs of a job, the verifications of a job and the restores to an instance |
| `JobRun` | component | handlers of `job_runs.py`, the three run passes of the alert worker |
| `JobRunProofs` | proofs | about `JobRun`, including that it implements `RunLifecycle` |
| `DurableQueue` | abstract specification | what the offline queue promises |
| `OfflineQueue` | component | the queue's table and the replay service |
| `OfflineQueueProofs` | proofs | about `OfflineQueue`, including that it implements `DurableQueue` |
| `AgentRun` | composition | EXTENDS `JobRun` with one agent: pipeline, progress callbacks, job poll, replay, restart, and an operator |
| `AgentRunProofs` | proofs | about `AgentRun`: its type, and that it implements `JobRun` |
| `AgentOutcomeProofs` | proofs | about `AgentRun`: what agent and backend make of a run together |
| `Verification` | component | `backup_verification.py`, the worker's tick around it, the verify endpoint, deletion of jobs |
| `VerificationProofs` | proofs | about `Verification`, including that it implements `RunLifecycle` with deletion |
| `Fleet` | component | heartbeat, `check_agent_offline`, servers and disks |
| `FleetProofs` | proofs | about `Fleet` |
| `AlertPush` | composition | the alerts table and the bot that pushes it |
| `AlertPushProofs` | proofs | about `AlertPush` |
| `Restores` | composition | restores, SQL instances, the job and its record, the bot's dialogue |
| `RestoresProofs` | proofs | about `Restores`, including that it implements `RunLifecycle` |
| `MCJobRun`, `MCAgentRun`, `MCRestores` | model checking | symmetry sets |

### JobRun

`runs[r]` is the row of run `r`, reduced to the columns decisions are made on;
times are reduced to whether the applicable limit has passed (`overdue`, `late`).
`calls[c]` is the request of client `c` and how far its handler is. SQLite takes
no lock for a read and holds the write lock from the first UPDATE to the
commit, so a handler is two steps: the read (`CreateRead`, `ReadRow`) and
everything from the write to the commit (`CreateInsert`, `PatchWrite`,
`CompleteWrite`). In a claim and a cancel nothing read before the write is used,
so those are one step. A handler that found the run closed acknowledges a
cancellation and answers 409 in a separate step (`RefuseFinished`).
`worker` is the tick: a pass selects rows (`MissedScan`, `TimeoutScan`,
`DispatchScan`), treats them one at a time with a commit each, and may fail
anywhere (`TickFails`). `Disconnect` is a client that gives up, or a backend that
restarts, before or after the commit.

Any client may send any request on any run at any time. A patch sets RUNNING with
`started_at`, as the agent always does (`BackupRunPipeline.cs:207`), RUNNING without
it, which the schema accepts (`schemas/job_run.py:39-40`; modelled where the job has
a time limit, since nothing else is decided on it), or neither. A run that
became RUNNING without `started_at` is `unstamped`: `check_job_timeouts` skips it at
every tick (`alert_worker.py:258-260`), so that `WatchdogsCloseRuns` does not speak
of it, and it stays RUNNING until a request stamps or closes it. The schema would
also accept a patch to PENDING, and one that sets `started_at` alone or to null,
which no client in the repository sends, and answers 422 to a patch to a final
status without changing anything: these are left out. Unparsable cron expressions (a
job with one is skipped by `check_missed_runs`) and deletion of jobs are left out
too.

### OfflineQueue

`event[i]` is what was inserted as row `i`; `table` the rows present; `replay`
the step of the replay service and the rows its pass still has. One replayed
request is send, handle (at the backend), receive, delete, with a failure
possible in between (`AttemptFails`, which also covers retries); a request given
up may be executed by the backend later (`HandleLate`). Rows are told apart by
type: heartbeats and patches may be evicted by age, completions and records may
not. No caller enqueues an unknown event type, so that case is left out.
The pause between passes and batches is timing only.

### AgentRun

The backend in `AgentRun` *is* `JobRun`: its handler actions and, when
`Watchdogs` is TRUE, its worker. `pipe` is the pipeline of `TheJob` (`step` is the
await it is at), `conn[t]` the connection that task `t` listens to. An HTTP
attempt occupies a connection of its own; a time-out frees the task
(`AttemptLost`) and leaves the call to be executed or not, unheard. `GivesUp` is
`BackendUnavailableException`. Retries are simply further attempts.
`JobPoll` refreshes `cache` with what `GET /api/agents/{id}/jobs` would answer, in
one step. `AgentForgets` is what a restart loses: everything but the queue.

Of the queue only what `DurableQueue` promises is used: events in order, the
first is sent, and deleted once answered. Transfer, file resolution and
connection settings are nondeterministic outcomes. One progress callback is
under way at a time. A request for the backup record that is refused (404 or 422)
makes the run FAILED (`RecordRefused`). A 404 to other requests is left out
together with deletion, and so is 401, which an agent with another token would
get to everything it sends.

### Verification

`task[t]` is one `execute_verification_run`, at the point where it will next touch
the database (`begin`, `claim`, `decided`, `alert`), wait for the SQL server
(`calling`) or run its except clause (`failed`). Task `"worker"` is the one the
sweep awaits inside the alert worker's tick; the others are detached by `POST
.../verify`. The SQL server's answer is any combination of the outcomes the code
distinguishes, and `Classified` is the order of its rules; it may also never come
(`Calls`), because only the login and RESTORE VERIFYONLY have a timeout. `MarkError`
closes a run without an alert, as the code does. `CloseStuck` has three outcomes,
because an exception after its UPDATE rolls nothing back: the UPDATE may be
committed with the next row. `DeleteJob` removes the rows of the job and leaves its
alert with a NULL key; ids are then given out again, which is why `IsNextId` looks
at the largest one present. `orphans` has no column: it remembers which open runs
lost their task to a crash or to an error between INSERT and start.

### Fleet

One server and one disk; neither interacts with others. A request is a read
(`Receive`) and a transaction that writes only the columns whose new value
differs from the value read (`Written`), which is how the ORM behaves and what
makes overlapping requests interesting. `last_seen_at` is a stamp, of which only
equality with the worker's `checked` matters, and `stale`. `told` is history: what
the last heartbeat said. The metrics snapshot is left out.

### AlertPush

The table has ids in commit order and at most one ACTIVE row per condition. The
bot's tick is `StartTick`, `CountAlerts` and `FetchItems` for each page, `Push` for
each alert and `SaveMark`; `Unauthorized` and `Undecryptable` are what a bad token
does to it. A page is two steps because `list_alerts` executes two SELECTs without
a transaction around them (`alerts.py:43-44`): the total may be that of another
list than the items. Whether a message reaches Telegram is not modelled, since the
bot does the same in both cases: it goes on. In the same way `pushed` says that an
alert was sent to the users linked when the candidates were known
(`poller.py:117`), who may be none any more by then. `shifted` remembers that the
table changed while a listing was read, between total and items or between two
pages; the properties hold without that. With it an alert may be lost: with pages
of one and one ACTIVE alert, the total is 1, another alert is raised and is the
only one on the page, the listing stops, and the mark passes the older one unsent.

### Restores

A request is its checks (`AskCreate`, `AskPatch`, `AskDelete`) and its transaction
(`Create`, `Patch`, `DeleteInstance`). The bot's dialogue is `BotAsks`,
`BotConfirms`, which re-reads the job, and `BotPosts`; `current` is history, the
instances the job has had since the re-check. The code carries no restore out,
so that whoever reports progress may send any PATCH.

## 3. Runs

| Run | Checks | Instance |
| --- | --- | --- |
| `jobrun_handlers` | `TypeOK`, `OneActivePerJob`, `StuckWasNeverTaken`, `GrantIsExclusive`, `FailureAlertIsCurrent`, `TerminalIsFinal`, `HandedOverOnce` | 1 job without a time limit, 2 runs, 2 clients, worker |
| `jobrun_worker` | `ImplementsLifecycle` (refinement), `WatchdogsCloseRuns`, `MissedAlertFollows` (liveness) | 1 job with a time limit, 1 run, 1 client; the job can be disabled |
| `offline_queue` | `TypeOK`, `NothingLost`, `AcknowledgedInOrder`, `FirstDeliveryInOrder`, `DeliveredUnlessBlocked` (liveness), `ImplementsDurableQueue` (refinement) | 3 rows of 3 kinds |
| `agent_run` | `AgentTypeOK`, `StartIsKnown`, `OutcomeMatchesRecord`, `WorksAlone`, `RecordBeforeOutcome` | 1 job, 1 run, 2 connections, 2 queued events |
| `verification` | `TypeOK`, `AlertTellsTheVerdict`, `TerminalIsFinal`, `ImplementsLifecycle` (refinement), `RunningEnds`, `PendingEnds` (liveness) | 1 job, 2 runs, the worker and 1 endpoint task, 1 crash or error |
| `fleet` | `TypeOK`, `OfflineAlertMeansSilence`, `AlertsFollowHeartbeats`, `DisabledIsRespected`, `SilenceIsReported` (liveness) | 2 overlapping requests, 1 restart, 4 stamps |
| `alert_push` | `TypeOK`, `MarkMeansPushed`, `PushedOnce`, `ActiveIsPushed` (liveness) | 2 conditions, 2 alerts, 2 users, pages of 1, 2 links, 1 fault |
| `restores` | `TypeOK`, `NoCancelWhileRunning`, `BotRestoresCurrentInstance`, `ImplementsLifecycle` (refinement) | 2 instances, 2 restores, 2 overlapping requests |
| `offline_poison` | `DurableEventsGetThrough`: violated | 2 rows |
| `agent_cancel` | `AcknowledgedMeansStopped`: violated | 1 run, 2 connections |
| `agent_conflict` | `ConflictMeansOver`: violated | 1 run, 2 connections |
| `agent_abandoned` | `AbandonedRunIsClosed`: violated under fairness | 1 run, 1 connection, worker |

**Why the bounds are enough to be interesting.** Two runs are the least with
which a job can have two active runs or reuse its slot after a run was closed.
Two clients give every pair of handlers in every interleaving, and the worker is
a third writer; the theorems cover larger instances. The jobs do not interact
except through the worker's passes, which treat rows one at a time. Three
queue rows give a row before and a row after the one that is stuck. In
`agent_run` two connections give an attempt and its retry, or the pipeline
against the replay or an operator. `jobrun_handlers` follows the alert JOB_FAILED
(`AlertType`), and two outcomes, one that raises it and one that resolves it
(`Reported`); `jobrun_worker` follows the others and the time limit of a job
(`TimeLimited`): with two runs, two clients, every alert and time limits the
check takes too long. The watchdogs are off in
`agent_run` (`Watchdogs`), where any client's interference with a run is limited
to the operator's; their interplay with any client at all is in the two JobRun
runs. `QueueBound` is the length of the agent's queue, and `ProgressRoom` = 0 lets a
progress patch be queued only when nothing else is, so that patches do not fill
the queue. That `AgentRun` implements `JobRun` is proved, for all bounds; as a
property of the run it would double its time.

One verification task of the endpoint and the worker's own give two tasks on two
runs of one job that may be deleted under them. A second job takes more than five
minutes; that an id is given out again to a run of another job therefore does not
happen in the run, and is covered by the proofs, for any number of jobs. Two
overlapping requests and the worker are three writers of one server row; a fourth
stamp is the one the worker may hold. Pages of one alert and two alerts are the
least with which a listing has two pages. Two instances are the least with which a
job can move, and two restores the least of which one can be refused by the other.

Deadlock is checked except in `alert_push` and `restores`, where everything may
come to rest: all alerts closed and no `/link` left, the job deleted.

**Symmetry** (clients, connections, instances) is used in runs without liveness
only.

**Fairness.** `WorkerFairness`: `alert_worker_loop` catches every exception of a
tick and ticks again, so each step of a tick happens infinitely often if it is
possible infinitely often; a step that failed every single time is excluded.
Nothing is assumed of clients or administrators. `ReplayFairness`: the replay
service loops while the process runs, the service manager restarts the process
(weak), and outages and crashes do not hit the same step every time (strong).
Nothing is assumed of enqueuing. `AgentFairness` (used only to give the violated
`AbandonedRunIsClosed` its best chance) adds that the pipeline, the replay, the
handlers and the poll go on and that time passes. It does not assume that the
agent stops restarting, and the counterexample needs one restart only.
In `Verification` the event loop goes on with every task (`TaskStep`) except one
that waits for the SQL server (`Calls`), and with the worker (`WorkerStep`, whose
loop catches every exception), and time passes (`Overdue`); a failing statement is
not forced. The SQL server need not answer: `pytds.connect` gets a login timeout
only (`sql_client.py:257-268`), and the query of msdb (132-153) comes before the
timeout of RESTORE VERIFYONLY is set (204). When the sweep's own call hangs for
good, the tick that awaits it never ends, no later one begins, and stuck
verifications stay RUNNING; `RunningEnds` exempts just this case. In `Fleet` only
the worker's two steps are fair, in `AlertPush` only the bot's (`alert_poll_loop`
catches everything and ticks again, and its HTTP client has a timeout). All of
these are weak. Nothing is assumed of administrators, agents or users anywhere.
`WatchdogsCloseRuns`, `MissedAlertFollows` and `SilenceIsReported` are about
passes of the same tick, in modules without the sweep: they take for granted
that every tick ends.

## 4. Proofs

The eight proof modules prove for every value of the constants that satisfies the
modules' ASSUMEs (they say that constants are what their comments say: run ids
are positive naturals, bounds are naturals, stand-ins such as `NoJob` are not
members of the sets they stand outside of):

| Theorem | States |
| --- | --- |
| `JobRunProofs!TypeCorrect` | `Spec => []TypeOK`, which includes that no handler works on a row that is not there |
| `JobRunProofs!OneActive` | `Spec => []OneActivePerJob` |
| `JobRunProofs!Final` | `Spec => TerminalIsFinal` |
| `JobRunProofs!StuckNeverTaken` | `Spec => []StuckWasNeverTaken` |
| `JobRunProofs!GrantExclusive` | `Spec => []GrantIsExclusive` |
| `JobRunProofs!GrantedOnce` | `Spec => HandedOverOnce` |
| `JobRunProofs!FailureAlertCurrent` | `Spec => []FailureAlertIsCurrent` |
| `JobRunProofs!Refinement` | `Spec => ImplementsLifecycle` |
| `AgentRunProofs!AgentTypeCorrect` | `AgentSpec => []AgentTypeOK`, which includes that the runs the agent knows of exist at the backend |
| `AgentRunProofs!AgentImplements` | `AgentSpec => ImplementsJobRun`, so that every theorem of `JobRunProofs` holds of agent and backend together |
| `AgentRunProofs!BackendSafe`, `BackendFinal` | spelled out: `AgentSpec` implies the invariants, the action properties and the refinement proved of `JobRun` |
| `OfflineQueueProofs!TypeCorrect`, `NoneIsLost`, `DeliveryOrder`, `AcknowledgementOrder`, `KeepsPromise` | type, `NothingLost`, `FirstDeliveryInOrder`, `AcknowledgedInOrder`, `ImplementsDurableQueue` |
| `VerificationProofs!TypeCorrect`, `AlertCorrect`, `Final`, `Implements` | type, `AlertTellsTheVerdict`, `TerminalIsFinal`, `ImplementsLifecycle` |
| `VerificationProofs!OneOpen`, `OpenIsExecuted`, `OneCalls` | one open verification per job; each has a task that will close it, unless a crash or an error took the task away; one task at a time asks the SQL server |
| `FleetProofs!TypeCorrect`, `OfflineMeansSilence`, `AlertsFollow`, `DisabledRespected` | type, `OfflineAlertMeansSilence`, `AlertsFollowHeartbeats`, `DisabledIsRespected` |
| `RestoresProofs!TypeCorrect`, `RunningIsNotCancelled`, `BotIsCurrent`, `Implements` | type, `NoCancelWhileRunning`, `BotRestoresCurrentInstance`, `ImplementsLifecycle` |
| `RestoresProofs!OneOpen`, `Finished` | one open restore per instance; a finished restore keeps its outcome, and its alert is raised once |
| `AgentOutcomeProofs!StartKnown`, `OutcomeRecorded`, `RecordFirst` | `StartIsKnown`, `OutcomeMatchesRecord`, `RecordBeforeOutcome` |
| `AgentOutcomeProofs!Alone`, `WorkedOnIsNotStuck` | `WorksAlone`; no watchdog marks the run that the pipeline works on as STUCK |
| `AlertPushProofs!TypeCorrect`, `MarkPushed`, `SentOnce` | type, `MarkMeansPushed`, `PushedOnce` |

*The argument for JobRun.* `TypeOK` is inductive; its two named parts (a row
exists exactly when it has a job; a handler about to write has validated its
input) are what the write steps rely on. From it follows the step lemma
`StepRefines`: every step of `JobRun` maps to one step of `RunLifecycle` or to a
stutter, because every UPDATE names an active status in its WHERE, a handler's
through the status it read and the worker's literally, and an INSERT is
subject to the unique index. That is the refinement. The safety properties are
then proved from the abstract step, not from the dozen concrete ones: only
opening a run makes one active, and it requires that the job has none
(`OneActive`); a closed run takes no step (`Final`); closing as STUCK requires a
run that was not taken (`StuckNeverTaken`). Exclusive grants are about the
callers, which `RunLifecycle` does not know, and go over the concrete steps again:
an accepted create or claim hands over a run that was not dispatched, hence
granted to nobody, and a dispatched run stays dispatched. The same steps show
that a run that has the mark is granted to nobody again (`HandedOverOnce`).

`FailureAlertIsCurrent` is not inductive: that the alert is about the newest
outcome needs that no older run of the job is still open when a newer one
finishes. `AlertIInv` therefore says that rows are appended in order of their ids
(`RowsInOrder`) and that an open run is the newest of its job (`OpenIsNewest`),
which holds because the index lets a run in only when the job has no open one.
Then the completion that writes the status is that of the newest run, and the
alert it raises or resolves, in the same transaction, is right; a completion
that was overtaken writes neither.

*The argument for AgentRun.* The backend's steps in `AgentRun` are `JobRun`'s own;
what has to be shown is that each request of the agent is one that `JobRun`'s
clients may send, above all that it names an existing run. `AgentIInv` therefore
says that the runs the agent holds (`PipeOK`, `ProgressOK`, `CacheOK`), and those of
its queued events (`QueueOK`), exist. It needs three facts more: a create that was
accepted names an existing run (`CreatesNameRuns`), a task listens to an answer
only while it has the request in hand (`ConnOK`; otherwise an answer could remove
an event that was not sent), and the existing runs have a highest id
(`RunsBounded`), which a poll may name. Existence persists because no step of
`JobRun` removes a row, which `RunsPersist` takes from the refinement.

*The argument for OfflineQueue.* `NothingLost` and the delivery order are not
inductive. The invariant `IInv` adds that ids are given out in order, that what
precedes a row of the current pass is in the pass itself or was executed
(`PassIsComplete`), that what was answered was executed or refused and what is
acknowledged was executed (`AckedWasDelivered`), that eviction has selected rows
that may be lost only (`EvictedMayBeLost`), and that a request the agent gave up was
the first of its pass, so that everything durable before it was executed already
(`LateWasFirst`). The last one is what makes late execution harmless. That a row
leaves the table only when no older row is in it, or because eviction takes it
(`AcknowledgedInOrder`), needs two facts more (`OrderInv`): a pass was loaded with
the oldest rows, so that what is in the table and not in the pass is newer than
everything in it (`PassIsOldest`), and eviction has selected rows that were enqueued
before its cutoff (`EvictedIsOld`).

*The argument for Verification.* Because ids are given out again, a task, or the
worker, may hold the id of a row that belongs to another job by now. The
invariant says that this happens only after the job it knows was deleted
(`TaskKnowsItsJob`, `WorkerKnowsTheJobs`), where its alert is dropped; otherwise a
task at step 5 finds its verdict on the row (`VerdictIsWritten`). With these,
`AlertTellsTheVerdict` is preserved by each of the writers. Every change of a row
is one of five kinds (`NextRowStep`: insert, claim, close, time, deletion), and
finality, the refinement and `OneOpenPerJob` are proved of the kinds.
`OpenHasTask` pairs every open row with a task at a step from which it claims or
closes the row; a step moves one task and at most the row of it (`OneMoves`), so
that a row is left without one only where `orphans` says so. It is the safety half
of `PendingEnds`. `OneTaskCalls` rests on `CallingWasClaimed`: the row of a task at
the SQL server is not PENDING, and only a PENDING row can be claimed. It says
nothing of jobs that were deleted: a slow task may then hold an id that another
job's verification has been given, and two tasks do work under one id.

*The argument for the outcome of a run.* `AgentOutcomeProofs` adds to `AgentIInv`
what the agent listens to, which a retry or a restart might confuse: each task has
a connection of its own (`Listening`), and the answer it waits for is the answer to
the request of its step or to the first queued event (`PipeListens`,
`ReplayListens`). What an answered handler has seen stays true (`AnswersAreTrue`: an
answered start, or one that found the run started, means that it is not PENDING).
This gives `StartIsKnown`. For `OutcomeMatchesRecord` a run must have one holder: once
the pipeline took it, no other answer grants it (`HoldsWhatItTook`, from
`GrantIsExclusive` of `JobRun`), and until its holder has the outcome there is no
record, no status and no request, sent or queued, that tells one
(`UntoldUntilDone`). From then on every request under way agrees with the record
(`AskedMatchesRecord`), whatever is sent twice or replayed late; a completion that
was refused with 422 can be turned into FAILED because it was not a SUCCESS. Most
of the agent's steps do one of four things to a run (let go of it, go on with it,
record it, take it; `OutcomeKept`), and the backend's are treated by handler
(`BackendKeepsOutcome`). `HoldsWhatItTook` also gives `WorksAlone`: a run that was
granted to the pipeline is marked, so no answer under way, not even the answer to
a claim that was repeated, grants it again; and a marked run is never STUCK.
`RecordBeforeOutcome` is about the queue alone and what has been delivered of it (a
SUCCESS that is sent directly, once the backend answers again, may arrive while
its record is still queued, and the property does not speak of it): a SUCCESS is
queued when its record was stored or is queued already, new events go
to the end, and the first event leaves only after it was delivered. The queue of
`AgentRun` does not evict, which would take starting patches only; eviction is in
`OfflineQueue`.

*The argument for Fleet.* That the worker's UPDATE condition on `last_seen_at`
is enough needs one fact: a server that nobody has heard of since the worker
looked is still stale (`UnheardIsStale`), since every heartbeat brings a stamp
that differs from the worker's. The other properties are then inductive
together.

*The argument for Restores.* A handler that waits to write names a row that exists
(`RequestsMakeSense`). For the dialogue, `BotKnows`: between the re-check and the
end of the POST, including the time it is being served while the bot restarts,
the instance is among those the job had since the re-check, and the bot is served
at most once at a time. `OneOpenPerInstance` and `FinishedStaysFinished` follow from
`RowStep`, which says that a step appends a row the index admits, or moves an open
one on; that FAILED restores are those that have had an alert (in `TypeOK`) is why
an alert that an operator closed is not raised again.

*The argument for AlertPush.* An alert's position in the list is the number of newer
ACTIVE ones; positions are distinct, and a page holds the alerts at the positions
that follow its offset, without a gap, whatever the page length (`PageHasNoGap`,
`EmptyPageIsLast`). In an undisturbed listing the total is still right when the
items are read (`TotalIsCurrent`), and what was listed is exactly the newest
`offset` alerts, each once (`ListingIsExact`), and the whole list after the last
page. From there on `PushIsComplete` (what the new mark passes is sent or about to
be) gives `MarkMeansPushed`, and `PushIsNew` with `PushedIsMarked` (what was sent is
below the mark, what is about to be sent above it) gives `PushedOnce`.

Only model-checked: liveness (`WatchdogsCloseRuns`, `MissedAlertFollows`,
`DeliveredUnlessBlocked`, `RunningEnds`, `PendingEnds`, `SilenceIsReported`,
`ActiveIsPushed`), which needs ENABLED and is out of the prover's reach. Every other
property that a passing run checks is a theorem. Conversely `OpenHasTask`,
`OneTaskCalls`, `OneOpenPerJob`, `OneOpenPerInstance` and `FinishedStaysFinished`
are stated in the proof modules and proved, and no run repeats them.

## 5. What the violated runs show

* `offline_poison`: a completion with status TIMEOUT, which the agent's own
  model class allows and the backend's schema refuses with 422, is an exception
  the replay service does not catch. The host stops, and after the restart the
  same row is first again. The README's guarantee of delivery does not hold
  behind such a row.
* `agent_cancel`: a progress patch that meets a cancelled run acknowledges the
  cancellation. The agent only stops sending patches; the next poll no longer
  carries the cancellation, and the transfer runs to its end.
* `agent_conflict`: the 409 of a lost compare-and-swap race reads, to the agent,
  as "already terminal", though the run is open.
* `agent_abandoned`: a PENDING run that was dispatched and whose agent restarted
  while waiting for its copy window is watched by neither watchdog.

## 6. Not modelled, and why

* *Watch mode* and the *scheduler over several jobs* (agent) share no state with
  the backend beyond the starts of runs, which `AgentRun` has as fires and pickups
  at any time. Their own hazards (files across a restart, candidates changed by
  several tasks, fires of one tick) are listed without a property.
* *Two runs of one job in `AgentRun`*: the product of pipeline, queue and handlers
  is too large for TLC, so that a record overwritten by an older run's, or a
  cancellation hidden by a newer cancelled run, is listed but not checked. What is
  proved of `AgentRun` (section 4) holds for any number.
* *The paged job poll* is one step in `AgentRun`.
* *Deletion of a job against its job runs* is not an action of `JobRun` (it is one
  of `Verification` and `Restores`), nor is the merging of overlapping edits of a
  job's configuration.
* *Run updates over WebSocket*: sockets receive states and decide nothing.
* *Copy verification*: one report is one transaction that writes the verdict and
  the alert, and nothing else writes them.
* *Copy windows, transfer plan, back-off, throttling*: pure functions with unit
  tests of their cases; the models take any result.
* *Transfer client, host monitoring*: I/O. *Users, sign-in, connection settings*:
  record keeping, one statement per request. *Summary, other bot commands,
  frontend*: presentation. *Migrations* run once, offline; their constraints are
  in `InsertAllowed` and `Raise`.
