---- MODULE AgentRun ----
(***************************************************************************)
(* One agent and the backend: the pipeline that executes the runs of a job  *)
(* (BackupRunPipeline.cs), the scheduler tick that starts it                *)
(* (SchedulerHostedService.cs), the job poll, the replay of the offline     *)
(* queue, and an operator.  The backend is JobRun's handlers and worker; of  *)
(* the offline queue only what DurableQueue promises is used.               *)
(*                                                                          *)
(* Every HTTP attempt has a connection of its own.  When the agent stops    *)
(* listening to one (time-out, restart), the backend may still execute the  *)
(* request: the call stays, and nobody hears its answer.                    *)
(***************************************************************************)
EXTENDS JobRun, Sequences

CONSTANTS
  TheJob,     \* the job whose pipeline is followed
  NoClient,   \* no connection
  QueueBound, \* bound: events in the offline queue
  ProgressRoom, \* bound: a progress patch is queued behind at most so many
  Watchdogs   \* bound: whether the alert worker and its clock take part

ASSUME AgentAssumption ==
  /\ TheJob \in Job
  /\ NoClient \notin Client
  /\ QueueBound \in Nat /\ ProgressRoom \in Nat
  /\ Watchdogs \in BOOLEAN

VARIABLES
  pipe,       \* the pipeline of TheJob: its step, run and outcome
  progress,   \* the run of a progress callback under way, or 0
  conn,       \* conn[t]: the connection that task t listens to
  queue,      \* the offline queue, first event first
  cache,      \* the job cache: what the last successful job poll said
  muted,      \* _terminalRunIds: runs that get no more patches
  reported    \* runs whose backup record the backend has stored

backendVars == <<rowVars, worker>>
agentVars == <<vars, pipe, progress, conn, queue, cache, muted, reported>>

Task == {"pipe", "progress", "replay"}

(* The steps at which the pipeline awaits an answer of the backend's runs.   *)
Calling == {"creating", "claiming", "starting", "completing"}
Step == Calling \cup {"idle", "window", "config", "transfer", "recording"}
Outcome == {"SUCCESS", "FAILED", "CANCELLED", "TIMEOUT"}

ASSUME OutcomeAssumption == Outcome \subseteq Reported

Pipe == [step: Step, run: RunId \cup {0}, outcome: Outcome \cup {"none"}]
Idle == [step |-> "idle", run |-> 0, outcome |-> "none"]

(* queued_events: a patch, a complete or a record of a run.                  *)
QueuedEvent == [op: {"patch", "complete", "record"}, run: RunId,
                arg: Outcome \cup {"RUNNING", "progress", "none"}]

(* pending_manual_run_id, cancel_requested_run_id (0: null), and whether the *)
(* job was on the list at all.                                              *)
Cache == [known: BOOLEAN, manual: RunId \cup {0}, cancel: RunId \cup {0}]
EmptyCache == [known |-> FALSE, manual |-> 0, cancel |-> 0]

(* The type invariant: JobRun's, and that the pipeline has a run in hand at  *)
(* every step that needs one, which exists at the backend.                   *)
AgentTypeOK ==
  /\ TypeOK
  /\ pipe \in Pipe
  /\ pipe.step \notin {"idle", "creating"} => pipe.run # 0
  /\ progress \in RunId \cup {0}
  /\ conn \in [Task -> Client \cup {NoClient}]
  /\ queue \in Seq(QueuedEvent) /\ Len(queue) <= QueueBound
  /\ cache \in Cache
  /\ muted \subseteq RunId /\ reported \subseteq RunId
  /\ \A r \in RunId :
       (\/ r \in {pipe.run, progress, cache.manual, cache.cancel} \cup muted
        \/ \E i \in DOMAIN queue : queue[i].run = r) => runs[r].status # "ABSENT"

AgentInit ==
  /\ Init
  /\ pipe = Idle
  /\ progress = 0
  /\ conn = [t \in Task |-> NoClient]
  /\ queue = <<>>
  /\ cache = EmptyCache
  /\ muted = {} /\ reported = {}

----
(* Attempts, answers, and giving up (HttpBackendApiClient: a request is      *)
(* tried again over a new connection until the retries are exhausted).      *)

Heard(t) == calls[conn[t]]

Attempt(t, request) ==
  /\ conn[t] = NoClient
  /\ \E c \in Client : Send(c, request) /\ conn' = [conn EXCEPT ![t] = c]

Hear(t, reply) ==
  /\ conn[t] # NoClient
  /\ Heard(t).reply = reply
  /\ ReceiveReply(conn[t])
  /\ conn' = [conn EXCEPT ![t] = NoClient]

GivesUp(t) == conn[t] = NoClient /\ UNCHANGED <<calls, conn>>

AttemptLost(t) ==
  /\ conn[t] # NoClient
  /\ conn' = [conn EXCEPT ![t] = NoClient]
  /\ UNCHANGED <<vars, pipe, progress, queue, cache, muted, reported>>

(* A call that nobody listens to ends, executed or not.                     *)
Unheard(c) ==
  /\ \A t \in Task : conn[t] # c
  /\ Disconnect(c)
  /\ UNCHANGED <<backendVars, pipe, progress, conn, queue, cache, muted, reported>>

(* Variant: the row is written without its job_run_id, which is read as 0.   *)
QueuedWithoutRun(op, run, arg) == [op |-> op, run |-> 0, arg |-> arg]

Queued(op, run, arg) == [op |-> op, run |-> run, arg |-> arg]

(* Variant: the rows are read newest first.                                 *)
EnqueueFirst(event) == Len(queue) < QueueBound /\ queue' = <<event>> \o queue

Enqueue(event) == Len(queue) < QueueBound /\ queue' = Append(queue, event)

----
(* The scheduler tick: a cron fire, or the pickup of a manual run; both only *)
(* while no run of the job is under way here.                               *)

Fire ==
  /\ pipe.step = "idle"
  /\ cache.known
  /\ pipe' = [Idle EXCEPT !.step = "creating"]
  /\ UNCHANGED <<vars, progress, conn, queue, cache, muted, reported>>

PickUp ==
  /\ pipe.step = "idle"
  /\ cache.manual # 0
  /\ pipe' = [Idle EXCEPT !.step = "claiming", !.run = cache.manual]
  /\ UNCHANGED <<vars, progress, conn, queue, cache, muted, reported>>

----
(* The pipeline.                                                            *)

PipeRequest ==
  CASE pipe.step = "creating" ->
         Request("create", TheJob, 0, IF TheJob \in WatchJob THEN "watch" ELSE "scheduler")
    [] pipe.step = "claiming"   -> Request("claim", NoJob, pipe.run, "none")
    [] pipe.step = "starting"   -> Request("patch", NoJob, pipe.run, "RUNNING")
    [] pipe.step = "completing" -> Request("complete", NoJob, pipe.run, pipe.outcome)

PipeAttempt ==
  /\ pipe.step \in Calling
  /\ Attempt("pipe", PipeRequest)
  /\ UNCHANGED <<backendVars, pipe, progress, queue, cache, muted, reported>>

Goto(step) == pipe' = [pipe EXCEPT !.step = step]
Conclude(outcome) == pipe' = [pipe EXCEPT !.step = "completing", !.outcome = outcome]

TakesRun ==
  /\ pipe.step \in {"creating", "claiming"}
  /\ Hear("pipe", "ok")
  /\ pipe' = [pipe EXCEPT !.step = "window", !.run = Heard("pipe").run]
  /\ UNCHANGED <<backendVars, progress, queue, cache, muted, reported>>

(* Refused with 409, or the backend is unavailable: this fire is skipped.    *)
SkipsFire ==
  /\ pipe.step \in {"creating", "claiming"}
  /\ Hear("pipe", "conflict") \/ GivesUp("pipe")
  /\ pipe' = Idle
  /\ UNCHANGED <<backendVars, progress, queue, cache, muted, reported>>

CalledOff == ~cache.known \/ cache.cancel = pipe.run

CancelledWhileWaiting ==
  /\ pipe.step = "window"
  /\ CalledOff
  /\ Conclude("CANCELLED")
  /\ UNCHANGED <<vars, progress, conn, queue, cache, muted, reported>>

(* The copy window is open; a job without a remote directory fails.          *)
WindowOpens ==
  /\ pipe.step = "window"
  /\ ~CalledOff
  /\ Goto("starting") \/ Conclude("FAILED")
  /\ UNCHANGED <<vars, progress, conn, queue, cache, muted, reported>>

Started ==
  /\ pipe.step = "starting"
  /\ Hear("pipe", "ok")
  /\ Goto("config")
  /\ UNCHANGED <<backendVars, progress, queue, cache, muted, reported>>

(* Variant: the patch that starts the run is as good to lose as progress.     *)
StartForgotten == UNCHANGED queue

KeepStart == Enqueue(Queued("patch", pipe.run, "RUNNING"))

(* An unreachable backend does not abort a run.                             *)
StartQueued ==
  /\ pipe.step = "starting"
  /\ GivesUp("pipe")
  /\ KeepStart
  /\ Goto("config")
  /\ UNCHANGED <<backendVars, progress, cache, muted, reported>>

(* The run is taken to be over already: the pipeline lets go of it.          *)
StartRefused ==
  /\ pipe.step = "starting"
  /\ Hear("pipe", "conflict")
  /\ pipe' = Idle
  /\ UNCHANGED <<backendVars, progress, queue, cache, muted, reported>>

(* The connection settings: the transfer can start, or the server is         *)
(* disabled (CANCELLED), or there are none to be had (FAILED).               *)
GotConfig ==
  /\ pipe.step = "config"
  /\ Goto("transfer") \/ Conclude("CANCELLED") \/ Conclude("FAILED")
  /\ UNCHANGED <<vars, progress, conn, queue, cache, muted, reported>>

(* PollForOperatorCancelAsync.                                              *)
CancelSeen ==
  /\ pipe.step = "transfer"
  /\ cache.cancel = pipe.run
  /\ Conclude("CANCELLED")
  /\ UNCHANGED <<vars, progress, conn, queue, cache, muted, reported>>

TransferEnds ==
  /\ pipe.step = "transfer"
  /\ Goto("recording") \/ Conclude("FAILED") \/ Conclude("TIMEOUT")
  /\ UNCHANGED <<vars, progress, conn, queue, cache, muted, reported>>

RecordSaved ==
  /\ pipe.step = "recording"
  /\ reported' = reported \cup {pipe.run}
  /\ Conclude("SUCCESS")
  /\ UNCHANGED <<vars, progress, conn, queue, cache, muted>>

(* Refused (404 or 422): the exception is caught, and the run completed as   *)
(* FAILED.  (401 is left out: the completion would be refused with it, too.) *)
RecordRefused ==
  /\ pipe.step = "recording"
  /\ Conclude("FAILED")
  /\ UNCHANGED <<vars, progress, conn, queue, cache, muted, reported>>

(* Variant: a record that could not be sent is given up.                    *)
RecordGivenUp == UNCHANGED queue

KeepRecord == Enqueue(Queued("record", pipe.run, "none"))

(* The backend may have stored the record nevertheless.                     *)
RecordQueued ==
  /\ pipe.step = "recording"
  /\ KeepRecord
  /\ reported' \in {reported, reported \cup {pipe.run}}
  /\ Conclude("SUCCESS")
  /\ UNCHANGED <<vars, progress, conn, cache, muted>>

Completed ==
  /\ pipe.step = "completing"
  /\ Hear("pipe", "ok") \/ Hear("pipe", "conflict")
  /\ pipe' = Idle
  /\ muted' = muted \ {pipe.run}
  /\ UNCHANGED <<backendVars, progress, queue, cache, reported>>

(* 422: the exception is caught, and the run completed as FAILED.            *)
CompletionRefused ==
  /\ pipe.step = "completing"
  /\ Hear("pipe", "invalid")
  /\ Conclude("FAILED")
  /\ UNCHANGED <<backendVars, progress, queue, cache, muted, reported>>

CompletionQueued ==
  /\ pipe.step = "completing"
  /\ GivesUp("pipe")
  /\ Enqueue(Queued("complete", pipe.run, pipe.outcome))
  /\ pipe' = Idle
  /\ muted' = muted \ {pipe.run}
  /\ UNCHANGED <<backendVars, progress, cache, reported>>

Pipeline ==
  \/ PipeAttempt \/ TakesRun \/ SkipsFire \/ CancelledWhileWaiting \/ WindowOpens
  \/ Started \/ StartQueued \/ StartRefused \/ GotConfig \/ CancelSeen \/ TransferEnds
  \/ RecordSaved \/ RecordRefused \/ RecordQueued
  \/ Completed \/ CompletionRefused \/ CompletionQueued

----
(* Progress callbacks run on their own and may outlast the transfer.  (One    *)
(* at a time here; the code may have several under way.)                    *)

Callback ==
  /\ pipe.step = "transfer"
  /\ progress = 0
  /\ progress' = pipe.run
  /\ UNCHANGED <<vars, pipe, conn, queue, cache, muted, reported>>

ProgressAttempt ==
  /\ progress \notin muted \cup {0}
  /\ Attempt("progress", Request("patch", NoJob, progress, "progress"))
  /\ UNCHANGED <<backendVars, pipe, progress, queue, cache, muted, reported>>

(* Nothing is sent for a run that is known to be over.                      *)
ProgressDropped ==
  /\ progress \in muted
  /\ progress' = 0
  /\ UNCHANGED <<vars, pipe, conn, queue, cache, muted, reported>>

(* The answer aborts nothing; after a 409 no further patch is sent.          *)
ProgressHeard ==
  /\ \/ Hear("progress", "ok") /\ UNCHANGED muted
     \/ Hear("progress", "conflict") /\ muted' = muted \cup {progress}
  /\ progress' = 0
  /\ UNCHANGED <<backendVars, pipe, queue, cache, reported>>

ProgressQueued ==
  /\ progress \notin muted \cup {0}
  /\ GivesUp("progress")
  /\ Len(queue) <= ProgressRoom
  /\ Enqueue(Queued("patch", progress, "progress"))
  /\ progress' = 0
  /\ UNCHANGED <<backendVars, pipe, cache, muted, reported>>

Progress == Callback \/ ProgressAttempt \/ ProgressDropped \/ ProgressHeard \/ ProgressQueued

----
(* GET /api/agents/{id}/jobs and the cache.                                  *)

Unacknowledged ==
  {r \in RunId : runs[r].job = TheJob /\ runs[r].status = "CANCELLED" /\ ~runs[r].ack}
PendingManual ==
  {r \in RunId : runs[r].job = TheJob /\ runs[r].status = "PENDING"
                 /\ runs[r].trigger = "manual"}

(* The run of that set with the highest id, or 0.                            *)
Latest(rows) ==
  IF rows = {} THEN 0 ELSE CHOOSE r \in rows : \A q \in rows : q <= r

JobPoll ==
  /\ cache' = IF enabled[TheJob]
              THEN [known |-> TRUE, manual |-> Latest(PendingManual),
                    cancel |-> Latest(Unacknowledged)]
              ELSE EmptyCache
  /\ UNCHANGED <<vars, pipe, progress, conn, queue, muted, reported>>

----
(* The replay of the offline queue: the first event is sent, and deleted      *)
(* once it was answered.                                                    *)

ReplayAttempt ==
  /\ queue # <<>> /\ Head(queue).op # "record"
  /\ Attempt("replay", Request(Head(queue).op, NoJob, Head(queue).run, Head(queue).arg))
  /\ UNCHANGED <<backendVars, pipe, progress, queue, cache, muted, reported>>

(* The record is stored; the answer arrives, or is lost.                     *)
ReplayRecord ==
  /\ queue # <<>> /\ Head(queue).op = "record"
  /\ reported' = reported \cup {Head(queue).run}
  /\ queue' \in {queue, Tail(queue)}
  /\ UNCHANGED <<vars, pipe, progress, conn, cache, muted>>

ReplayDone ==
  /\ Hear("replay", "ok") \/ Hear("replay", "conflict")
  /\ queue' = Tail(queue)
  /\ UNCHANGED <<backendVars, pipe, progress, cache, muted, reported>>

(* The process ends and starts again: the queue is all that is kept, and the  *)
(* requests under way go on at the backend.                                 *)
AgentForgets ==
  /\ pipe' = Idle
  /\ progress' = 0
  /\ conn' = [t \in Task |-> NoClient]
  /\ cache' = EmptyCache
  /\ muted' = {}
  /\ UNCHANGED <<queue, reported>>

(* An answer the replay service has no case for stops the host.              *)
ReplayRefused ==
  /\ conn["replay"] # NoClient
  /\ Heard("replay").reply = "invalid"
  /\ ReceiveReply(conn["replay"])
  /\ AgentForgets
  /\ UNCHANGED backendVars

Replay == ReplayAttempt \/ ReplayRecord \/ ReplayDone \/ ReplayRefused

AgentRestarts == AgentForgets /\ UNCHANGED vars

----
(* The operator asks for a run, while there are ids left, and cancels runs.  *)

Operator ==
  /\ \E c \in Client :
       \/ /\ \E r \in RunId : NextFreeId(r)
          /\ Send(c, Request("create", TheJob, 0, "manual"))
       \/ \E r \in ExistingRun : Send(c, Request("cancel", NoJob, r, "none"))
  /\ UNCHANGED <<backendVars, pipe, progress, conn, queue, cache, muted, reported>>

Backend ==
  /\ Handlers \/ (Watchdogs /\ (WorkerStep \/ TickFails \/ Environment))
  /\ UNCHANGED <<pipe, progress, conn, queue, cache, muted, reported>>

AgentNext ==
  \/ Fire \/ PickUp \/ Pipeline \/ Progress \/ JobPoll \/ Replay \/ AgentRestarts
  \/ \E t \in Task : AttemptLost(t)
  \/ \E c \in Client : Unheard(c)
  \/ Operator \/ Backend

AgentSpec == AgentInit /\ [][AgentNext]_agentVars

(* The worker ticks and time passes; requests are executed, the pipeline and  *)
(* the replay go on, and the jobs are polled, whatever fails in between.     *)
AgentFairness ==
  /\ WorkerFairness
  /\ \A r \in RunId : WF_vars(TimeLimitPasses(r))
  /\ SF_vars(Handlers)
  /\ SF_agentVars(Pipeline)
  /\ SF_agentVars(Replay)
  /\ WF_agentVars(JobPoll)

FairAgentSpec == AgentSpec /\ AgentFairness

----
(* Properties.                                                              *)

IsQueued(op, r) == \E i \in DOMAIN queue : queue[i].op = op /\ queue[i].run = r

(* The agent works on a run that the backend still shows as PENDING only if   *)
(* the patch that starts it waits in the offline queue: no lost answer, late  *)
(* request or replay leaves a transfer the backend will never hear of.        *)
StartIsKnown ==
  pipe.step \in {"config", "transfer", "recording"} /\ runs[pipe.run].status = "PENDING"
    => \E i \in DOMAIN queue : queue[i] = Queued("patch", pipe.run, "RUNNING")

(* The outcome of a run agrees with its backup record, although the two are   *)
(* separate requests that may be lost, repeated and queued: a SUCCESS has its *)
(* record stored or still queued, a FAILED run has none.                     *)
OutcomeMatchesRecord ==
  \A r \in RunId :
    /\ runs[r].status = "SUCCESS" => r \in reported \/ IsQueued("record", r)
    /\ runs[r].status = "FAILED" => r \notin reported /\ ~IsQueued("record", r)

(* The pipeline works on its run alone: the run is marked as handed over, and  *)
(* no answer under way tells anybody else, or the agent itself after a        *)
(* restart, to execute it again.                                            *)
WorksAlone ==
  pipe.step \notin {"idle", "creating", "claiming"} =>
    /\ runs[pipe.run].dispatched
    /\ \A c \in Client : ~Granted(c, pipe.run)

(* The replay never reports a success before it has delivered the record of  *)
(* it: what waits in the queue ahead of a SUCCESS, or is stored by now, is    *)
(* the record of that run, although the two are put there, delivered,        *)
(* repeated and deleted one by one.  (Queued completions only: once the       *)
(* backend answers again, a SUCCESS goes to it directly, and may be there     *)
(* before a record that is still queued.)                                   *)
RecordBeforeOutcome ==
  \A i \in DOMAIN queue :
    queue[i].op = "complete" /\ queue[i].arg = "SUCCESS" =>
      \/ queue[i].run \in reported
      \/ \E k \in 1 .. i - 1 : queue[k].op = "record" /\ queue[k].run = queue[i].run

(* To the backend, the agent is one of the clients of JobRun: whatever is     *)
(* proved of JobRun holds here.                                             *)
ImplementsJobRun == Spec

(* "whatever just PATCHed/completed a CANCELLED run has, by virtue of that    *)
(* very call, observably reacted to the cancellation" (job_runs.py): once the *)
(* agent has heard the 409 that acknowledged the cancellation of a run, the   *)
(* transfer of that run does not go on to its end.                           *)
AcknowledgedMeansStopped ==
  [][pipe.step = "transfer" /\ pipe'.step = "recording" =>
       ~(/\ runs[pipe.run].status = "CANCELLED" /\ runs[pipe.run].ack
         /\ pipe.run \in muted)]_agentVars

(* "409 responses on PATCH/complete ... mean already terminal"                *)
(* (IBackendApiClient.cs): no task of the agent is told so of an open run.    *)
ConflictMeansOver ==
  \A t \in Task :
    (/\ conn[t] # NoClient
     /\ Heard(t).reply = "conflict" /\ Heard(t).op \in {"patch", "complete"})
      => runs[Heard(t).run].status \in Terminal

(* An open run that was handed over, and that no agent, queue or request has  *)
(* in hand any more.                                                        *)
Abandoned(r) ==
  /\ runs[r].status \in Active /\ runs[r].dispatched
  /\ pipe.run # r
  /\ ~IsQueued("patch", r) /\ ~IsQueued("complete", r)
  /\ \A c \in Client : calls[c].run # r

(* "this run stays RUNNING (or PENDING) on the backend and is picked up by    *)
(* the backend's own missed-run/timeout watchdog logic" (BackupRunPipeline.cs): *)
(* a run that the pipeline had taken in hand is not abandoned for ever.       *)
AbandonedRunIsClosed ==
  \A r \in RunId :
    [](pipe.run = r /\ pipe.step \notin {"creating", "claiming"}
         => []<>~Abandoned(r))

====
