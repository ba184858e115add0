---- MODULE JobRun ----
(***************************************************************************)
(* The backend's job runs: the five handlers of routers/job_runs.py that    *)
(* change a run, and the three passes of the alert worker that read or      *)
(* close runs (workers/alert_worker.py).                                    *)
(*                                                                          *)
(* A handler reads the row, decides, and then issues ONE guarded UPDATE (or *)
(* an INSERT) that it commits.  SQLite takes the write lock at that UPDATE  *)
(* and holds it until the commit, so everything from the UPDATE to the      *)
(* commit is one step here; the read before it is a step of its own, and    *)
(* other handlers, other callers and the worker interleave between the two. *)
(***************************************************************************)
EXTENDS Naturals

CONSTANTS
  Job,           \* backup jobs
  NoJob,         \* stands for "no job" in a row or a call not in use
  WatchJob,      \* jobs with trigger_mode = WATCH; the others are SCHEDULE
  TimeLimited,   \* jobs whose expected_max_duration_minutes is not NULL
  RunId,         \* run ids, given out in increasing order (bounds the runs)
  Client,        \* HTTP clients; each has at most one request in flight
  Reported,      \* the statuses that callers put into a complete
  AlertType,     \* the alert types that are followed; others leave no trace
  Switchable     \* the jobs that administrators enable and disable

ASSUME JobAssumption ==
  /\ NoJob \notin Job
  /\ WatchJob \subseteq Job
  /\ TimeLimited \subseteq Job

ASSUME RunIdAssumption == RunId \subseteq Nat \ {0}

ASSUME ReportedAssumption ==
  Reported \subseteq {"SUCCESS", "WARNING", "FAILED", "CANCELLED", "TIMEOUT"}

ASSUME AlertTypeAssumption ==
  AlertType \subseteq {"JOB_FAILED", "JOB_TIMEOUT", "JOB_STUCK_PENDING", "JOB_MISSED"}

VARIABLES
  enabled,   \* enabled[j]: backup_jobs.is_enabled
  late,      \* late[j]: the fire due after last_run_at is past its grace time
  runs,      \* the job_runs table
  alerts,    \* the ACTIVE alerts, as pairs <<alert type, job>>
  calls,     \* calls[c]: the request of client c and how far its handler is
  worker     \* the alert worker: which pass it is in and the rows it selected

rowVars == <<enabled, late, runs, alerts>>
vars == <<enabled, late, runs, alerts, calls, worker>>

Active == {"PENDING", "RUNNING"}
Terminal == {"SUCCESS", "WARNING", "FAILED", "CANCELLED", "TIMEOUT", "STUCK"}
Status == {"ABSENT"} \cup Active \cup Terminal

(* What POST .../complete accepts; the worker alone writes the other two.   *)
CompleteStatus == {"SUCCESS", "WARNING", "FAILED", "CANCELLED"}

Trigger == {"scheduler", "watch", "manual"}
Op == {"create", "patch", "complete", "claim", "cancel"}
Reply == {"ok", "conflict", "invalid"}

(* A row: dispatched and ack stand for dispatched_at and                    *)
(* cancel_acknowledged_at being set, cancelReq for cancel_requested_at; and *)
(* overdue for the time limit that applies to the row having passed         *)
(* (started_at + expected_max_duration for a RUNNING row, created_at + the  *)
(* dispatch grace time for a PENDING one, none for a row that is over).     *)
(* unstamped: RUNNING while started_at IS NULL, so that its time limit has  *)
(* nothing to count from; overdue then only says that the time has passed.  *)
Row == [job: Job \cup {NoJob}, status: Status, trigger: Trigger,
        dispatched: BOOLEAN, cancelReq: BOOLEAN, ack: BOOLEAN,
        overdue: BOOLEAN, unstamped: BOOLEAN]

NoRow == [job |-> NoJob, status |-> "ABSENT", trigger |-> "manual",
          dispatched |-> FALSE, cancelReq |-> FALSE, ack |-> FALSE,
          overdue |-> FALSE, unstamped |-> FALSE]

(* A call: arg is the trigger of a create, the status of a complete, and    *)
(* for a patch "RUNNING" (with started_at), "bare RUNNING" (without) or     *)
(* "progress" (neither status nor started_at).  The handler has not read    *)
(* yet ("sent"), has read and will write ("read"), has read that the run is *)
(* over and will refuse ("refuse"), or has answered ("replied"); seen is    *)
(* expected_status, the active status it read.                              *)
Call == [phase: {"idle", "sent", "read", "refuse", "replied"}, op: Op \cup {"none"},
         job: Job \cup {NoJob}, run: RunId \cup {0},
         arg: Trigger \cup Status \cup {"bare RUNNING", "progress", "none"},
         seen: Active \cup {"none"}, reply: Reply \cup {"none"}]

NoCall == [phase |-> "idle", op |-> "none", job |-> NoJob, run |-> 0,
           arg |-> "none", seen |-> "none", reply |-> "none"]

Pass == {"idle", "missed", "timeouts", "dispatch"}
Worker == [pass: Pass, jobs: SUBSET (Job \X BOOLEAN), rows: SUBSET RunId]
Resting == [pass |-> "idle", jobs |-> {}, rows |-> {}]

(* A row exists exactly when it belongs to a job.                           *)
RowsWellFormed ==
  \A r \in RunId :
    /\ runs[r].status = "ABSENT" <=> runs[r].job = NoJob
    /\ runs[r].dispatched => runs[r].status # "ABSENT"
    /\ runs[r].unstamped => runs[r].status = "RUNNING"

(* A create names a job, the other requests an existing row; what a handler *)
(* is about to write was validated.                                         *)
CallsWellFormed ==
  \A c \in Client : LET call == calls[c] IN
    /\ call.op = "create" => call.job \in Job /\ call.arg \in Trigger
    /\ call.op \in {"patch", "complete", "claim", "cancel"} =>
         call.run \in RunId /\ runs[call.run].status # "ABSENT"
    /\ call.op = "none" <=> call.phase = "idle"
    /\ call.phase = "refuse" => call.op \in {"patch", "complete"}
    /\ call.phase = "read" /\ call.op \in {"patch", "complete"} => call.seen \in Active
    /\ call.phase = "read" /\ call.op = "complete" => call.arg \in CompleteStatus

(* The type invariant: a column never holds what its model does not allow,  *)
(* and no handler ever works on a row or a job that is not there.           *)
TypeOK ==
  /\ enabled \in [Job -> BOOLEAN]
  /\ late \in [Job -> BOOLEAN]
  /\ runs \in [RunId -> Row]
  /\ alerts \subseteq AlertType \X Job
  /\ calls \in [Client -> Call]
  /\ worker \in Worker
  /\ RowsWellFormed
  /\ CallsWellFormed

Init ==
  /\ enabled = [j \in Job |-> TRUE]
  /\ late = [j \in Job |-> FALSE]
  /\ runs = [r \in RunId |-> NoRow]
  /\ alerts = {}
  /\ calls = [c \in Client |-> NoCall]
  /\ worker = Resting

(* raise_alert_if_absent and resolve_active_alert: at most one ACTIVE alert  *)
(* of a type per job.                                                       *)
Raise(type, j) == alerts \cup ({type} \cap AlertType) \X {j}
Resolve(type, j) == alerts \ {<<type, j>>}

HasActiveRun(j) == \E r \in RunId : runs[r].job = j /\ runs[r].status \in Active

----
(* Requests and replies.                                                    *)

Request(op, j, r, arg) ==
  [NoCall EXCEPT !.phase = "sent", !.op = op, !.job = j, !.run = r, !.arg = arg]

Send(c, request) ==
  /\ calls[c].phase = "idle"
  /\ calls' = [calls EXCEPT ![c] = request]

(* The handler of c is at this step of a request of this kind.              *)
At(c, phase, op) == calls[c].phase = phase /\ calls[c].op = op

Answer(c, reply) ==
  calls' = [calls EXCEPT ![c].phase = "replied", ![c].reply = reply, ![c].seen = "none"]

ReceiveReply(c) ==
  /\ calls[c].phase = "replied"
  /\ calls' = [calls EXCEPT ![c] = NoCall]

(* The connection breaks, the client gives up, or the backend restarts: a   *)
(* request not yet committed has no effect, one already committed keeps it, *)
(* and the client learns neither.                                           *)
Disconnect(c) ==
  /\ calls[c].phase # "idle"
  /\ calls' = [calls EXCEPT ![c] = NoCall]

----
(* POST /api/job-runs                                                       *)

CreateRead(c) ==
  LET j == calls[c].job
      refused == ~enabled[j] \/ (calls[c].arg = "manual" /\ j \in WatchJob)
  IN /\ At(c, "sent", "create")
     /\ IF refused THEN Answer(c, "conflict")
                   ELSE calls' = [calls EXCEPT ![c].phase = "read"]
     /\ UNCHANGED <<rowVars, worker>>

(* Variant: the INSERT without the partial unique index of the table.       *)
InsertAllowedAlways(j) == TRUE

(* uq_job_runs_active_per_backup_job: one PENDING or RUNNING run per job.    *)
InsertAllowed(j) == ~HasActiveRun(j)

NextFreeId(r) ==
  /\ runs[r].status = "ABSENT"
  /\ \A q \in RunId : q < r => runs[q].status # "ABSENT"

(* A run created by the scheduler or the watcher is dispatched at once.     *)
DispatchedAtInsert(trigger) == trigger \in {"scheduler", "watch"}

CreateInsert(c) ==
  LET j == calls[c].job IN
  /\ At(c, "read", "create")
  /\ \/ /\ InsertAllowed(j)
        /\ \E r \in RunId :
             /\ NextFreeId(r)
             /\ runs' = [runs EXCEPT ![r] =
                  [NoRow EXCEPT !.job = j, !.status = "PENDING",
                                !.trigger = calls[c].arg,
                                !.dispatched = DispatchedAtInsert(calls[c].arg)]]
             /\ calls' = [calls EXCEPT ![c].phase = "replied",
                                       ![c].reply = "ok", ![c].run = r]
     \/ /\ ~InsertAllowed(j)
        /\ Answer(c, "conflict")
        /\ UNCHANGED runs
  /\ UNCHANGED <<enabled, late, alerts, worker>>

----
(* PATCH /api/job-runs/{id} and POST /api/job-runs/{id}/complete            *)

(* The row is read; the body of a complete was validated before that.       *)
ReadRow(c) ==
  /\ calls[c].phase = "sent"
  /\ calls[c].op \in {"patch", "complete"}
  /\ LET status == runs[calls[c].run].status IN
     IF calls[c].op = "complete" /\ calls[c].arg \notin CompleteStatus
     THEN Answer(c, "invalid")
     ELSE IF status \in Active
     THEN calls' = [calls EXCEPT ![c].phase = "read", ![c].seen = status]
     ELSE calls' = [calls EXCEPT ![c].phase = "refuse"]
  /\ UNCHANGED <<rowVars, worker>>

(* _auto_acknowledge_cancelled, and the 409 of a run that is over.          *)
RefuseFinished(c) ==
  LET r == calls[c].run IN
  /\ calls[c].phase = "refuse"
  /\ runs' = IF runs[r].status = "CANCELLED" THEN [runs EXCEPT ![r].ack = TRUE] ELSE runs
  /\ Answer(c, "conflict")
  /\ UNCHANGED <<enabled, late, alerts, worker>>

(* Variant: the UPDATE names the row and not the status it was read with.   *)
MatchesId(r, seen) == runs[r].status # "ABSENT"

(* WHERE id = r AND status = <the status read>: the row count is 1.         *)
MatchesRead(r, seen) == runs[r].status = seen

(* Variant: fields that the body leaves out are written, too (no            *)
(* exclude_unset), so a progress patch overwrites the status.               *)
PatchedWhole(row, arg) == [row EXCEPT !.status = arg, !.overdue = FALSE]

(* A patch to RUNNING that sets started_at starts the time limit anew; one   *)
(* that leaves it out (started_at is optional) makes a PENDING run RUNNING   *)
(* with started_at NULL, and changes nothing about a RUNNING one.            *)
Patched(row, arg) ==
  CASE arg = "RUNNING" ->
         [row EXCEPT !.status = "RUNNING", !.overdue = FALSE, !.unstamped = FALSE]
    [] arg = "bare RUNNING" /\ row.status = "PENDING" ->
         [row EXCEPT !.status = "RUNNING", !.overdue = FALSE, !.unstamped = TRUE]
    [] OTHER -> row

PatchWrite(c) ==
  LET r == calls[c].run IN
  /\ At(c, "read", "patch")
  /\ \/ /\ MatchesRead(r, calls[c].seen)
        /\ runs' = [runs EXCEPT ![r] = Patched(@, calls[c].arg)]
        /\ Answer(c, "ok")
     \/ /\ ~MatchesRead(r, calls[c].seen)
        /\ UNCHANGED runs
        /\ Answer(c, "conflict")
  /\ UNCHANGED <<enabled, late, alerts, worker>>

(* A cancelled run changes no alert.                                        *)
AlertsAfter(status, j) ==
  CASE status = "FAILED"                  -> Raise("JOB_FAILED", j)
    [] status \in {"SUCCESS", "WARNING"}  -> Resolve("JOB_FAILED", j)
    [] OTHER                              -> alerts

(* A row that is over, and the job's last_run_at, which is set with it: the  *)
(* job's next fire is in the future again.                                  *)
Closed(row, status) ==
  [row EXCEPT !.status = status, !.overdue = FALSE, !.unstamped = FALSE]
Finished(j) == late' = [late EXCEPT ![j] = FALSE]

CompleteWrite(c) ==
  LET r == calls[c].run
      status == calls[c].arg
  IN /\ At(c, "read", "complete")
     /\ \/ /\ MatchesRead(r, calls[c].seen)
           /\ runs' = [runs EXCEPT ![r] = Closed(@, status)]
           /\ Finished(runs[r].job)
           /\ alerts' = AlertsAfter(status, runs[r].job)
           /\ Answer(c, "ok")
        \/ /\ ~MatchesRead(r, calls[c].seen)
           /\ Answer(c, "conflict")
           /\ UNCHANGED <<late, runs, alerts>>
     /\ UNCHANGED <<enabled, worker>>

----
(* POST /api/job-runs/{id}/claim and /cancel: what the first read finds is   *)
(* not used, so each handler is its guarded UPDATE.                          *)

(* Variant: the claim does not look at dispatched_at.                        *)
ClaimablePending(r) == runs[r].status = "PENDING" /\ runs[r].trigger = "manual"

Claimable(r) ==
  /\ runs[r].status = "PENDING"
  /\ ~runs[r].dispatched
  /\ runs[r].trigger = "manual"

ClaimWrite(c) ==
  LET r == calls[c].run IN
  /\ At(c, "sent", "claim")
  /\ IF Claimable(r)
     THEN runs' = [runs EXCEPT ![r].dispatched = TRUE] /\ Answer(c, "ok")
     ELSE Answer(c, "conflict") /\ UNCHANGED runs
  /\ UNCHANGED <<enabled, late, alerts, worker>>

CancelWrite(c) ==
  LET r == calls[c].run IN
  /\ At(c, "sent", "cancel")
  /\ IF runs[r].status \in Active
     THEN /\ runs' = [runs EXCEPT ![r] = [Closed(@, "CANCELLED") EXCEPT !.cancelReq = TRUE]]
          /\ Finished(runs[r].job)
          /\ Answer(c, "ok")
     ELSE Answer(c, "conflict") /\ UNCHANGED <<late, runs>>
  /\ UNCHANGED <<enabled, alerts, worker>>

----
(* The alert worker: one tick is a pass over the jobs (check_missed_runs),   *)
(* one over the RUNNING runs (check_job_timeouts) and one over the runs      *)
(* nobody took (check_stuck_pending_dispatch).  A pass selects its rows      *)
(* first and then treats them one by one, each with its own commit.          *)

Watched(j) == enabled[j] /\ j \notin WatchJob /\ ~HasActiveRun(j)

MissedScan ==
  /\ worker.pass = "idle"
  /\ worker' = [worker EXCEPT !.pass = "missed",
                  !.jobs = {<<j, late[j]>> : j \in {i \in Job : Watched(i)}}]
  /\ UNCHANGED <<rowVars, calls>>

(* Variant: a job that is on time again keeps its alert.                    *)
MissedAlertKept(j, isLate) == IF isLate THEN Raise("JOB_MISSED", j) ELSE alerts

MissedAlert(j, isLate) ==
  IF isLate THEN Raise("JOB_MISSED", j) ELSE Resolve("JOB_MISSED", j)

(* The decision uses last_run_at as it was when the jobs were selected.     *)
MissedJob(j, isLate) ==
  /\ worker.pass = "missed"
  /\ <<j, isLate>> \in worker.jobs
  /\ alerts' = MissedAlert(j, isLate)
  /\ worker' = [worker EXCEPT !.jobs = @ \ {<<j, isLate>>}]
  /\ UNCHANGED <<enabled, late, runs, calls>>

(* Variant: rows of jobs that have no time limit are the ones selected.     *)
TimeoutRowsSwapped ==
  {r \in RunId : runs[r].status = "RUNNING" /\ runs[r].overdue
                 /\ ~runs[r].unstamped /\ runs[r].job \notin TimeLimited}

(* A row without started_at is skipped.                                     *)
TimeoutRows ==
  {r \in RunId : runs[r].status = "RUNNING" /\ runs[r].overdue
                 /\ ~runs[r].unstamped /\ runs[r].job \in TimeLimited}

TimeoutScan ==
  /\ worker.pass = "missed" /\ worker.jobs = {}
  /\ worker' = [worker EXCEPT !.pass = "timeouts", !.rows = TimeoutRows]
  /\ UNCHANGED <<rowVars, calls>>

(* The worker closes row r if it still is as the UPDATE's WHERE requires.   *)
CloseRow(r, matches, closed, alertType) ==
  /\ r \in worker.rows
  /\ worker' = [worker EXCEPT !.rows = @ \ {r}]
  /\ IF matches
     THEN /\ runs' = [runs EXCEPT ![r] = closed]
          /\ Finished(runs[r].job)
          /\ alerts' = Raise(alertType, runs[r].job)
     ELSE UNCHANGED <<late, runs, alerts>>
  /\ UNCHANGED <<enabled, calls>>

(* Variant: the UPDATE names the row only.                                  *)
StillThere(r) == runs[r].status # "ABSENT"

StillRunning(r) == runs[r].status = "RUNNING"

TimeoutRow(r) ==
  /\ worker.pass = "timeouts"
  /\ CloseRow(r, StillRunning(r),
              Closed(runs[r], "TIMEOUT"), "JOB_TIMEOUT")

Undispatched(r) == runs[r].status = "PENDING" /\ ~runs[r].dispatched

DispatchScan ==
  /\ worker.pass = "timeouts" /\ worker.rows = {}
  /\ worker' = [worker EXCEPT !.pass = "dispatch",
                  !.rows = {r \in RunId : Undispatched(r) /\ runs[r].overdue}]
  /\ UNCHANGED <<rowVars, calls>>

(* Variant: the UPDATE trusts what the SELECT said of dispatched_at.        *)
StillPending(r) == runs[r].status = "PENDING"

StillUndispatched(r) == Undispatched(r)

DispatchRow(r) ==
  /\ worker.pass = "dispatch"
  /\ CloseRow(r, StillUndispatched(r),
              [Closed(runs[r], "STUCK") EXCEPT !.cancelReq = TRUE, !.ack = TRUE],
              "JOB_STUCK_PENDING")

TickEnds ==
  /\ worker.pass = "dispatch" /\ worker.rows = {}
  /\ worker' = Resting
  /\ UNCHANGED <<rowVars, calls>>

(* An exception ends the tick, or the backend restarts.                     *)
TickFails ==
  /\ worker.pass # "idle"
  /\ worker' = Resting
  /\ UNCHANGED <<rowVars, calls>>

WorkerStep ==
  \/ MissedScan \/ TimeoutScan \/ DispatchScan \/ TickEnds
  \/ \E j \in Job, isLate \in BOOLEAN : MissedJob(j, isLate)
  \/ \E r \in RunId : TimeoutRow(r) \/ DispatchRow(r)

----
(* Time passes, and administrators act on the jobs and the alerts.  Whether  *)
(* a job is late matters to JOB_MISSED only.                                *)

TimeLimitPasses(r) ==
  /\ ~runs[r].overdue
  /\ Undispatched(r) \/ (runs[r].status = "RUNNING" /\ runs[r].job \in TimeLimited)
  /\ runs' = [runs EXCEPT ![r].overdue = TRUE]
  /\ UNCHANGED <<enabled, late, alerts, calls, worker>>

FireIsMissed(j) ==
  /\ "JOB_MISSED" \in AlertType
  /\ ~late[j]
  /\ late' = [late EXCEPT ![j] = TRUE]
  /\ UNCHANGED <<enabled, runs, alerts, calls, worker>>

SwitchJob(j) ==
  /\ j \in Switchable
  /\ enabled' = [enabled EXCEPT ![j] = ~@]
  /\ UNCHANGED <<late, runs, alerts, calls, worker>>

(* acknowledge_alert and resolve_alert: the alert is no longer ACTIVE.      *)
CloseAlert(a) ==
  /\ a \in alerts
  /\ alerts' = alerts \ {a}
  /\ UNCHANGED <<enabled, late, runs, calls, worker>>

Environment ==
  \/ \E r \in RunId : TimeLimitPasses(r)
  \/ \E j \in Job : FireIsMissed(j) \/ SwitchJob(j)
  \/ \E a \in alerts : CloseAlert(a)

Handlers ==
  \E c \in Client :
    \/ CreateRead(c) \/ CreateInsert(c) \/ ReadRow(c) \/ RefuseFinished(c)
    \/ PatchWrite(c) \/ CompleteWrite(c) \/ ClaimWrite(c) \/ CancelWrite(c)

----
(* Any client may send any request about any job and any existing run.      *)

ExistingRun == {r \in RunId : runs[r].status # "ABSENT"}

SendCreate(c) ==
  \E j \in Job :
    \/ Send(c, Request("create", j, 0, "manual"))
    \/ Send(c, Request("create", j, 0, IF j \in WatchJob THEN "watch" ELSE "scheduler"))

(* Whether started_at is set matters to the time limit only.                *)
PatchOf(r) ==
  {"RUNNING", "progress"}
    \cup (IF runs[r].job \in TimeLimited THEN {"bare RUNNING"} ELSE {})

SendPatch(c) ==
  \E r \in ExistingRun : \E a \in PatchOf(r) : Send(c, Request("patch", NoJob, r, a))

SendComplete(c) ==
  \E r \in ExistingRun, s \in Reported :
    Send(c, Request("complete", NoJob, r, s))

SendClaimOrCancel(c) ==
  \E r \in ExistingRun, op \in {"claim", "cancel"} : Send(c, Request(op, NoJob, r, "none"))

Clients ==
  /\ \E c \in Client :
       \/ SendCreate(c) \/ SendPatch(c) \/ SendComplete(c) \/ SendClaimOrCancel(c)
       \/ ReceiveReply(c) \/ Disconnect(c)
  /\ UNCHANGED <<rowVars, worker>>

Next == Clients \/ Handlers \/ WorkerStep \/ TickFails \/ Environment

(* The worker's loop catches what a tick raises and ticks again: each of     *)
(* its steps fails now and then, but none of them fails every time, and no   *)
(* tick hangs.                                                              *)
WorkerFairness ==
  /\ SF_vars(MissedScan) /\ SF_vars(TimeoutScan) /\ SF_vars(DispatchScan)
  /\ \A j \in Job : SF_vars(\E isLate \in BOOLEAN : MissedJob(j, isLate))
  /\ \A r \in RunId : SF_vars(TimeoutRow(r)) /\ SF_vars(DispatchRow(r))
  /\ WF_vars(TickEnds)

Spec == Init /\ [][Next]_vars
FairSpec == Spec /\ WorkerFairness

----
(* Properties.                                                              *)

(* The partial unique index and the guarded UPDATEs together: no            *)
(* interleaving of handlers and worker gives a job two PENDING or RUNNING    *)
(* runs, not even by a late PATCH on a run that was closed meanwhile.        *)
OneActivePerJob ==
  \A r, q \in RunId :
    runs[r].status \in Active /\ runs[q].status \in Active /\ runs[r].job = runs[q].job
      => r = q

(* A run that reached SUCCESS, WARNING, FAILED, CANCELLED, TIMEOUT or STUCK  *)
(* keeps that status, its job and its dispatch mark: a handler that read the *)
(* run before it was closed never overwrites how it was closed.              *)
TerminalIsFinal ==
  [][\A r \in RunId : runs[r].status \in Terminal =>
       /\ runs'[r].status = runs[r].status
       /\ runs'[r].job = runs[r].job
       /\ runs'[r].dispatched = runs[r].dispatched]_vars

(* The dispatch watchdog against create and claim: a run marked STUCK was    *)
(* never handed to an agent, so no agent goes on to transfer for it.         *)
StuckWasNeverTaken ==
  \A r \in RunId : runs[r].status = "STUCK" => ~runs[r].dispatched

(* The caller was told that run r is now its to execute.                    *)
Granted(c, r) ==
  /\ calls[c].phase = "replied" /\ calls[c].reply = "ok" /\ calls[c].run = r
  /\ calls[c].op = "claim" \/ (calls[c].op = "create" /\ calls[c].arg # "manual")

(* Two requests that were both told to execute a run were told different    *)
(* runs, and the run each was told is marked as handed over: a claim races   *)
(* with another claim and with the watchdog for the same row.                *)
GrantIsExclusive ==
  \A c \in Client, r \in RunId : Granted(c, r) =>
    /\ runs[r].dispatched
    /\ \A d \in Client \ {c} : ~Granted(d, r)

(* A run is handed over once in its life: the mark never goes away, and no    *)
(* request, not even a repeated claim of the same agent after its answer was *)
(* lost, is told to execute a run that has the mark already.                 *)
HandedOverOnce ==
  [][\A r \in RunId : runs[r].dispatched =>
       /\ runs'[r].dispatched
       /\ \A c \in Client : Granted(c, r)' => Granted(c, r)]_vars

(* The failure alert of a job tells of its last outcome: it is ACTIVE only    *)
(* if a run failed after every run that was reported to have succeeded.  A    *)
(* completion that was overtaken by a cancellation, and by a later run, must *)
(* not bring the alert back or take it away.                                 *)
FailureAlertIsCurrent ==
  \A j \in Job : <<"JOB_FAILED", j>> \in alerts =>
    \E r \in RunId :
      /\ runs[r].job = j /\ runs[r].status = "FAILED"
      /\ \A q \in RunId :
           runs[q].job = j /\ runs[q].status \in {"SUCCESS", "WARNING"} => q < r

(* What the worker is for.  A time-limited run that stays RUNNING beyond its *)
(* limit is closed, and so is a run nobody takes, whatever requests come in  *)
(* and however often a tick fails in between.  Two things are taken for      *)
(* granted.  The run was given a started_at (the agent always sends one): a  *)
(* run that a patch made RUNNING without it is skipped by every tick, with a *)
(* warning in the log, and stays RUNNING until a request changes it.  And    *)
(* every tick ends: the sweep of the verifications, which the same tick      *)
(* awaits, may hang in a query (Verification).                               *)
WatchdogsCloseRuns ==
  \A r \in RunId :
    /\ (/\ runs[r].status = "RUNNING" /\ runs[r].overdue /\ ~runs[r].unstamped
        /\ runs[r].job \in TimeLimited)
         ~> (runs[r].status # "RUNNING" \/ ~runs[r].overdue)
    /\ (Undispatched(r) /\ runs[r].overdue) ~> ~Undispatched(r)

(* JOB_MISSED follows the schedule: it is raised for a watched job that is    *)
(* late and taken back for one that is not, although the worker decides on   *)
(* a snapshot that a completion may have overtaken.                          *)
MissedAlertFollows ==
  \A j \in Job :
    /\ (Watched(j) /\ late[j])
         ~> (<<"JOB_MISSED", j>> \in alerts \/ ~late[j] \/ ~Watched(j))
    /\ (Watched(j) /\ ~late[j] /\ <<"JOB_MISSED", j>> \in alerts)
         ~> (<<"JOB_MISSED", j>> \notin alerts \/ late[j] \/ ~Watched(j))

(* JobRun implements the life cycle of RunLifecycle: a run's phase is its    *)
(* status, its owner its job, and it is taken when dispatched_at is set.     *)
PhaseOf(status) ==
  CASE status = "ABSENT"  -> "absent"
    [] status = "PENDING" -> "waiting"
    [] status = "RUNNING" -> "started"
    [] OTHER              -> status

RunPhase == [r \in RunId |-> PhaseOf(runs[r].status)]
RunOwner == [r \in RunId |-> runs[r].job]
RunsTaken == {r \in RunId : runs[r].dispatched}

Lifecycle == INSTANCE RunLifecycle WITH
  Outcome <- Terminal, phase <- RunPhase, owner <- RunOwner, taken <- RunsTaken

ImplementsLifecycle == Lifecycle!Spec

====
