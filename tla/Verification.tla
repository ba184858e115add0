---- MODULE Verification ----
(***************************************************************************)
(* Backup verification: workers/backup_verification.py.  A verification run *)
(* is created PENDING by the alert worker's sweep or by POST .../verify,    *)
(* and one task executes it: it claims the row (RUNNING), asks the SQL      *)
(* Server, writes the verdict, and in a LATER transaction raises or         *)
(* resolves the job's alert.  check_stuck_verifications closes RUNNING rows *)
(* whose task is gone.                                                      *)
(*                                                                          *)
(* Reads take no lock in SQLite and the write lock is held from the first   *)
(* UPDATE or INSERT to the commit: a transaction's writes are one step, and *)
(* what was read before it may be stale.                                    *)
(***************************************************************************)
EXTENDS Naturals

CONSTANTS
  Job,         \* backup jobs that exist at the start; none is created later
  NoJob,       \* the job of a row that does not exist
  MaxRun,      \* bound: how many verification runs the table can hold
  ApiTask,     \* detached tasks of the verify endpoint (bound: at a time)
  Setting,     \* the states administrators put a job into
  FaultLimit   \* bound: crashes and database errors

ASSUME VerificationAssumption ==
  /\ NoJob \notin Job
  /\ MaxRun \in Nat
  /\ FaultLimit \in Nat
  /\ "worker" \notin ApiTask
  /\ Setting \subseteq {"on", "off", "unlinked"}

RunId == 1 .. MaxRun
Task == ApiTask \cup {"worker"}

VARIABLES
  job,        \* job[j]: what the sweep and the endpoint see of backup job j
  recorded,   \* the jobs that have a BackupRecord
  runs,       \* the verification_runs table, RESTORE_VERIFYONLY rows
  alert,      \* alert[j]: the ACTIVE BACKUP_VERIFICATION_FAILED alert of job j
  task,       \* task[t]: the execute_verification_run in progress
  worker,     \* the alert worker: the phase of its tick and what it selected
  passed,     \* requests that passed their checks and are about to write
  orphans,    \* rows whose task ended without closing them (no column)
  faults      \* crashes and errors so far

vars == <<job, recorded, runs, alert, task, worker, passed, orphans, faults>>

Active == {"PENDING", "RUNNING"}
Terminal == {"OK", "CORRUPT", "MISSING", "ERROR"}

(* A row; overdue: started_at is further back than connect timeout, restore *)
(* timeout and grace together.                                              *)
Row == [job: Job \cup {NoJob}, status: {"ABSENT"} \cup Active \cup Terminal,
        overdue: BOOLEAN]
NoRow == [job |-> NoJob, status |-> "ABSENT", overdue |-> FALSE]
Present(r) == runs[r].status # "ABSENT"

(* "on" and "off": is_enabled of a job with a sql_instance_id; "unlinked":  *)
(* without one; "gone": deleted.                                            *)
JobState == {"on", "off", "unlinked", "gone"}

Alert == [run: RunId, severity: {"CRITICAL", "WARNING"}]
NoAlert == [run |-> 0, severity |-> "NONE"]

(* The execution of a run; job, linked and verdict are its local variables. *)
Execution == [pc: {"idle", "begin", "claim", "calling", "decided", "alert", "failed"},
              run: RunId \cup {0}, job: Job \cup {NoJob}, linked: BOOLEAN,
              verdict: Terminal]
NoTask == [pc |-> "idle", run |-> 0, job |-> NoJob, linked |-> FALSE, verdict |-> "ERROR"]
Started(r) == [NoTask EXCEPT !.pc = "begin", !.run = r]

Worker == [phase: {"idle", "stuck", "verify"}, rows: SUBSET (RunId \X Job), todo: SUBSET Job]
Resting == [phase |-> "idle", rows |-> {}, todo |-> {}]

Init ==
  /\ job = [j \in Job |-> "on"]
  /\ recorded = {}
  /\ runs = [r \in RunId |-> NoRow]
  /\ alert = [j \in Job |-> NoAlert]
  /\ task = [t \in Task |-> NoTask]
  /\ worker = Resting
  /\ passed = {}
  /\ orphans = {}
  /\ faults = 0

Fault == faults < FaultLimit /\ faults' = faults + 1

----
(* Creating a run.                                                          *)

(* SQLite gives out the id after the largest one in the table, so ids that  *)
(* were deleted with their job are used again.                              *)
IsNextId(r) ==
  /\ r # 1 => Present(r - 1)
  /\ \A q \in RunId : q >= r => ~Present(q)

(* Variant: the foreign key is not enforced.                                *)
InsertAllowedAnyJob(j) ==
  \A r \in RunId : runs[r].job = j => runs[r].status \notin Active

(* Variant: the index leaves RUNNING rows out.                              *)
InsertAllowedRunning(j) ==
  /\ job[j] # "gone"
  /\ \A r \in RunId : runs[r].job = j => runs[r].status # "PENDING"

(* The foreign key on backup_jobs and the partial unique index on the       *)
(* active rows of a job.                                                    *)
InsertAllowed(j) ==
  /\ job[j] # "gone"
  /\ \A r \in RunId : runs[r].job = j => runs[r].status \notin Active

Insertable(j) == InsertAllowed(j) /\ \E r \in RunId : IsNextId(r)

(* create_pending_verification_run and the commit, then the start of task   *)
(* t; an error between the two leaves the row without one.                  *)
Create(t, j) ==
  \E r \in RunId :
    /\ IsNextId(r)
    /\ runs' = [runs EXCEPT ![r] = [NoRow EXCEPT !.job = j, !.status = "PENDING"]]
    /\ \/ task' = [task EXCEPT ![t] = Started(r)] /\ UNCHANGED <<orphans, faults>>
       \/ Fault /\ orphans' = orphans \cup {r} /\ UNCHANGED task

(* POST .../verify: 409 unless the job has a SQL instance ...               *)
AskVerify(j) ==
  /\ job[j] \in {"on", "off"}
  /\ passed' = passed \cup {<<"verify", j>>}
  /\ UNCHANGED <<job, recorded, runs, alert, task, worker, orphans, faults>>

(* ... and then the INSERT, which the index may refuse (409).               *)
PostVerify(t, j) ==
  /\ <<"verify", j>> \in passed
  /\ task[t].pc = "idle"
  /\ passed' = passed \ {<<"verify", j>>}
  /\ IF Insertable(j) THEN Create(t, j) ELSE UNCHANGED <<runs, task, orphans, faults>>
  /\ UNCHANGED <<job, recorded, alert, worker>>

----
(* execute_verification_run.                                                *)

(* raise_alert_if_absent: an ACTIVE alert stays as it is; the insert for a  *)
(* job that is gone breaks the foreign key and is dropped.                  *)
Raise(j, r, status) ==
  IF alert[j] = NoAlert /\ job[j] # "gone"
  THEN [alert EXCEPT ![j] = [run |-> r,
          severity |-> IF status \in {"CORRUPT", "MISSING"} THEN "CRITICAL" ELSE "WARNING"]]
  ELSE alert

Close(r, status) == [runs EXCEPT ![r] = [@ EXCEPT !.status = status, !.overdue = FALSE]]

Idle(t) == task' = [task EXCEPT ![t] = NoTask]

(* The row, its job and the newest record are read and noted on the row; no *)
(* record means MISSING without a connection.                               *)
Begin(t) ==
  LET r == task[t].run IN
  /\ task[t].pc = "begin"
  /\ \/ ~Present(r) /\ Idle(t)
     \/ /\ Present(r)
        /\ task' = [task EXCEPT ![t] = [@ EXCEPT
             !.job = runs[r].job,
             !.linked = job[runs[r].job] \in {"on", "off"},
             !.pc = IF runs[r].job \in recorded THEN "claim" ELSE "decided",
             !.verdict = "MISSING"]]
  /\ UNCHANGED <<job, recorded, runs, alert, worker, passed, orphans, faults>>

(* PENDING -> RUNNING, or hands off.  Without an instance, or with          *)
(* credentials that cannot be decrypted, an exception follows.              *)
Claim(t) ==
  LET r == task[t].run IN
  /\ task[t].pc = "claim"
  /\ \/ /\ runs[r].status = "PENDING"
        /\ runs' = [runs EXCEPT ![r].status = "RUNNING"]
        /\ \E pc \in {"calling", "failed"} :
             /\ pc = "calling" => task[t].linked
             /\ task' = [task EXCEPT ![t].pc = pc]
     \/ runs[r].status # "PENDING" /\ Idle(t) /\ UNCHANGED runs
  /\ UNCHANGED <<job, recorded, alert, worker, passed, orphans, faults>>

(* What the SQL client comes back with.  connect: Windows authentication,   *)
(* login and network errors; msdb: the newest backupset row; path: whether  *)
(* the disk path passes the allowlist; restore: RESTORE VERIFYONLY, where   *)
(* "device" is error 3201 or 5133 and "error" any other driver error.       *)
Reply == [connect: {"ok", "error"}, msdb: {"none", "damaged", "sound", "error"},
          path: {"ok", "refused"}, restore: {"ok", "device", "error", "lost"}]

Raised(reply) ==
  \/ reply.connect = "error"
  \/ reply.msdb = "error"
  \/ reply.path = "refused"
  \/ reply.restore = "lost"

(* The classification rules, in their order.                                *)
Classified(reply) ==
  CASE Raised(reply) -> "ERROR"
    [] reply.msdb = "none" -> "MISSING"
    [] reply.msdb = "damaged" -> "CORRUPT"
    [] reply.restore = "device" -> "ERROR"
    [] reply.restore = "error" -> "CORRUPT"
    [] OTHER -> "OK"

Answer(t) ==
  /\ task[t].pc = "calling"
  /\ \E reply \in Reply :
       task' = [task EXCEPT ![t] = [@ EXCEPT !.pc = "decided", !.verdict = Classified(reply)]]
  /\ UNCHANGED <<job, recorded, runs, alert, worker, passed, orphans, faults>>

(* Variant: the row count is not looked at.                                 *)
FinishUnseen(t) ==
  LET r == task[t].run IN
  /\ task[t].pc = "decided"
  /\ runs' = IF runs[r].status \in Active THEN Close(r, task[t].verdict) ELSE runs
  /\ task' = [task EXCEPT ![t].pc = "alert"]
  /\ UNCHANGED <<job, recorded, alert, worker, passed, orphans, faults>>

(* The verdict is written only to a row that is still active; otherwise     *)
(* someone closed it, and the task ends without touching the alert.         *)
Finish(t) ==
  LET r == task[t].run IN
  /\ task[t].pc = "decided"
  /\ \/ /\ runs[r].status \in Active
        /\ runs' = Close(r, task[t].verdict)
        /\ task' = [task EXCEPT ![t].pc = "alert"]
     \/ runs[r].status \notin Active /\ Idle(t) /\ UNCHANGED runs
  /\ UNCHANGED <<job, recorded, alert, worker, passed, orphans, faults>>

(* Step 5, a transaction of its own.                                        *)
RaiseOrResolve(t) ==
  LET e == task[t] IN
  /\ e.pc = "alert"
  /\ alert' = IF e.verdict = "OK" THEN [alert EXCEPT ![e.job] = NoAlert]
              ELSE Raise(e.job, e.run, e.verdict)
  /\ Idle(t)
  /\ UNCHANGED <<job, recorded, runs, worker, passed, orphans, faults>>

(* Any statement may raise; the except clause then tries to close the row.  *)
StepFails(t) ==
  /\ task[t].pc \in {"begin", "claim", "decided", "alert"}
  /\ Fault
  /\ task' = [task EXCEPT ![t].pc = "failed"]
  /\ UNCHANGED <<job, recorded, runs, alert, worker, passed, orphans>>

(* Variants: the except clause closes a row whatever its status, or only a  *)
(* RUNNING one.                                                             *)
StillThere(r) == Present(r)
StillRunning(r) == runs[r].status = "RUNNING"
StillOpen(r) == runs[r].status \in Active

(* _mark_run_error_best_effort: ERROR unless terminal, and no alert; if the *)
(* database is still failing the row stays as it is.                        *)
MarkError(t) ==
  LET r == task[t].run
      open == StillOpen(r) IN
  /\ task[t].pc = "failed"
  /\ Idle(t)
  /\ \/ runs' = (IF open THEN Close(r, "ERROR") ELSE runs) /\ UNCHANGED <<orphans, faults>>
     \/ Fault /\ orphans' = orphans \cup (IF open THEN {r} ELSE {}) /\ UNCHANGED runs
  /\ UNCHANGED <<job, recorded, alert, worker, passed>>

TaskStep(t) ==
  Begin(t) \/ Claim(t) \/ Answer(t) \/ Finish(t) \/ RaiseOrResolve(t) \/ MarkError(t)

----
(* The alert worker: in every tick check_stuck_verifications, and when the  *)
(* interval has passed the sweep, one job after the other.                  *)

(* Variant: the check looks at enabled jobs only.                           *)
StuckRowsOfEnabled ==
  {row \in RunId \X Job : runs[row[1]].overdue /\ runs[row[1]].job = row[2] /\ job[row[2]] = "on"}

(* The rows check_stuck_verifications selects.                              *)
StuckRows == {row \in RunId \X Job : runs[row[1]].overdue /\ runs[row[1]].job = row[2]}

StartTick ==
  /\ worker.phase = "idle"
  /\ worker' = [Resting EXCEPT !.phase = "stuck", !.rows = StuckRows]
  /\ UNCHANGED <<job, recorded, runs, alert, task, passed, orphans, faults>>

(* One selected row: RUNNING -> ERROR and the alert in one transaction.  An *)
(* error may undo both, or leave the UPDATE for the next row's commit.      *)
CloseStuck(r, j) ==
  LET running == runs[r].status = "RUNNING" IN
  /\ worker.phase = "stuck"
  /\ <<r, j>> \in worker.rows
  /\ worker' = [worker EXCEPT !.rows = @ \ {<<r, j>>}]
  /\ \/ /\ runs' = IF running THEN Close(r, "ERROR") ELSE runs
        /\ alert' = IF running THEN Raise(j, r, "ERROR") ELSE alert
        /\ UNCHANGED faults
     \/ /\ running /\ Fault
        /\ runs' \in {runs, Close(r, "ERROR")}
        /\ UNCHANGED alert
  /\ orphans' = {q \in orphans : runs'[q].status \in Active}
  /\ UNCHANGED <<job, recorded, task, passed>>

(* The sweep is due: the ids of the enabled jobs with an instance.          *)
SelectJobs ==
  /\ worker.phase = "stuck"
  /\ worker.rows = {}
  /\ worker' = [Resting EXCEPT !.phase = "verify", !.todo = {j \in Job : job[j] = "on"}]
  /\ UNCHANGED <<job, recorded, runs, alert, task, passed, orphans, faults>>

(* The next job of the sweep; a job that has an active run is skipped.  The *)
(* worker then executes the run itself, and waits for it.                   *)
VerifyNext(j) ==
  /\ worker.phase = "verify"
  /\ task["worker"].pc = "idle"
  /\ j \in worker.todo
  /\ worker' = [worker EXCEPT !.todo = @ \ {j}]
  /\ IF Insertable(j) THEN Create("worker", j) ELSE UNCHANGED <<runs, task, orphans, faults>>
  /\ UNCHANGED <<job, recorded, alert, passed>>

(* The tick is over, because the sweep is done or was not due.              *)
EndTick ==
  /\ worker.phase # "idle"
  /\ worker.rows = {} /\ worker.todo = {} /\ task["worker"].pc = "idle"
  /\ worker' = Resting
  /\ UNCHANGED <<job, recorded, runs, alert, task, passed, orphans, faults>>

WorkerStep ==
  \/ StartTick
  \/ \E r \in RunId, j \in Job : CloseStuck(r, j)
  \/ SelectJobs
  \/ \E j \in Job : VerifyNext(j)
  \/ EndTick

----
(* Time, administrators, and the end of the process.                        *)

Overdue(r) ==
  /\ runs[r].status = "RUNNING"
  /\ ~runs[r].overdue
  /\ runs' = [runs EXCEPT ![r].overdue = TRUE]
  /\ UNCHANGED <<job, recorded, alert, task, worker, passed, orphans, faults>>

(* The first backup of the job is recorded.                                 *)
RecordArrives(j) ==
  /\ job[j] # "gone"
  /\ j \notin recorded
  /\ recorded' = recorded \cup {j}
  /\ UNCHANGED <<job, runs, alert, task, worker, passed, orphans, faults>>

(* PATCH of is_enabled and sql_instance_id; active verifications are not    *)
(* looked at.                                                               *)
PatchJob(j) ==
  /\ job[j] # "gone"
  /\ job' \in {[job EXCEPT ![j] = s] : s \in Setting \ {job[j]}}
  /\ UNCHANGED <<recorded, runs, alert, task, worker, passed, orphans, faults>>

(* DELETE of a job is refused while it has an active run ...                *)
AskDelete(j) ==
  /\ InsertAllowed(j)
  /\ passed' = passed \cup {<<"delete", j>>}
  /\ UNCHANGED <<job, recorded, runs, alert, task, worker, orphans, faults>>

(* ... but a run created since goes with the job, like every row of it.     *)
(* The alert's foreign key becomes NULL: no handler finds it again.         *)
DeleteJob(j) ==
  /\ <<"delete", j>> \in passed
  /\ job' = [job EXCEPT ![j] = "gone"]
  /\ recorded' = recorded \ {j}
  /\ runs' = [r \in RunId |-> IF runs[r].job = j THEN NoRow ELSE runs[r]]
  /\ alert' = [alert EXCEPT ![j] = NoAlert]
  /\ orphans' = {r \in orphans : runs[r].job # j}
  /\ passed' = passed \ {<<"delete", j>>}
  /\ UNCHANGED <<task, worker, faults>>

(* An administrator acknowledges or resolves the alert.                     *)
OperatorClears(j) ==
  /\ alert[j] # NoAlert
  /\ alert' = [alert EXCEPT ![j] = NoAlert]
  /\ UNCHANGED <<job, recorded, runs, task, worker, passed, orphans, faults>>

(* The backend stops and starts: every task and the worker's place in its   *)
(* tick are lost, the tables stay.                                          *)
Crash ==
  /\ Fault
  /\ task' = [t \in Task |-> NoTask]
  /\ worker' = Resting
  /\ passed' = {}
  /\ orphans' = {r \in RunId : runs[r].status \in Active}
  /\ UNCHANGED <<job, recorded, runs, alert>>

Administration ==
  \E j \in Job :
    \/ AskVerify(j)
    \/ \E t \in ApiTask : PostVerify(t, j)
    \/ RecordArrives(j)
    \/ PatchJob(j)
    \/ AskDelete(j)
    \/ DeleteJob(j)
    \/ OperatorClears(j)

Next ==
  \/ \E t \in Task : TaskStep(t) \/ StepFails(t)
  \/ WorkerStep
  \/ \E r \in RunId : Overdue(r)
  \/ Administration
  \/ Crash

(* Task t waits for the SQL client, perhaps for ever: only the login and    *)
(* RESTORE VERIFYONLY have a timeout, and the query of msdb, which comes in *)
(* between, has none.                                                       *)
Calls(t) == task[t].pc = "calling"

(* The event loop runs every task and the worker on, and time passes.       *)
(* Nothing obliges administrators, nor the SQL Server to answer.            *)
Fairness ==
  /\ \A t \in Task : WF_vars(TaskStep(t) /\ ~Calls(t))
  /\ WF_vars(WorkerStep)
  /\ \A r \in RunId : WF_vars(Overdue(r))

Spec == Init /\ [][Next]_vars
FairSpec == Spec /\ Fairness

----
(* Properties.                                                              *)

(* The type invariant, with the facts that make rows and tasks meaningful:  *)
(* a row belongs to a job that exists, a task beyond its first step knows   *)
(* its job, and the except clause never runs for a task without a run.      *)
TypeOK ==
  /\ job \in [Job -> JobState]
  /\ recorded \subseteq Job
  /\ runs \in [RunId -> Row]
  /\ alert \in [Job -> Alert \cup {NoAlert}]
  /\ task \in [Task -> Execution]
  /\ worker \in Worker
  /\ passed \subseteq {"verify", "delete"} \X Job
  /\ orphans \subseteq RunId
  /\ faults \in 0 .. FaultLimit
  /\ \A r \in RunId : Present(r) <=> runs[r].job \in Job
  /\ \A r \in RunId : Present(r) => job[runs[r].job] # "gone"
  /\ \A r \in RunId : runs[r].overdue => runs[r].status = "RUNNING"
  /\ \A t \in Task : task[t].pc # "idle" => task[t].run \in RunId
  /\ \A t \in Task : task[t].pc \in {"claim", "calling", "decided", "alert"} => task[t].job \in Job

(* What an ACTIVE alert says is what the table says: the run it names ended *)
(* with a verdict that is not OK, and CRITICAL stands for CORRUPT and       *)
(* MISSING.  Alert and verdict are written by two transactions and by three *)
(* writers (the task, its except clause, check_stuck_verifications).        *)
AlertTellsTheVerdict ==
  \A j \in Job : alert[j] # NoAlert =>
    LET r == alert[j].run IN
    /\ runs[r].job = j
    /\ runs[r].status \in Terminal \ {"OK"}
    /\ alert[j].severity = "CRITICAL" <=> runs[r].status \in {"CORRUPT", "MISSING"}

(* A verdict is final: late answers, the except clause and the stuck check  *)
(* leave it alone, and a row only ever leaves with its job.                 *)
TerminalIsFinal ==
  [][\A r \in RunId : runs[r].status \in Terminal =>
       runs'[r] = runs[r] \/ (runs'[r] = NoRow /\ job'[runs[r].job] = "gone")]_vars

(* A RUNNING verification ends, whatever becomes of its task, be it that    *)
(* its call never returns: nothing blocks the next one of the job for ever. *)
(* Except if that happens to the worker: it waits for the runs of its sweep *)
(* itself, so a call of the sweep that hangs for good ends all ticks, and   *)
(* nobody looks for stuck verifications any more.                           *)
RunningEnds ==
  \/ <>[]Calls("worker")
  \/ \A r \in RunId : runs[r].status = "RUNNING" ~> runs[r].status # "RUNNING"

(* A PENDING verification ends or starts, unless a crash or an error left   *)
(* it without a task: nobody looks for PENDING rows, so such a row stays,   *)
(* and blocks every later verification of its job.                          *)
PendingEnds ==
  \A r \in RunId : runs[r].status = "PENDING" ~> runs[r].status # "PENDING" \/ r \in orphans

(* Verification runs have the life cycle of RunLifecycle: opened for a job  *)
(* without an open run, closed once, forgotten with their job.              *)
Phase(r) ==
  CASE runs[r].status = "ABSENT" -> "absent"
    [] runs[r].status = "PENDING" -> "waiting"
    [] runs[r].status = "RUNNING" -> "started"
    [] OTHER -> runs[r].status

Lifecycle == INSTANCE RunLifecycle WITH
  Outcome <- Terminal,
  phase <- [r \in RunId |-> Phase(r)],
  owner <- [r \in RunId |-> runs[r].job],
  taken <- {}

ImplementsLifecycle == Lifecycle!DeletingSpec

====
