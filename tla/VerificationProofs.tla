---- MODULE VerificationProofs ----
(***************************************************************************)
(* Proofs about Verification.tla, for any number of jobs, runs, tasks and   *)
(* faults.                                                                  *)
(*                                                                          *)
(* Ids are used again after a job is deleted, so a task, or the worker, may *)
(* hold the id of a row that by now belongs to another job.  The invariant  *)
(* says that this happens only once the job it knows is gone, and then its  *)
(* alerts go nowhere.                                                       *)
(***************************************************************************)
EXTENDS Verification, TLAPS

Knowing == {"claim", "calling", "decided", "alert"}

(* The row a task works on is its job's, or the job is gone.                *)
TaskKnowsItsJob ==
  \A t \in Task : task[t].pc \in Knowing =>
    job[task[t].job] = "gone" \/ runs[task[t].run].job = task[t].job

(* Before the alert of step 5 the verdict is on the row.                    *)
VerdictIsWritten ==
  \A t \in Task : task[t].pc = "alert" =>
    job[task[t].job] = "gone" \/ runs[task[t].run].status = task[t].verdict

(* The same for the rows check_stuck_verifications has selected.            *)
WorkerKnowsTheJobs ==
  \A r \in RunId, j \in Job : <<r, j>> \in worker.rows => job[j] = "gone" \/ runs[r].job = j

(* The inductive invariant.                                                 *)
IInv ==
  /\ TypeOK
  /\ TaskKnowsItsJob
  /\ VerdictIsWritten
  /\ WorkerKnowsTheJobs
  /\ AlertTellsTheVerdict

----
(* Records.                                                                 *)

LEMMA NoRowFields ==
  /\ NoRow \in Row
  /\ NoRow.job = NoJob /\ NoRow.status = "ABSENT" /\ NoRow.overdue = FALSE
  BY DEF NoRow, Row

LEMMA NoTaskFields ==
  /\ NoTask \in Execution
  /\ NoTask.pc = "idle"
  BY DEF NoTask, Execution, Terminal

LEMMA StartedFields ==
  ASSUME NEW r \in RunId
  PROVE  /\ Started(r) \in Execution
         /\ Started(r).pc = "begin" /\ Started(r).run = r
  BY DEF Started, NoTask, Execution, Terminal

LEMMA RestingFields ==
  /\ Resting \in Worker
  /\ Resting.rows = {}
  BY DEF Resting, Worker

LEMMA NewRowFields ==
  ASSUME NEW j \in Job
  PROVE  LET n == [NoRow EXCEPT !.job = j, !.status = "PENDING"]
         IN  /\ n \in Row
             /\ n.job = j /\ n.status = "PENDING" /\ n.overdue = FALSE
  BY DEF NoRow, Row, Active

----
(* What a step does to jobs and to rows.                                    *)

Append(r, j) ==
  /\ IsNextId(r) /\ InsertAllowed(j)
  /\ runs' = [runs EXCEPT ![r] = [NoRow EXCEPT !.job = j, !.status = "PENDING"]]
  /\ UNCHANGED job

Start(r) ==
  /\ runs[r].status = "PENDING"
  /\ runs' = [runs EXCEPT ![r] = [@ EXCEPT !.status = "RUNNING"]]
  /\ UNCHANGED job

Age(r) ==
  /\ runs[r].status = "RUNNING"
  /\ runs' = [runs EXCEPT ![r] = [@ EXCEPT !.overdue = TRUE]]
  /\ UNCHANGED job

End(r, s) ==
  /\ runs[r].status \in Active
  /\ runs' = Close(r, s)
  /\ UNCHANGED job

Drop(j) ==
  /\ job' = [job EXCEPT ![j] = "gone"]
  /\ runs' = [r \in RunId |-> IF runs[r].job = j THEN NoRow ELSE runs[r]]

(* The rows stay, and at most a job that is not gone changes.               *)
Keep ==
  /\ UNCHANGED runs
  /\ \/ UNCHANGED job
     \/ \E j \in Job, s \in Setting : job[j] # "gone" /\ job' = [job EXCEPT ![j] = s]

RowStep ==
  \/ \E r \in RunId :
       \/ \E j \in Job : Append(r, j)
       \/ Start(r)
       \/ Age(r)
       \/ \E s \in Terminal : End(r, s)
  \/ \E j \in Job : Drop(j)
  \/ Keep

LEMMA CreateAppends ==
  ASSUME NEW t, NEW j \in Job, InsertAllowed(j), Create(t, j), UNCHANGED job
  PROVE  RowStep
  BY DEF Create, RowStep, Append

LEMMA TaskRowStep ==
  ASSUME TypeOK, NEW t \in Task, TaskStep(t) \/ StepFails(t)
  PROVE  RowStep
<1> DEFINE r == task[t].run
<1>1. task[t].pc # "idle" => r \in RunId
  BY DEF TypeOK
<1>2. task[t].verdict \in Terminal
  BY DEF TypeOK, Execution
<1>3. CASE Begin(t) \/ Answer(t) \/ RaiseOrResolve(t) \/ StepFails(t)
  BY <1>3 DEF Begin, Answer, RaiseOrResolve, StepFails, RowStep, Keep
<1>4. CASE Claim(t)
  <2>1. CASE UNCHANGED runs
    BY <1>4, <2>1 DEF Claim, RowStep, Keep
  <2>2. CASE runs[r].status = "PENDING" /\ runs' = [runs EXCEPT ![r].status = "RUNNING"]
    BY <1>1, <1>4, <2>2 DEF Claim, RowStep, Start
  <2>3. QED
    BY <1>4, <2>1, <2>2 DEF Claim
<1>5. CASE Finish(t)
  BY <1>1, <1>2, <1>5 DEF Finish, RowStep, End, Keep
<1>6. CASE MarkError(t)
  <2>1. "ERROR" \in Terminal
    BY DEF Terminal
  <2>2. QED
    BY <1>1, <1>6, <2>1 DEF MarkError, StillOpen, RowStep, End, Keep
<1>7. QED
  BY <1>3, <1>4, <1>5, <1>6 DEF TaskStep

LEMMA NextRowStep ==
  ASSUME TypeOK, [Next]_vars
  PROVE  RowStep
<1>1. CASE \E t \in Task : TaskStep(t) \/ StepFails(t)
  BY <1>1, TaskRowStep
<1>2. CASE WorkerStep
  <2>1. CASE StartTick \/ SelectJobs \/ EndTick
    BY <2>1 DEF StartTick, SelectJobs, EndTick, RowStep, Keep
  <2>2. CASE \E r \in RunId, j \in Job : CloseStuck(r, j)
    <3>1. PICK r \in RunId, j \in Job : CloseStuck(r, j)
      BY <2>2
    <3>2. "ERROR" \in Terminal /\ "RUNNING" \in Active
      BY DEF Terminal, Active
    <3>3. /\ UNCHANGED job
          /\ UNCHANGED runs \/ (runs[r].status = "RUNNING" /\ runs' = Close(r, "ERROR"))
      BY <3>1 DEF CloseStuck
    <3>4. QED
      BY <3>2, <3>3 DEF RowStep, End, Keep
  <2>3. CASE \E j \in Job : VerifyNext(j)
    BY <2>3, CreateAppends DEF VerifyNext, Insertable, RowStep, Keep
  <2>4. QED
    BY <1>2, <2>1, <2>2, <2>3 DEF WorkerStep
<1>3. CASE \E r \in RunId : Overdue(r)
  BY <1>3 DEF Overdue, RowStep, Age
<1>4. CASE Administration
  <2>1. PICK j \in Job :
          \/ \E t \in ApiTask : PostVerify(t, j)
          \/ AskVerify(j) \/ RecordArrives(j) \/ AskDelete(j) \/ OperatorClears(j)
          \/ PatchJob(j)
          \/ DeleteJob(j)
    BY <1>4 DEF Administration
  <2>2. CASE \E t \in ApiTask : PostVerify(t, j)
    BY <2>2, CreateAppends DEF PostVerify, Insertable, RowStep, Keep
  <2>3. CASE AskVerify(j) \/ RecordArrives(j) \/ AskDelete(j) \/ OperatorClears(j)
    BY <2>3 DEF AskVerify, RecordArrives, AskDelete, OperatorClears, RowStep, Keep
  <2>4. CASE PatchJob(j)
    BY <2>4 DEF PatchJob, RowStep, Keep
  <2>5. CASE DeleteJob(j)
    BY <2>5 DEF DeleteJob, RowStep, Drop
  <2>6. QED
    BY <2>1, <2>2, <2>3, <2>4, <2>5
<1>5. CASE Crash \/ UNCHANGED vars
  BY <1>5 DEF Crash, vars, RowStep, Keep
<1>6. QED
  BY <1>1, <1>2, <1>3, <1>4, <1>5 DEF Next

(* The part of TypeOK that is about jobs and rows.                          *)
RowsOK ==
  /\ job \in [Job -> JobState]
  /\ runs \in [RunId -> Row]
  /\ \A r \in RunId : Present(r) <=> runs[r].job \in Job
  /\ \A r \in RunId : Present(r) => job[runs[r].job] # "gone"
  /\ \A r \in RunId : runs[r].overdue => runs[r].status = "RUNNING"

LEMMA RowsStayOK ==
  ASSUME RowsOK, RowStep
  PROVE  RowsOK'
<1> USE VerificationAssumption
<1>0. Active \subseteq {"PENDING", "RUNNING"} /\ "ABSENT" \notin Active \cup Terminal
  BY DEF Active, Terminal
<1>1. ASSUME NEW r \in RunId, NEW j \in Job, Append(r, j)
      PROVE  RowsOK'
  <2> DEFINE n == [NoRow EXCEPT !.job = j, !.status = "PENDING"]
  <2>1. n \in Row /\ n.job = j /\ n.status = "PENDING" /\ n.overdue = FALSE
    BY NewRowFields
  <2>2. runs' = [runs EXCEPT ![r] = n] /\ job' = job /\ job[j] # "gone"
    BY <1>1 DEF Append, InsertAllowed
  <2> HIDE DEF n
  <2>3. QED
    BY <2>1, <2>2 DEF RowsOK, Present
<1>2. ASSUME NEW r \in RunId, NEW n \in Row, runs[r].status \in Active,
             n.job = runs[r].job, n.status \in Active \cup Terminal,
             n.overdue => n.status = "RUNNING",
             runs' = [runs EXCEPT ![r] = n], UNCHANGED job
      PROVE  RowsOK'
  BY <1>0, <1>2 DEF RowsOK, Present
<1>3. ASSUME NEW r \in RunId, Start(r) \/ Age(r) \/ \E s \in Terminal : End(r, s)
      PROVE  RowsOK'
  <2>1. runs[r] \in Row /\ (runs[r].overdue => runs[r].status = "RUNNING")
    BY DEF RowsOK
  <2>2. CASE Start(r)
    <3> DEFINE n == [runs[r] EXCEPT !.status = "RUNNING"]
    <3>1. n \in Row /\ n.job = runs[r].job /\ n.status = "RUNNING"
      BY <2>1 DEF Row, Active
    <3>2. runs' = [runs EXCEPT ![r] = n] /\ runs[r].status \in Active /\ UNCHANGED job
      BY <2>2 DEF Start, Active
    <3>3. n.status \in Active \cup Terminal
      BY <3>1 DEF Active
    <3> HIDE DEF n
    <3>4. QED
      BY <1>2, <3>1, <3>2, <3>3
  <2>3. CASE Age(r)
    <3> DEFINE n == [runs[r] EXCEPT !.overdue = TRUE]
    <3>1. n \in Row /\ n.job = runs[r].job /\ n.status = runs[r].status
      BY <2>1 DEF Row
    <3>2. runs' = [runs EXCEPT ![r] = n] /\ runs[r].status = "RUNNING" /\ UNCHANGED job
      BY <2>3 DEF Age
    <3>3. runs[r].status \in Active
      BY <3>2 DEF Active
    <3> HIDE DEF n
    <3>4. QED
      BY <1>2, <3>1, <3>2, <3>3
  <2>4. CASE \E s \in Terminal : End(r, s)
    <3>1. PICK s \in Terminal : End(r, s)
      BY <2>4
    <3> DEFINE n == [runs[r] EXCEPT !.status = s, !.overdue = FALSE]
    <3>2. n \in Row /\ n.job = runs[r].job /\ n.status = s /\ n.overdue = FALSE
      BY <2>1 DEF Row
    <3>3. runs' = [runs EXCEPT ![r] = n] /\ runs[r].status \in Active /\ UNCHANGED job
      BY <3>1 DEF End, Close
    <3> HIDE DEF n
    <3>4. QED
      BY <1>2, <3>2, <3>3
  <2>5. QED
    BY <1>3, <2>2, <2>3, <2>4
<1>4. ASSUME NEW j \in Job, Drop(j)
      PROVE  RowsOK'
  <2>1. \A r \in RunId : runs'[r] = IF runs[r].job = j THEN NoRow ELSE runs[r]
    BY <1>4 DEF Drop
  <2>2. runs' \in [RunId -> Row] /\ job' \in [Job -> JobState]
    BY <1>4, NoRowFields DEF Drop, RowsOK, JobState
  <2>3. \A k \in Job \ {j} : job'[k] = job[k]
    BY <1>4 DEF Drop, RowsOK
  <2>4. QED
    BY <2>1, <2>2, <2>3, NoRowFields DEF RowsOK, Present
<1>5. CASE Keep
  <2>1. job' \in [Job -> JobState] /\ \A j \in Job : job'[j] = "gone" <=> job[j] = "gone"
    BY <1>5 DEF Keep, RowsOK, JobState
  <2>2. QED
    BY <1>5, <2>1 DEF Keep, RowsOK, Present
<1>6. QED
  BY <1>1, <1>3, <1>4, <1>5 DEF RowStep

(* What stays of a row: a job that is gone stays gone, a row keeps its job  *)
(* while the job exists, and a closed row does not change.                  *)
LEMMA RowEffect ==
  ASSUME RowsOK, RowStep
  PROVE  /\ \A j \in Job : job[j] = "gone" => job'[j] = "gone"
         /\ \A r \in RunId : runs[r].job \in Job =>
              job'[runs[r].job] = "gone" \/ runs'[r].job = runs[r].job
         /\ \A r \in RunId : runs[r].status \in Terminal =>
              runs'[r] = runs[r] \/ (runs'[r] = NoRow /\ job'[runs[r].job] = "gone")
<1>0. "ABSENT" \notin Active \cup Terminal /\ Active \cap Terminal = {}
  BY DEF Active, Terminal
<1>1. ASSUME NEW r \in RunId, NEW j \in Job, Append(r, j)
      PROVE  /\ UNCHANGED job
             /\ \A q \in RunId : Present(q) => runs'[q] = runs[q]
  <2>1. ~Present(r)
    BY <1>1, VerificationAssumption DEF Append, IsNextId, RunId
  <2>2. QED
    BY <1>1, <2>1 DEF Append, RowsOK
<1>2. ASSUME NEW r \in RunId, Start(r) \/ Age(r) \/ \E s \in Terminal : End(r, s)
      PROVE  /\ UNCHANGED job
             /\ runs[r].status \in Active
             /\ runs'[r].job = runs[r].job
             /\ \A q \in RunId \ {r} : runs'[q] = runs[q]
  BY <1>2 DEF Start, Age, End, Close, RowsOK, Row, Active
<1>3. ASSUME NEW j \in Job, Drop(j)
      PROVE  /\ job'[j] = "gone"
             /\ \A k \in Job \ {j} : job'[k] = job[k]
             /\ \A q \in RunId : runs'[q] = IF runs[q].job = j THEN NoRow ELSE runs[q]
  BY <1>3 DEF Drop, RowsOK
<1>4. CASE Keep
  BY <1>4 DEF Keep, RowsOK
<1>5. CASE \E r \in RunId, j \in Job : Append(r, j)
  BY <1>0, <1>1, <1>5 DEF RowsOK, Present
<1>6. CASE \E r \in RunId : Start(r) \/ Age(r) \/ \E s \in Terminal : End(r, s)
  BY <1>0, <1>2, <1>6 DEF RowsOK
<1>7. CASE \E j \in Job : Drop(j)
  BY <1>3, <1>7 DEF RowsOK
<1>8. QED
  BY <1>4, <1>5, <1>6, <1>7 DEF RowStep

----
(* What a step does to one execution.                                       *)

Notes(t) ==
  /\ task[t].pc = "begin" /\ task'[t].pc \in {"claim", "decided"}
  /\ Present(task[t].run) /\ task'[t].job = runs[task[t].run].job
  /\ UNCHANGED <<job, runs>>

GoesOn(t) ==
  /\ task[t].pc \in {"claim", "calling"} /\ task'[t].pc \in {"calling", "decided"}
  /\ task'[t].job = task[t].job

Writes(t) ==
  /\ task[t].pc = "decided" /\ task'[t].pc = "alert"
  /\ task'[t].job = task[t].job /\ task'[t].verdict = task[t].verdict
  /\ End(task[t].run, task[t].verdict)

TaskMove(t) ==
  \/ task'[t] = task[t]
  \/ task'[t] = NoTask
  \/ \E r \in RunId : task'[t] = Started(r)
  \/ /\ task'[t] \in Execution
     /\ task[t].pc # "idle" /\ task'[t].run = task[t].run
     /\ task'[t].pc = "failed" \/ Notes(t) \/ GoesOn(t) \/ Writes(t)

LEMMA StepMove ==
  ASSUME TypeOK, NEW t \in Task, TaskStep(t) \/ StepFails(t)
  PROVE  TaskMove(t)
<1>1. /\ task \in [Task -> Execution] /\ task[t] \in Execution
      /\ runs \in [RunId -> Row]
      /\ task[t].pc # "idle" => task[t].run \in RunId
  BY DEF TypeOK
<1>2. CASE Begin(t)
  <2> DEFINE r == task[t].run
             n == [task[t] EXCEPT !.job = runs[r].job, !.linked = job[runs[r].job] \in {"on", "off"},
                     !.pc = IF runs[r].job \in recorded THEN "claim" ELSE "decided",
                     !.verdict = "MISSING"]
  <2>1. CASE ~Present(r)
    BY <1>1, <1>2, <2>1 DEF Begin, Idle, TaskMove
  <2>2. CASE Present(r)
    <3>1. task'[t] = n
      BY <1>1, <1>2, <2>2 DEF Begin
    <3>2. /\ n \in Execution /\ n.run = r /\ n.job = runs[r].job
          /\ n.pc \in {"claim", "decided"}
      <4> DEFINE linked == job[runs[r].job] \in {"on", "off"}
                 pc == IF runs[r].job \in recorded THEN "claim" ELSE "decided"
      <4>1. /\ linked \in BOOLEAN /\ pc \in {"claim", "decided"}
            /\ runs[r].job \in Job \cup {NoJob} /\ "MISSING" \in Terminal
        BY <1>1, <1>2 DEF Begin, Row, Terminal
      <4>2. n = [task[t] EXCEPT !.job = runs[r].job, !.linked = linked, !.pc = pc,
                   !.verdict = "MISSING"]
        OBVIOUS
      <4> HIDE DEF linked, pc, n
      <4>3. QED
        BY <1>1, <4>1, <4>2 DEF Execution
    <3>3. Notes(t)
      BY <1>2, <2>2, <3>1, <3>2 DEF Begin, Notes
    <3>4. QED
      BY <1>2, <3>1, <3>2, <3>3 DEF Begin, TaskMove
  <2>3. QED
    BY <2>1, <2>2
<1>3. CASE Claim(t)
  <2>1. CASE \E pc \in {"calling", "failed"} : task' = [task EXCEPT ![t].pc = pc]
    <3>1. PICK pc \in {"calling", "failed"} : task' = [task EXCEPT ![t].pc = pc]
      BY <2>1
    <3>2. task'[t] = [task[t] EXCEPT !.pc = pc]
      BY <1>1, <3>1
    <3>3. task'[t] \in Execution /\ task'[t].pc = pc
          /\ task'[t].run = task[t].run /\ task'[t].job = task[t].job
      BY <1>1, <3>2 DEF Execution
    <3>4. QED
      BY <1>3, <3>3 DEF Claim, TaskMove, GoesOn
  <2>2. CASE Idle(t)
    BY <1>1, <2>2 DEF Idle, TaskMove
  <2>3. QED
    BY <1>3, <2>1, <2>2 DEF Claim
<1>4. CASE Answer(t)
  <2>1. PICK reply \in Reply :
          task' = [task EXCEPT ![t] = [@ EXCEPT !.pc = "decided", !.verdict = Classified(reply)]]
    BY <1>4 DEF Answer
  <2>2. Classified(reply) \in Terminal
    BY DEF Classified, Terminal
  <2>3. /\ task'[t] \in Execution /\ task'[t].pc = "decided"
        /\ task'[t].run = task[t].run /\ task'[t].job = task[t].job
    BY <1>1, <2>1, <2>2 DEF Execution
  <2>4. QED
    BY <1>4, <2>3 DEF Answer, TaskMove, GoesOn
<1>5. CASE Finish(t)
  <2>1. CASE /\ runs[task[t].run].status \in Active
             /\ runs' = Close(task[t].run, task[t].verdict)
             /\ task' = [task EXCEPT ![t].pc = "alert"]
    <3>1. /\ task'[t] \in Execution /\ task'[t].pc = "alert"
          /\ task'[t].run = task[t].run /\ task'[t].job = task[t].job
          /\ task'[t].verdict = task[t].verdict
      BY <1>1, <2>1 DEF Execution
    <3>2. QED
      BY <1>5, <2>1, <3>1 DEF Finish, TaskMove, Writes, End
  <2>2. CASE Idle(t)
    BY <1>1, <2>2 DEF Idle, TaskMove
  <2>3. QED
    BY <1>5, <2>1, <2>2 DEF Finish
<1>6. CASE RaiseOrResolve(t) \/ MarkError(t)
  <2>1. Idle(t)
    BY <1>6 DEF RaiseOrResolve, MarkError
  <2>2. QED
    BY <1>1, <2>1 DEF Idle, TaskMove
<1>7. CASE StepFails(t)
  <2>1. /\ task'[t] \in Execution /\ task'[t].pc = "failed"
        /\ task'[t].run = task[t].run
    BY <1>1, <1>7 DEF StepFails, Execution
  <2>2. task[t].pc # "idle"
    BY <1>7 DEF StepFails
  <2>3. QED
    BY <2>1, <2>2 DEF TaskMove
<1>8. QED
  BY <1>2, <1>3, <1>4, <1>5, <1>6, <1>7 DEF TaskStep

LEMMA OthersRest ==
  ASSUME TypeOK, NEW t \in Task, TaskStep(t) \/ StepFails(t)
  PROVE  /\ task' \in [Task -> Execution]
         /\ \A u \in Task \ {t} : task'[u] = task[u]
<1>1. PICK x : task' = [task EXCEPT ![t] = x]
  BY DEF TypeOK, TaskStep, Begin, Claim, Answer, Finish, RaiseOrResolve, MarkError, Idle, StepFails
<1>2. x \in Execution
  <2>1. task'[t] = x
    BY <1>1 DEF TypeOK
  <2>2. QED
    BY <2>1, StepMove, NoTaskFields, StartedFields DEF TaskMove, TypeOK
<1>3. QED
  BY <1>1, <1>2 DEF TypeOK

LEMMA CreateStarts ==
  ASSUME TypeOK, NEW t \in Task, NEW j \in Job, Create(t, j)
  PROVE  /\ task' \in [Task -> Execution]
         /\ \A u \in Task : task'[u] = task[u] \/ \E r \in RunId : task'[u] = Started(r)
         /\ orphans' \subseteq RunId
         /\ faults' \in 0 .. FaultLimit
  BY StartedFields, VerificationAssumption DEF Create, TypeOK, Fault

(* Every step moves every execution in one of these ways.                   *)
LEMMA NextTaskMove ==
  ASSUME TypeOK, [Next]_vars
  PROVE  task' \in [Task -> Execution] /\ \A t \in Task : TaskMove(t)
<1>1. CASE \E t \in Task : TaskStep(t) \/ StepFails(t)
  BY <1>1, StepMove, OthersRest DEF TaskMove
<1>2. CASE WorkerStep
  <2>1. CASE \E j \in Job : VerifyNext(j)
    BY <2>1, CreateStarts DEF VerifyNext, TaskMove, Task, TypeOK
  <2>2. CASE UNCHANGED task
    BY <2>2 DEF TaskMove, TypeOK
  <2>3. QED
    BY <1>2, <2>1, <2>2 DEF WorkerStep, StartTick, CloseStuck, SelectJobs, EndTick
<1>3. CASE Administration
  <2>1. CASE \E j \in Job, t \in ApiTask : PostVerify(t, j)
    BY <2>1, CreateStarts DEF PostVerify, TaskMove, Task, TypeOK
  <2>2. CASE UNCHANGED task
    BY <2>2 DEF TaskMove, TypeOK
  <2>3. QED
    BY <1>3, <2>1, <2>2
    DEF Administration, AskVerify, RecordArrives, PatchJob, AskDelete, DeleteJob, OperatorClears
<1>4. CASE Crash
  BY <1>4, NoTaskFields DEF Crash, TaskMove
<1>5. CASE UNCHANGED task
  BY <1>5 DEF TaskMove, TypeOK
<1>6. QED
  BY <1>1, <1>2, <1>3, <1>4, <1>5 DEF Next, Overdue, vars

(* Executions stay well formed and know their job.                          *)
LEMMA TaskKeeps ==
  ASSUME IInv, [Next]_vars
  PROVE  /\ task' \in [Task -> Execution]
         /\ \A t \in Task : task'[t].pc # "idle" => task'[t].run \in RunId
         /\ \A t \in Task : task'[t].pc \in Knowing => task'[t].job \in Job
         /\ TaskKnowsItsJob'
         /\ VerdictIsWritten'
<1>0. TypeOK /\ RowsOK /\ RowStep
  BY NextRowStep DEF IInv, TypeOK, RowsOK
<1>1. /\ \A j \in Job : job[j] = "gone" => job'[j] = "gone"
      /\ \A r \in RunId : runs[r].job \in Job =>
           job'[runs[r].job] = "gone" \/ runs'[r].job = runs[r].job
      /\ \A r \in RunId : runs[r].status \in Terminal =>
           runs'[r] = runs[r] \/ (runs'[r] = NoRow /\ job'[runs[r].job] = "gone")
  BY <1>0, RowEffect
<1>2. ASSUME NEW t \in Task
      PROVE  /\ task'[t].pc # "idle" => task'[t].run \in RunId
             /\ task'[t].pc \in Knowing =>
                  /\ task'[t].job \in Job
                  /\ job'[task'[t].job] = "gone" \/ runs'[task'[t].run].job = task'[t].job
             /\ task'[t].pc = "alert" =>
                  \/ job'[task'[t].job] = "gone"
                  \/ runs'[task'[t].run].status = task'[t].verdict
  <2> DEFINE r == task[t].run
  <2>0. /\ task[t].pc # "idle" => r \in RunId
        /\ task[t].pc \in Knowing =>
             /\ r \in RunId /\ task[t].job \in Job
             /\ job[task[t].job] = "gone" \/ runs[r].job = task[t].job
        /\ task[t].pc = "alert" => job[task[t].job] = "gone" \/ runs[r].status = task[t].verdict
        /\ task[t].verdict \in Terminal
    BY DEF IInv, TypeOK, TaskKnowsItsJob, VerdictIsWritten, Knowing, Execution
  <2>1. CASE task'[t] = task[t]
    <3>1. task[t].pc \in Knowing =>
            job'[task[t].job] = "gone" \/ runs'[r].job = task[t].job
      BY <1>1, <2>0
    <3>2. task[t].pc = "alert" =>
            job'[task[t].job] = "gone" \/ runs'[r].status = task[t].verdict
      <4> SUFFICES ASSUME task[t].pc = "alert", job'[task[t].job] # "gone"
                   PROVE  runs'[r].status = task[t].verdict
        OBVIOUS
      <4>1. job[task[t].job] # "gone" /\ r \in RunId /\ task[t].job \in Job
        BY <1>1, <2>0 DEF Knowing
      <4>2. runs[r].job = task[t].job /\ runs[r].status = task[t].verdict
        BY <2>0, <4>1 DEF Knowing
      <4>3. QED
        BY <1>1, <2>0, <4>1, <4>2
    <3>3. QED
      BY <2>0, <2>1, <3>1, <3>2
  <2>2. CASE task'[t] = NoTask
    BY <2>2, NoTaskFields DEF Knowing
  <2>3. CASE \E q \in RunId : task'[t] = Started(q)
    BY <2>3, StartedFields DEF Knowing
  <2>4. CASE task[t].pc # "idle" /\ task'[t].run = r /\ task'[t].pc = "failed"
    BY <2>0, <2>4 DEF Knowing
  <2>5. CASE task'[t].run = r /\ Notes(t)
    <3>1. r \in RunId /\ task'[t].job = runs[r].job /\ runs[r].job \in Job
      BY <1>0, <2>0, <2>5 DEF Notes, RowsOK
    <3>2. QED
      BY <2>5, <3>1 DEF Notes, Knowing
  <2>6. CASE task'[t].run = r /\ GoesOn(t)
    BY <1>1, <2>0, <2>6 DEF GoesOn, Knowing
  <2>7. CASE task'[t].run = r /\ Writes(t)
    <3>1. /\ task[t].pc \in Knowing /\ task'[t].pc = "alert"
          /\ task'[t].job = task[t].job /\ task'[t].verdict = task[t].verdict
      BY <2>7 DEF Writes, Knowing
    <3>2. runs'[r].status = task[t].verdict
      BY <1>0, <2>0, <2>7, <3>1 DEF Writes, End, Close, RowsOK, Row
    <3>3. QED
      BY <1>1, <2>0, <2>7, <3>1, <3>2
  <2>8. QED
    BY <1>0, <2>1, <2>2, <2>3, <2>4, <2>5, <2>6, <2>7, NextTaskMove DEF TaskMove
<1>3. QED
  BY <1>0, <1>2, NextTaskMove DEF TaskKnowsItsJob, VerdictIsWritten, Knowing

----
(* The worker's selection.                                                  *)
LEMMA WorkerKeeps ==
  ASSUME IInv, [Next]_vars
  PROVE  worker' \in Worker /\ WorkerKnowsTheJobs'
<1>0. TypeOK /\ RowsOK /\ RowStep
  BY NextRowStep DEF IInv, TypeOK, RowsOK
<1>1. /\ \A j \in Job : job[j] = "gone" => job'[j] = "gone"
      /\ \A r \in RunId : runs[r].job \in Job =>
           job'[runs[r].job] = "gone" \/ runs'[r].job = runs[r].job
  BY <1>0, RowEffect
<1>2. ASSUME worker'.rows \subseteq worker.rows
      PROVE  WorkerKnowsTheJobs'
  BY <1>1, <1>2 DEF IInv, WorkerKnowsTheJobs
<1>3. CASE StartTick
  <2>1. worker' \in Worker /\ worker'.rows = StuckRows /\ UNCHANGED <<runs, job>>
    BY <1>3 DEF StartTick, Resting, Worker, StuckRows
  <2>2. QED
    BY <2>1 DEF StuckRows, WorkerKnowsTheJobs
<1>4. CASE \E r \in RunId, j \in Job : CloseStuck(r, j)
  <2>1. PICK r \in RunId, j \in Job : worker' = [worker EXCEPT !.rows = @ \ {<<r, j>>}]
    BY <1>4 DEF CloseStuck
  <2>2. worker' \in Worker /\ worker'.rows \subseteq worker.rows
    BY <1>0, <2>1 DEF TypeOK, Worker
  <2>3. QED
    BY <1>2, <2>2
<1>5. CASE SelectJobs
  <2>1. worker' \in Worker /\ worker'.rows = {}
    BY <1>5 DEF SelectJobs, Resting, Worker
  <2>2. QED
    BY <1>2, <2>1
<1>6. CASE \E j \in Job : VerifyNext(j)
  <2>1. PICK j \in Job : worker' = [worker EXCEPT !.todo = @ \ {j}]
    BY <1>6 DEF VerifyNext
  <2>2. worker' \in Worker /\ worker'.rows = worker.rows
    BY <1>0, <2>1 DEF TypeOK, Worker
  <2>3. QED
    BY <1>2, <2>2
<1>7. CASE EndTick \/ Crash
  BY <1>2, <1>7, RestingFields DEF EndTick, Crash
<1>8. CASE UNCHANGED worker
  BY <1>0, <1>2, <1>8 DEF TypeOK
<1>9. UNCHANGED worker \/ WorkerStep \/ Crash
  BY DEF Next, vars, Administration, AskVerify, PostVerify, RecordArrives, PatchJob, AskDelete,
         DeleteJob, OperatorClears, Overdue, StepFails, TaskStep, Begin, Claim, Answer, Finish,
         RaiseOrResolve, MarkError
<1>10. QED
  BY <1>3, <1>4, <1>5, <1>6, <1>7, <1>8, <1>9 DEF WorkerStep

----
(* The alerts.                                                              *)

(* An alert that tells the truth about row r after the step.                *)
Truthful(a, j) ==
  /\ a \in Alert
  /\ runs'[a.run].job = j
  /\ runs'[a.run].status \in Terminal \ {"OK"}
  /\ a.severity = "CRITICAL" <=> runs'[a.run].status \in {"CORRUPT", "MISSING"}

AlertMove(j) ==
  /\ alert'[j] = alert[j] \/ alert'[j] = NoAlert \/ Truthful(alert'[j], j)
  /\ job'[j] = "gone" /\ job[j] # "gone" => alert'[j] = NoAlert

LEMMA RaiseMoves ==
  ASSUME TypeOK, NEW j \in Job, NEW r \in RunId, NEW s \in Terminal \ {"OK"}, UNCHANGED job,
         alert' = Raise(j, r, s),
         job[j] = "gone" \/ (runs'[r].job = j /\ runs'[r].status = s)
  PROVE  alert' \in [Job -> Alert \cup {NoAlert}] /\ \A k \in Job : AlertMove(k)
<1> DEFINE severity == IF s \in {"CORRUPT", "MISSING"} THEN "CRITICAL" ELSE "WARNING"
           a == [run |-> r, severity |-> severity]
<1>1. a \in Alert /\ a.run = r /\ (a.severity = "CRITICAL" <=> s \in {"CORRUPT", "MISSING"})
  BY DEF Alert
<1>2. CASE alert' = alert
  BY <1>2 DEF TypeOK, AlertMove
<1>3. CASE job[j] # "gone" /\ alert' = [alert EXCEPT ![j] = a]
  <2>1. Truthful(a, j)
    BY <1>1, <1>3 DEF Truthful
  <2> HIDE DEF a
  <2>2. QED
    BY <1>1, <1>3, <2>1 DEF TypeOK, AlertMove
<1>4. QED
  BY <1>2, <1>3 DEF Raise

LEMMA ClearMoves ==
  ASSUME TypeOK, NEW j \in Job, alert' = [alert EXCEPT ![j] = NoAlert],
         \A k \in Job \ {j} : job'[k] = job[k]
  PROVE  alert' \in [Job -> Alert \cup {NoAlert}] /\ \A k \in Job : AlertMove(k)
  BY DEF TypeOK, AlertMove

LEMMA NextAlertMove ==
  ASSUME IInv, [Next]_vars
  PROVE  alert' \in [Job -> Alert \cup {NoAlert}] /\ \A j \in Job : AlertMove(j)
<1>0. TypeOK
  BY DEF IInv
<1>1. CASE UNCHANGED alert /\ \A j \in Job : job'[j] = "gone" => job[j] = "gone"
  BY <1>0, <1>1 DEF TypeOK, AlertMove
<1>2. CASE \E t \in Task : RaiseOrResolve(t)
  <2>1. PICK t \in Task : RaiseOrResolve(t)
    BY <1>2
  <2> DEFINE r == task[t].run
             j == task[t].job
             v == task[t].verdict
  <2>2. /\ r \in RunId /\ j \in Job /\ v \in Terminal
        /\ job[j] = "gone" \/ (runs[r].job = j /\ runs[r].status = v)
        /\ UNCHANGED <<job, runs>>
    BY <2>1 DEF RaiseOrResolve, IInv, TypeOK, Execution, TaskKnowsItsJob, VerdictIsWritten, Knowing
  <2>3. CASE v = "OK"
    BY <1>0, <2>1, <2>2, <2>3, ClearMoves DEF RaiseOrResolve
  <2>4. CASE v # "OK"
    <3>1. alert' = Raise(j, r, v)
      BY <2>1, <2>4 DEF RaiseOrResolve
    <3>2. QED
      BY <1>0, <2>2, <2>4, <3>1, RaiseMoves
  <2>5. QED
    BY <2>3, <2>4
<1>3. CASE \E r \in RunId, j \in Job : CloseStuck(r, j)
  <2>1. PICK r \in RunId, j \in Job : CloseStuck(r, j)
    BY <1>3
  <2>2. CASE UNCHANGED alert
    BY <1>1, <2>1, <2>2 DEF CloseStuck
  <2>3. CASE /\ runs[r].status = "RUNNING"
             /\ runs' = Close(r, "ERROR")
             /\ alert' = Raise(j, r, "ERROR")
    <3>1. "ERROR" \in Terminal \ {"OK"} /\ UNCHANGED job
      BY <2>1 DEF Terminal, CloseStuck
    <3>2. runs'[r].job = runs[r].job /\ runs'[r].status = "ERROR"
      BY <1>0, <2>3 DEF Close, TypeOK, Row
    <3>3. job[j] = "gone" \/ runs[r].job = j
      BY <2>1 DEF CloseStuck, IInv, WorkerKnowsTheJobs
    <3>4. QED
      BY <1>0, <2>3, <3>1, <3>2, <3>3, RaiseMoves
  <2>4. QED
    BY <2>1, <2>2, <2>3 DEF CloseStuck
<1>4. CASE \E j \in Job : OperatorClears(j)
  BY <1>0, <1>4, ClearMoves DEF OperatorClears
<1>5. CASE \E j \in Job : DeleteJob(j)
  <2>1. PICK j \in Job : DeleteJob(j)
    BY <1>5
  <2>2. \A k \in Job \ {j} : job'[k] = job[k]
    BY <1>0, <2>1 DEF DeleteJob, TypeOK
  <2>3. QED
    BY <1>0, <2>1, <2>2, ClearMoves DEF DeleteJob
<1>6. CASE \E j \in Job : PatchJob(j)
  <2>1. \A j \in Job : job'[j] = "gone" => job[j] = "gone"
    BY <1>0, <1>6, VerificationAssumption DEF PatchJob, TypeOK
  <2>2. QED
    BY <1>1, <1>6, <2>1 DEF PatchJob
<1>7. \/ UNCHANGED <<alert, job>>
      \/ \E t \in Task : RaiseOrResolve(t)
      \/ \E r \in RunId, j \in Job : CloseStuck(r, j)
      \/ \E j \in Job : OperatorClears(j) \/ DeleteJob(j) \/ PatchJob(j)
  BY DEF Next, vars, Administration, AskVerify, PostVerify, RecordArrives, AskDelete, Overdue,
         StepFails, TaskStep, Begin, Claim, Answer, Finish, MarkError, WorkerStep, StartTick,
         SelectJobs, VerifyNext, EndTick, Crash
<1>8. QED
  BY <1>1, <1>2, <1>3, <1>4, <1>5, <1>6, <1>7

LEMMA AlertKeeps ==
  ASSUME IInv, [Next]_vars
  PROVE  AlertTellsTheVerdict'
<1>0. RowsOK /\ RowStep /\ alert \in [Job -> Alert \cup {NoAlert}]
  BY NextRowStep DEF IInv, TypeOK, RowsOK
<1>1. SUFFICES ASSUME NEW j \in Job, alert'[j] # NoAlert
               PROVE  /\ runs'[alert'[j].run].job = j
                      /\ runs'[alert'[j].run].status \in Terminal \ {"OK"}
                      /\ alert'[j].severity = "CRITICAL"
                           <=> runs'[alert'[j].run].status \in {"CORRUPT", "MISSING"}
  BY DEF AlertTellsTheVerdict
<1>2. CASE Truthful(alert'[j], j)
  BY <1>2 DEF Truthful
<1>3. CASE alert'[j] = alert[j]
  <2> DEFINE r == alert[j].run
  <2>1. /\ r \in RunId /\ runs[r].job = j /\ runs[r].status \in Terminal \ {"OK"}
        /\ alert[j].severity = "CRITICAL" <=> runs[r].status \in {"CORRUPT", "MISSING"}
    BY <1>0, <1>1, <1>3 DEF IInv, AlertTellsTheVerdict, Alert
  <2>2. job[j] # "gone"
    BY <1>0, <2>1 DEF RowsOK, Present, Terminal
  <2>3. job'[j] # "gone"
    BY <1>1, <2>2, NextAlertMove DEF AlertMove
  <2>4. runs'[r] = runs[r]
    BY <1>0, <2>1, <2>3, RowEffect
  <2>5. QED
    BY <1>3, <2>1, <2>4
<1>4. QED
  BY <1>1, <1>2, <1>3, NextAlertMove DEF AlertMove

----
LEMMA InitIInv == Init => IInv
<1> SUFFICES ASSUME Init PROVE IInv
  OBVIOUS
<1>1. TypeOK
  BY NoRowFields, NoTaskFields, RestingFields, VerificationAssumption
  DEF Init, TypeOK, JobState, Present
<1>2. \A t \in Task : task[t].pc = "idle"
  BY NoTaskFields DEF Init
<1>3. QED
  BY <1>1, <1>2, RestingFields DEF Init, IInv, TaskKnowsItsJob, VerdictIsWritten,
     WorkerKnowsTheJobs, AlertTellsTheVerdict, Knowing

(* The counters and the requests.                                           *)
LEMMA OthersKeep ==
  ASSUME TypeOK, [Next]_vars
  PROVE  /\ recorded' \subseteq Job
         /\ passed' \subseteq {"verify", "delete"} \X Job
         /\ orphans' \subseteq RunId
         /\ faults' \in 0 .. FaultLimit
<1>0. ASSUME Fault \/ UNCHANGED faults
      PROVE  faults' \in 0 .. FaultLimit
  BY <1>0, VerificationAssumption DEF Fault, TypeOK
<1>1. CASE \E t \in Task : TaskStep(t) \/ StepFails(t)
  <2>1. PICK t \in Task : TaskStep(t) \/ StepFails(t)
    BY <1>1
  <2>2. Fault \/ UNCHANGED faults
    BY <2>1 DEF TaskStep, StepFails, Begin, Claim, Answer, Finish, RaiseOrResolve, MarkError
  <2>3. UNCHANGED <<recorded, passed>>
    BY <2>1 DEF TaskStep, StepFails, Begin, Claim, Answer, Finish, RaiseOrResolve, MarkError
  <2>4. orphans' \subseteq RunId
    <3>1. CASE MarkError(t)
      <4>1. task[t].run \in RunId
        BY <3>1 DEF MarkError, TypeOK
      <4>2. QED
        BY <3>1, <4>1 DEF MarkError, TypeOK
    <3>2. CASE UNCHANGED orphans
      BY <3>2 DEF TypeOK
    <3>3. QED
      BY <2>1, <3>1, <3>2 DEF TaskStep, StepFails, Begin, Claim, Answer, Finish, RaiseOrResolve
  <2>5. QED
    BY <1>0, <2>2, <2>3, <2>4 DEF TypeOK
<1>2. CASE WorkerStep
  <2>1. CASE \E j \in Job : VerifyNext(j)
    BY <2>1, CreateStarts DEF VerifyNext, TypeOK, Task
  <2>2. CASE StartTick \/ SelectJobs \/ EndTick \/ \E r \in RunId, j \in Job : CloseStuck(r, j)
    <3>1. Fault \/ UNCHANGED faults
      BY <2>2 DEF StartTick, SelectJobs, EndTick, CloseStuck
    <3>2. UNCHANGED <<recorded, passed>> /\ orphans' \subseteq orphans
      BY <2>2 DEF StartTick, SelectJobs, EndTick, CloseStuck
    <3>3. QED
      BY <1>0, <3>1, <3>2 DEF TypeOK
  <2>3. QED
    BY <1>2, <2>1, <2>2 DEF WorkerStep
<1>3. CASE Administration
  <2>1. CASE \E j \in Job, t \in ApiTask : PostVerify(t, j)
    BY <2>1, CreateStarts DEF PostVerify, TypeOK, Task
  <2>2. CASE \E j \in Job : \/ AskVerify(j) \/ RecordArrives(j) \/ PatchJob(j)
                            \/ AskDelete(j) \/ DeleteJob(j) \/ OperatorClears(j)
    BY <2>2 DEF AskVerify, RecordArrives, PatchJob, AskDelete, DeleteJob, OperatorClears, TypeOK
  <2>3. QED
    BY <1>3, <2>1, <2>2 DEF Administration
<1>4. CASE Crash
  BY <1>0, <1>4 DEF Crash, TypeOK
<1>5. CASE UNCHANGED vars \/ \E r \in RunId : Overdue(r)
  BY <1>5 DEF vars, Overdue, TypeOK
<1>6. QED
  BY <1>1, <1>2, <1>3, <1>4, <1>5 DEF Next

LEMMA NextIInv == IInv /\ [Next]_vars => IInv'
<1> SUFFICES ASSUME IInv, [Next]_vars PROVE IInv'
  OBVIOUS
<1>1. RowsOK'
  BY RowsStayOK, NextRowStep DEF IInv, TypeOK, RowsOK
<1>2. /\ recorded' \subseteq Job
      /\ passed' \subseteq {"verify", "delete"} \X Job
      /\ orphans' \subseteq RunId
      /\ faults' \in 0 .. FaultLimit
  BY OthersKeep DEF IInv
<1>3. TypeOK'
  BY <1>1, <1>2, TaskKeeps, WorkerKeeps, NextAlertMove DEF TypeOK, RowsOK, Knowing
<1>4. QED
  BY <1>3, TaskKeeps, WorkerKeeps, AlertKeeps DEF IInv

(* The inductive invariant holds in every reachable state.                  *)
THEOREM Inductive == Spec => []IInv
  BY InitIInv, NextIInv, PTL DEF Spec

(* Rows, tasks, alerts and the worker's tick are well formed; every row     *)
(* belongs to a job that exists.                                            *)
THEOREM TypeCorrect == Spec => []TypeOK
<1>1. IInv => TypeOK
  BY DEF IInv
<1>2. QED
  BY <1>1, Inductive, PTL

(* An ACTIVE alert says what the table says, for any number of jobs, whose  *)
(* run ids may be used again.                                               *)
THEOREM AlertCorrect == Spec => []AlertTellsTheVerdict
<1>1. IInv => AlertTellsTheVerdict
  BY DEF IInv
<1>2. QED
  BY <1>1, Inductive, PTL

(* A verdict is final.                                                      *)
THEOREM Final == Spec => TerminalIsFinal
<1>1. IInv /\ [Next]_vars =>
        [\A r \in RunId : runs[r].status \in Terminal =>
           runs'[r] = runs[r] \/ (runs'[r] = NoRow /\ job'[runs[r].job] = "gone")]_vars
  BY NextRowStep, RowEffect DEF IInv, TypeOK, RowsOK
<1>2. QED
  BY <1>1, Inductive, PTL DEF Spec, TerminalIsFinal

----
(* Verification runs implement RunLifecycle with deletion.                  *)
LEMMA RowStepRefines ==
  ASSUME RowsOK, RowsOK', RowStep
  PROVE  [Lifecycle!NextOrForget]_(Lifecycle!vars)
<1> SUFFICES Lifecycle!NextOrForget \/ UNCHANGED Lifecycle!vars
  OBVIOUS
<1> DEFINE phases == [r \in RunId |-> Phase(r)]
           owners == [r \in RunId |-> runs[r].job]
<1>0. \A r \in RunId : runs[r] \in Row /\ runs'[r] \in Row
  BY DEF RowsOK
<1>1. ASSUME NEW r \in RunId, NEW j \in Job, Append(r, j)
      PROVE  Lifecycle!NextOrForget
  <2> DEFINE n == [NoRow EXCEPT !.job = j, !.status = "PENDING"]
  <2>1. n.job = j /\ n.status = "PENDING"
    BY NewRowFields
  <2>2. /\ runs'[r] = n /\ ~Present(r)
        /\ \A q \in RunId \ {r} : runs'[q] = runs[q]
    BY <1>1, VerificationAssumption DEF Append, IsNextId, RunId, RowsOK
  <2> HIDE DEF n
  <2>3. Phase(r) = "absent" /\ Phase(r)' = "waiting"
    BY <2>1, <2>2 DEF Phase, Present
  <2>4. \A q \in RunId \ {r} : Phase(q)' = Phase(q)
    BY <2>2 DEF Phase
  <2>5. \A q \in RunId : owners[q] = j => phases[q] \notin Lifecycle!Open
    <3> SUFFICES ASSUME NEW q \in RunId, runs[q].job = j
                 PROVE  Phase(q) \notin {"waiting", "started"}
      BY DEF Lifecycle!Open
    <3>1. runs[q].status \notin Active
      BY <1>1 DEF Append, InsertAllowed
    <3>2. runs[q].status \in {"ABSENT"} \cup Terminal
      BY <1>0, <3>1 DEF Row
    <3>3. QED
      BY <3>2 DEF Phase, Terminal
  <2>6. phases' = [phases EXCEPT ![r] = "waiting"]
    BY <2>3, <2>4
  <2>7. owners' = [owners EXCEPT ![r] = j]
    BY <2>1, <2>2
  <2>8. Lifecycle!OpenRun(r, j)
    BY <2>3, <2>5, <2>6, <2>7 DEF Lifecycle!OpenRun
  <2>9. QED
    BY <2>8 DEF Lifecycle!NextOrForget, Lifecycle!Next
<1>2. ASSUME NEW r \in RunId, Start(r) \/ Age(r) \/ \E s \in Terminal : End(r, s)
      PROVE  /\ owners' = owners
             /\ \A q \in RunId \ {r} : Phase(q)' = Phase(q)
  <2>1. runs'[r].job = runs[r].job /\ \A q \in RunId \ {r} : runs'[q] = runs[q]
    <3>1. runs \in [RunId -> Row] /\ runs[r] \in Row
      BY DEF RowsOK
    <3>2. CASE Start(r)
      BY <3>1, <3>2 DEF Start, Row
    <3>3. CASE Age(r)
      BY <3>1, <3>3 DEF Age, Row
    <3>4. CASE \E s \in Terminal : End(r, s)
      BY <3>1, <3>4 DEF End, Close, Row
    <3>5. QED
      BY <1>2, <3>2, <3>3, <3>4
  <2>2. QED
    BY <2>1 DEF Phase
<1>3. ASSUME NEW r \in RunId, Start(r)
      PROVE  Lifecycle!NextOrForget
  <2>1. Phase(r) = "waiting" /\ Phase(r)' = "started"
    BY <1>3 DEF Start, Phase, RowsOK, Row
  <2>2. phases' = [phases EXCEPT ![r] = "started"]
    BY <1>2, <1>3, <2>1
  <2>3. Lifecycle!Start(r)
    BY <1>2, <1>3, <2>1, <2>2 DEF Lifecycle!Start, Lifecycle!Open
  <2>4. QED
    BY <2>3 DEF Lifecycle!NextOrForget, Lifecycle!Next
<1>4. ASSUME NEW r \in RunId, Age(r)
      PROVE  UNCHANGED Lifecycle!vars
  <2>1. Phase(r)' = Phase(r)
    BY <1>4 DEF Age, Phase, RowsOK, Row
  <2>2. phases' = phases
    BY <1>2, <1>4, <2>1
  <2>3. QED
    BY <1>2, <1>4, <2>2 DEF Lifecycle!vars
<1>5. ASSUME NEW r \in RunId, NEW s \in Terminal, End(r, s)
      PROVE  Lifecycle!NextOrForget
  <2>1. runs'[r].status = s /\ runs[r].status \in Active
    BY <1>5 DEF End, Close, RowsOK, Row
  <2>2. Phase(r) \in {"waiting", "started"} /\ Phase(r)' = s
    BY <2>1 DEF Phase, Active, Terminal
  <2>3. phases' = [phases EXCEPT ![r] = s]
    BY <1>2, <1>5, <2>2
  <2>4. s # "STUCK"
    BY DEF Terminal
  <2>5. Lifecycle!Close(r, s)
    BY <1>2, <1>5, <2>2, <2>3, <2>4 DEF Lifecycle!Close, Lifecycle!Open
  <2>6. QED
    BY <2>5 DEF Lifecycle!NextOrForget, Lifecycle!Next
<1>6. ASSUME NEW j \in Job, Drop(j)
      PROVE  Lifecycle!NextOrForget
  <2>1. \A r \in RunId : runs'[r] = IF runs[r].job = j THEN NoRow ELSE runs[r]
    BY <1>6 DEF Drop
  <2>2. \A r \in RunId : Phase(r)' = IF runs[r].job = j THEN "absent" ELSE Phase(r)
    BY <2>1, NoRowFields DEF Phase
  <2>3. \A r \in RunId : runs'[r].job = IF runs[r].job = j THEN NoJob ELSE runs[r].job
    BY <2>1, NoRowFields
  <2>4. phases' = [r \in RunId |-> IF owners[r] = j THEN "absent" ELSE phases[r]]
    BY <2>2
  <2>5. owners' = [r \in RunId |-> IF owners[r] = j THEN NoJob ELSE owners[r]]
    BY <2>3
  <2>6. Lifecycle!Forget(j)
    BY <2>4, <2>5 DEF Lifecycle!Forget
  <2>7. QED
    BY <2>6 DEF Lifecycle!NextOrForget
<1>7. CASE Keep
  BY <1>7 DEF Keep, Lifecycle!vars, Phase
<1>8. QED
  BY <1>1, <1>3, <1>4, <1>5, <1>6, <1>7 DEF RowStep

(* Opened only for a job without an open run, closed once, forgotten with   *)
(* the job.                                                                 *)
THEOREM Implements == Spec => ImplementsLifecycle
<1>1. Init => Lifecycle!Init
  <2> SUFFICES ASSUME Init
               PROVE  \A r \in RunId : Phase(r) = "absent" /\ runs[r].job = NoJob
    BY DEF Lifecycle!Init
  <2>1. QED
    BY NoRowFields DEF Init, Phase
<1>2. IInv /\ IInv' /\ [Next]_vars => [Lifecycle!NextOrForget]_(Lifecycle!vars)
  BY NextRowStep, RowStepRefines DEF IInv, TypeOK, RowsOK
<1>3. QED
  BY <1>1, <1>2, Inductive, PTL DEF Spec, ImplementsLifecycle, Lifecycle!DeletingSpec

----
(* Who executes an open row.  A PENDING row is blocked for ever if nobody   *)
(* does, and a RUNNING one until the stuck check finds it.                   *)

Waiting == {"begin", "claim", "decided", "failed"}
Working == {"calling", "decided", "failed"}
Holds(t, r, pcs) == task[t].run = r /\ task[t].pc \in pcs

(* Every open verification has a task that is on its way to claim or to     *)
(* close it, unless a crash, an error between the INSERT and the start of   *)
(* the task, or an error in the except clause took the task away: in no     *)
(* other way does execute_verification_run end without closing the row.     *)
OpenHasTask ==
  \A r \in RunId :
    /\ runs[r].status = "PENDING" => r \in orphans \/ \E t \in Task : Holds(t, r, Waiting)
    /\ runs[r].status = "RUNNING" => r \in orphans \/ \E t \in Task : Holds(t, r, Working)

(* A step that moves task t and at most the row of it.                      *)
LEMMA OneMoves ==
  ASSUME OpenHasTask, NEW t \in Task, NEW r \in RunId,
         task[t].run = r \/ task[t].pc = "idle",
         \A u \in Task \ {t} : task'[u] = task[u],
         \A q \in RunId \ {r} : runs'[q] = runs[q],
         orphans \subseteq orphans',
         runs'[r].status = "PENDING" =>
           \/ r \in orphans' \/ Holds(t, r, Waiting)'
           \/ runs[r].status = "PENDING" /\ task[t].pc \notin Waiting,
         runs'[r].status = "RUNNING" =>
           \/ r \in orphans' \/ Holds(t, r, Working)'
           \/ runs[r].status = "RUNNING" /\ task[t].pc \notin Working
  PROVE  OpenHasTask'
<1>1. "idle" \notin Waiting /\ "idle" \notin Working
  BY DEF Waiting, Working
<1>2. ASSUME NEW q \in RunId, runs'[q].status = "PENDING"
      PROVE  q \in orphans' \/ \E u \in Task : Holds(u, q, Waiting)'
  <2>1. CASE runs[q].status = "PENDING" /\ (q # r \/ task[t].pc \notin Waiting)
    <3>1. CASE q \in orphans
      BY <3>1
    <3>2. CASE q \notin orphans
      <4>1. PICK u \in Task : Holds(u, q, Waiting)
        BY <2>1, <3>2 DEF OpenHasTask
      <4>2. u # t
        BY <1>1, <2>1, <4>1 DEF Holds
      <4>3. QED
        BY <4>1, <4>2 DEF Holds
    <3>3. QED
      BY <3>1, <3>2
  <2>2. CASE q = r /\ ~(runs[r].status = "PENDING" /\ task[t].pc \notin Waiting)
    BY <1>2, <2>2
  <2>3. QED
    BY <1>2, <2>1, <2>2
<1>3. ASSUME NEW q \in RunId, runs'[q].status = "RUNNING"
      PROVE  q \in orphans' \/ \E u \in Task : Holds(u, q, Working)'
  <2>1. CASE runs[q].status = "RUNNING" /\ (q # r \/ task[t].pc \notin Working)
    <3>1. CASE q \in orphans
      BY <3>1
    <3>2. CASE q \notin orphans
      <4>1. PICK u \in Task : Holds(u, q, Working)
        BY <2>1, <3>2 DEF OpenHasTask
      <4>2. u # t
        BY <1>1, <2>1, <4>1 DEF Holds
      <4>3. QED
        BY <4>1, <4>2 DEF Holds
    <3>3. QED
      BY <3>1, <3>2
  <2>2. CASE q = r /\ ~(runs[r].status = "RUNNING" /\ task[t].pc \notin Working)
    BY <1>3, <2>2
  <2>3. QED
    BY <1>3, <2>1, <2>2
<1>4. QED
  BY <1>2, <1>3 DEF OpenHasTask

LEMMA OpenHasTaskHere ==
  ASSUME TypeOK, OpenHasTask, NEW t \in Task, NEW r \in RunId, task[t].run = r,
         TaskStep(t) \/ StepFails(t)
  PROVE  OpenHasTask'
<1>0. /\ runs \in [RunId -> Row] /\ task \in [Task -> Execution]
      /\ task[t].pc # "idle"
  BY DEF TypeOK, TaskStep, Begin, Claim, Answer, Finish, RaiseOrResolve, MarkError, StepFails
<1>1. \A u \in Task \ {t} : task'[u] = task[u]
  BY <1>0, OthersRest DEF TypeOK
<1>2. /\ \A q \in RunId \ {r} : runs'[q] = runs[q]
      /\ orphans \subseteq orphans'
  BY <1>0 DEF TaskStep, Begin, Claim, Answer, Finish, RaiseOrResolve, MarkError, StepFails, Close
<1> DEFINE OwnRow ==
             /\ runs'[r].status = "PENDING" =>
                  \/ r \in orphans' \/ Holds(t, r, Waiting)'
                  \/ runs[r].status = "PENDING" /\ task[t].pc \notin Waiting
             /\ runs'[r].status = "RUNNING" =>
                  \/ r \in orphans' \/ Holds(t, r, Working)'
                  \/ runs[r].status = "RUNNING" /\ task[t].pc \notin Working
<1>3. CASE Begin(t)
  <2>1. task[t].pc = "begin" /\ UNCHANGED runs
    BY <1>3 DEF Begin
  <2>2. Present(r) => task'[t].run = r /\ task'[t].pc \in {"claim", "decided"}
    <3> DEFINE pc == IF runs[r].job \in recorded THEN "claim" ELSE "decided"
               linked == job[runs[r].job] \in {"on", "off"}
    <3>1. Present(r) => task'[t] = [task[t] EXCEPT !.job = runs[r].job, !.linked = linked,
                                      !.pc = pc, !.verdict = "MISSING"]
      BY <1>0, <1>3 DEF Begin
    <3>2. pc \in {"claim", "decided"}
      OBVIOUS
    <3>3. task[t] \in Execution
      BY <1>0
    <3> HIDE DEF pc, linked
    <3>4. Present(r) => task'[t].run = task[t].run /\ task'[t].pc = pc
      BY <3>1, <3>3 DEF Execution
    <3>5. QED
      BY <3>2, <3>4
  <2>3. OwnRow
    BY <2>1, <2>2 DEF Present, Holds, Waiting, Working
  <2> HIDE DEF OwnRow
  <2>4. QED
    BY <1>1, <1>2, <2>3, OneMoves DEF OwnRow
<1>4. CASE Claim(t)
  <2>1. runs[r].status = "PENDING" =>
          /\ runs'[r].status = "RUNNING"
          /\ task'[t].run = r /\ task'[t].pc \in {"calling", "failed"}
    <3> SUFFICES ASSUME runs[r].status = "PENDING"
                 PROVE  /\ runs'[r].status = "RUNNING"
                        /\ task'[t].run = r /\ task'[t].pc \in {"calling", "failed"}
      OBVIOUS
    <3>1. /\ runs' = [runs EXCEPT ![r].status = "RUNNING"]
          /\ \E pc \in {"calling", "failed"} : task' = [task EXCEPT ![t].pc = pc]
      BY <1>4 DEF Claim
    <3>2. QED
      BY <1>0, <3>1 DEF Row, Execution
  <2>2. runs[r].status # "PENDING" => UNCHANGED runs /\ task[t].pc = "claim"
    BY <1>4 DEF Claim
  <2>3. OwnRow
    BY <2>1, <2>2 DEF Holds, Working
  <2> HIDE DEF OwnRow
  <2>4. QED
    BY <1>1, <1>2, <2>3, OneMoves DEF OwnRow
<1>5. CASE Answer(t)
  <2>1. /\ task[t].pc = "calling" /\ UNCHANGED runs
        /\ task'[t].run = r /\ task'[t].pc = "decided"
    BY <1>0, <1>5 DEF Answer, Execution
  <2>2. OwnRow
    BY <2>1 DEF Holds, Waiting, Working
  <2> HIDE DEF OwnRow
  <2>3. QED
    BY <1>1, <1>2, <2>2, OneMoves DEF OwnRow
<1>6. CASE Finish(t)
  <2>1. runs'[r].status \notin Active
    <3>1. task[t].verdict \in Terminal
      BY <1>0 DEF Execution
    <3>2. CASE runs' = Close(r, task[t].verdict)
      BY <1>0, <3>1, <3>2 DEF Close, Row, Terminal, Active
    <3>3. CASE UNCHANGED runs /\ runs[r].status \notin Active
      BY <3>3
    <3>4. QED
      BY <1>6, <3>2, <3>3 DEF Finish
  <2>2. OwnRow
    BY <2>1 DEF Active
  <2> HIDE DEF OwnRow
  <2>3. QED
    BY <1>1, <1>2, <2>2, OneMoves DEF OwnRow
<1>7. CASE RaiseOrResolve(t)
  <2>1. OwnRow
    BY <1>7 DEF RaiseOrResolve, Waiting, Working
  <2> HIDE DEF OwnRow
  <2>2. QED
    BY <1>1, <1>2, <2>1, OneMoves DEF OwnRow
<1>8. CASE MarkError(t)
  <2>1. r \in orphans' \/ runs'[r].status \notin Active
    <3>1. runs' = Close(r, "ERROR") => runs'[r].status = "ERROR"
      BY <1>0 DEF Close, Row
    <3>2. \/ runs' = Close(r, "ERROR")
          \/ UNCHANGED runs /\ runs[r].status \notin Active
          \/ UNCHANGED runs /\ r \in orphans'
      BY <1>8 DEF MarkError, StillOpen
    <3>3. QED
      BY <3>1, <3>2 DEF Active
  <2>2. OwnRow
    BY <2>1 DEF Active
  <2> HIDE DEF OwnRow
  <2>3. QED
    BY <1>1, <1>2, <2>2, OneMoves DEF OwnRow
<1>9. CASE StepFails(t)
  <2>1. UNCHANGED runs /\ task'[t].run = r /\ task'[t].pc = "failed"
    BY <1>0, <1>9 DEF StepFails, Execution
  <2>2. OwnRow
    BY <2>1 DEF Holds, Waiting, Working
  <2> HIDE DEF OwnRow
  <2>3. QED
    BY <1>1, <1>2, <2>2, OneMoves DEF OwnRow
<1>10. QED
  BY <1>3, <1>4, <1>5, <1>6, <1>7, <1>8, <1>9 DEF TaskStep

LEMMA OpenHasTaskCreated ==
  ASSUME TypeOK, OpenHasTask, NEW t \in Task, task[t].pc = "idle", NEW j, Create(t, j)
  PROVE  OpenHasTask'
<1>1. PICK r \in RunId :
        /\ runs' = [runs EXCEPT ![r] = [NoRow EXCEPT !.job = j, !.status = "PENDING"]]
        /\ \/ task' = [task EXCEPT ![t] = Started(r)] /\ UNCHANGED orphans
           \/ orphans' = orphans \cup {r} /\ UNCHANGED task
  BY DEF Create
<1>2. /\ \A u \in Task \ {t} : task'[u] = task[u]
      /\ \A q \in RunId \ {r} : runs'[q] = runs[q]
      /\ orphans \subseteq orphans'
  BY <1>1 DEF TypeOK
<1>3. runs'[r].status = "PENDING"
  BY <1>1 DEF TypeOK, NoRow
<1>4. r \in orphans' \/ Holds(t, r, Waiting)'
  BY <1>1, StartedFields DEF TypeOK, Holds, Waiting
<1>5. QED
  BY <1>2, <1>3, <1>4, OneMoves

LEMMA OpenHasTaskKept == IInv /\ OpenHasTask /\ [Next]_vars => OpenHasTask'
<1> SUFFICES ASSUME IInv, OpenHasTask, [Next]_vars PROVE OpenHasTask'
  OBVIOUS
<1>0. TypeOK
  BY DEF IInv
<1>1. ASSUME UNCHANGED task,
             \A r \in RunId : runs'[r].status \in Active =>
               runs'[r].status = runs[r].status /\ (r \in orphans => r \in orphans')
      PROVE  OpenHasTask'
  BY <1>1 DEF OpenHasTask, Holds, Active
<1>2. CASE \E t \in Task : TaskStep(t) \/ StepFails(t)
  <2>1. PICK t \in Task : TaskStep(t) \/ StepFails(t)
    BY <1>2
  <2>2. task[t].run \in RunId
    BY <1>0, <2>1
    DEF TypeOK, TaskStep, Begin, Claim, Answer, Finish, RaiseOrResolve, MarkError, StepFails
  <2>3. QED
    BY <1>0, <2>1, <2>2, OpenHasTaskHere
<1>3. CASE \E j \in Job : VerifyNext(j)
  <2>1. PICK j \in Job : VerifyNext(j)
    BY <1>3
  <2>2. CASE Create("worker", j)
    BY <1>0, <2>1, <2>2, OpenHasTaskCreated DEF VerifyNext, Task
  <2>3. CASE UNCHANGED <<runs, task, orphans>>
    BY <1>1, <2>3
  <2>4. QED
    BY <2>1, <2>2, <2>3 DEF VerifyNext
<1>4. CASE \E r \in RunId, j \in Job : CloseStuck(r, j)
  <2>1. PICK r \in RunId, j \in Job : CloseStuck(r, j)
    BY <1>4
  <2>2. runs' = runs \/ runs' = Close(r, "ERROR")
    BY <2>1 DEF CloseStuck
  <2>3. \A q \in RunId : runs'[q].status \in Active => runs'[q].status = runs[q].status
    <3>1. runs \in [RunId -> Row]
      BY <1>0 DEF TypeOK
    <3>2. runs' = Close(r, "ERROR") =>
            runs'[r].status = "ERROR" /\ \A q \in RunId \ {r} : runs'[q] = runs[q]
      BY <3>1 DEF Close, Row
    <3>3. QED
      BY <2>2, <3>2 DEF Active
  <2>4. UNCHANGED task /\ orphans' = {q \in orphans : runs'[q].status \in Active}
    BY <2>1 DEF CloseStuck
  <2>5. QED
    BY <1>1, <2>3, <2>4
<1>5. CASE \E r \in RunId : Overdue(r)
  BY <1>0, <1>1, <1>5 DEF Overdue, TypeOK, Row
<1>6. CASE \E j \in Job, t \in ApiTask : PostVerify(t, j)
  <2>1. PICK j \in Job, t \in ApiTask : PostVerify(t, j)
    BY <1>6
  <2>2. CASE Create(t, j)
    BY <1>0, <2>1, <2>2, OpenHasTaskCreated DEF PostVerify, Task
  <2>3. CASE UNCHANGED <<runs, task, orphans>>
    BY <1>1, <2>3
  <2>4. QED
    BY <2>1, <2>2, <2>3 DEF PostVerify
<1>7. CASE \E j \in Job : DeleteJob(j)
  <2>1. PICK j \in Job : DeleteJob(j)
    BY <1>7
  <2>2. /\ UNCHANGED task /\ orphans' = {r \in orphans : runs[r].job # j}
        /\ \A r \in RunId : runs'[r] = IF runs[r].job = j THEN NoRow ELSE runs[r]
    BY <2>1 DEF DeleteJob
  <2>3. QED
    BY <1>1, <2>2, NoRowFields DEF Active
<1>8. CASE Crash
  BY <1>8 DEF Crash, OpenHasTask, Active
<1>9. CASE UNCHANGED <<runs, task, orphans>>
  BY <1>1, <1>9
<1>10. QED
  BY <1>2, <1>3, <1>4, <1>5, <1>6, <1>7, <1>8, <1>9
  DEF Next, vars, WorkerStep, StartTick, SelectJobs, EndTick, Administration, AskVerify,
      RecordArrives, PatchJob, AskDelete, OperatorClears

(* An open verification that nobody executes is one that a crash or an      *)
(* error took the task from; of those, check_stuck_verifications finds the   *)
(* RUNNING ones.                                                            *)
THEOREM OpenIsExecuted == Spec => []OpenHasTask
<1>1. Init => OpenHasTask
  BY NoRowFields DEF Init, OpenHasTask
<1>2. QED
  BY <1>1, OpenHasTaskKept, Inductive, PTL DEF Spec

----
(* The claim in execute_verification_run lets one task through: a row is    *)
(* never verified by two connections at once, not even after the stuck      *)
(* check closed it under a slow task.  A slow task of a deleted job may     *)
(* hold an id that is in use again.                                         *)
OneTaskCalls ==
  \A t, u \in Task :
    /\ task[t].pc = "calling" /\ task[u].pc = "calling"
    /\ task[t].run = task[u].run
    /\ job[task[t].job] # "gone" /\ job[task[u].job] # "gone"
    => t = u

(* Once claimed, a row does not become PENDING again.                       *)
CallingWasClaimed ==
  \A t \in Task : task[t].pc = "calling" =>
    job[task[t].job] = "gone" \/ runs[task[t].run].status # "PENDING"

LEMMA ClaimedStaysClaimed ==
  ASSUME RowsOK, RowStep, NEW r \in RunId, runs[r].job \in Job, runs[r].status # "PENDING"
  PROVE  job'[runs[r].job] = "gone" \/ runs'[r].status # "PENDING"
<1>0. runs \in [RunId -> Row] /\ Present(r)
  BY DEF RowsOK
<1>1. CASE \E q \in RunId, j \in Job : Append(q, j)
  <2>1. PICK q \in RunId, j \in Job : Append(q, j)
    BY <1>1
  <2>2. q # r
    BY <1>0, <2>1, VerificationAssumption DEF Append, IsNextId, RunId
  <2>3. QED
    BY <1>0, <2>1, <2>2 DEF Append
<1>2. CASE \E q \in RunId : Start(q) \/ Age(q)
  BY <1>0, <1>2 DEF Start, Age, Row
<1>3. CASE \E q \in RunId, s \in Terminal : End(q, s)
  BY <1>0, <1>3 DEF End, Close, Row, Terminal
<1>4. CASE \E j \in Job : Drop(j)
  BY <1>4 DEF Drop, RowsOK
<1>5. CASE Keep
  BY <1>5 DEF Keep
<1>6. QED
  BY <1>1, <1>2, <1>3, <1>4, <1>5 DEF RowStep

(* A task gets to the SQL server through its claim only.                    *)
LEMMA CallsAfterClaim ==
  ASSUME TypeOK, [Next]_vars, NEW t \in Task, task'[t].pc = "calling"
  PROVE  \/ task'[t] = task[t]
         \/ /\ runs[task[t].run].status = "PENDING" /\ task[t].run \in RunId
            /\ runs'[task[t].run].status = "RUNNING"
            /\ task'[t].run = task[t].run
            /\ UNCHANGED job
            /\ \A u \in Task \ {t} : task'[u] = task[u]
<1>1. task \in [Task -> Execution]
  BY DEF TypeOK
<1>2. CASE \E u \in Task : TaskStep(u) \/ StepFails(u)
  <2>1. PICK u \in Task : TaskStep(u) \/ StepFails(u)
    BY <1>2
  <2>2. CASE u # t
    BY <2>1, <2>2, OthersRest
  <2>3. CASE u = t
    <3>1. Claim(t)
      <4>1. ~Idle(t)
        BY <1>1, NoTaskFields DEF Idle
      <4>2. ~Answer(t) /\ ~Finish(t) /\ ~StepFails(t)
        BY <1>1, <4>1 DEF Answer, Finish, StepFails, Execution
      <4>3. ~Begin(t)
        BY <1>1, <4>1 DEF Begin, Execution
      <4>4. QED
        BY <2>1, <2>3, <4>1, <4>2, <4>3 DEF TaskStep, RaiseOrResolve, MarkError
    <3>2. /\ runs[task[t].run].status = "PENDING" /\ UNCHANGED job
          /\ runs' = [runs EXCEPT ![task[t].run].status = "RUNNING"]
          /\ \E pc \in {"calling", "failed"} : task' = [task EXCEPT ![t].pc = pc]
      BY <1>1, <3>1, NoTaskFields DEF Claim, Idle
    <3>3. task'[t].run = task[t].run
      BY <1>1, <3>2 DEF Execution
    <3>4. task[t].run \in RunId
      BY <3>1 DEF Claim, TypeOK
    <3>5. runs'[task[t].run].status = "RUNNING"
      BY <3>2, <3>4 DEF TypeOK, Row
    <3>6. QED
      BY <2>1, <2>3, <3>2, <3>3, <3>4, <3>5, OthersRest
  <2>4. QED
    BY <2>2, <2>3
<1>3. CASE ~\E u \in Task : TaskStep(u) \/ StepFails(u)
  <2>1. task'[t] = task[t] \/ task'[t] = NoTask \/ \E r \in RunId : task'[t] = Started(r)
    <3>1. CASE \E j \in Job : VerifyNext(j)
      BY <3>1, CreateStarts DEF VerifyNext, Task
    <3>2. CASE \E j \in Job, u \in ApiTask : PostVerify(u, j)
      BY <3>2, CreateStarts DEF PostVerify, Task
    <3>3. CASE Crash \/ UNCHANGED task
      BY <3>3 DEF Crash
    <3>4. QED
      BY <1>3, <3>1, <3>2, <3>3
      DEF Next, vars, WorkerStep, StartTick, SelectJobs, EndTick, CloseStuck, Administration,
          AskVerify, RecordArrives, PatchJob, AskDelete, DeleteJob, OperatorClears, Overdue
  <2>2. QED
    BY <2>1, NoTaskFields, StartedFields
<1>4. QED
  BY <1>2, <1>3

LEMMA CallingKept ==
  IInv /\ CallingWasClaimed /\ OneTaskCalls /\ [Next]_vars => (CallingWasClaimed /\ OneTaskCalls)'
<1> SUFFICES ASSUME IInv, CallingWasClaimed, OneTaskCalls, [Next]_vars
             PROVE  CallingWasClaimed' /\ OneTaskCalls'
  OBVIOUS
<1>0. TypeOK /\ RowsOK /\ RowStep
  BY NextRowStep DEF IInv, TypeOK, RowsOK
<1>1. \A j \in Job : job[j] = "gone" => job'[j] = "gone"
  BY <1>0, RowEffect
<1>2. ASSUME NEW t \in Task, task[t].pc = "calling"
      PROVE  /\ task[t].job \in Job /\ task[t].run \in RunId
             /\ job[task[t].job] = "gone" \/ runs[task[t].run].job = task[t].job
  BY <1>2 DEF IInv, TypeOK, TaskKnowsItsJob, Knowing
<1>3. ASSUME NEW t \in Task, task'[t].pc = "calling"
      PROVE  job'[task'[t].job] = "gone" \/ runs'[task'[t].run].status # "PENDING"
  <2>1. CASE task'[t] = task[t]
    <3>1. CASE job[task[t].job] = "gone"
      BY <1>1, <1>2, <1>3, <2>1, <3>1
    <3>2. CASE job[task[t].job] # "gone"
      BY <1>0, <1>2, <1>3, <2>1, <3>2, ClaimedStaysClaimed DEF CallingWasClaimed
    <3>3. QED
      BY <3>1, <3>2
  <2>2. CASE runs'[task[t].run].status = "RUNNING" /\ task'[t].run = task[t].run
    BY <2>2
  <2>3. QED
    BY <1>0, <1>3, <2>1, <2>2, CallsAfterClaim
<1>4. ASSUME NEW t \in Task, NEW u \in Task, t # u,
             task'[t].pc = "calling", task'[u].pc = "calling", task'[t].run = task'[u].run,
             task'[t] # task[t], job'[task'[u].job] # "gone"
      PROVE  FALSE
  <2>1. /\ runs[task[t].run].status = "PENDING" /\ task'[t].run = task[t].run
        /\ task'[u] = task[u]
    BY <1>0, <1>4, CallsAfterClaim
  <2>2. job[task[u].job] = "gone" /\ task[u].job \in Job
    BY <1>2, <1>4, <2>1 DEF CallingWasClaimed
  <2>3. QED
    BY <1>1, <1>4, <2>1, <2>2
<1>5. ASSUME NEW t \in Task, NEW u \in Task,
             task'[t].pc = "calling", task'[u].pc = "calling", task'[t].run = task'[u].run,
             job'[task'[t].job] # "gone", job'[task'[u].job] # "gone"
      PROVE  t = u
  <2>1. CASE task'[t] = task[t] /\ task'[u] = task[u]
    BY <1>1, <1>2, <1>5, <2>1 DEF OneTaskCalls
  <2>2. QED
    BY <1>4, <1>5, <2>1
<1>6. QED
  BY <1>3, <1>5 DEF CallingWasClaimed, OneTaskCalls

(* No two tasks verify one row at the same time.                            *)
THEOREM OneCalls == Spec => []OneTaskCalls
<1>1. Init => CallingWasClaimed /\ OneTaskCalls
  BY NoTaskFields DEF Init, CallingWasClaimed, OneTaskCalls
<1>2. QED
  BY <1>1, CallingKept, Inductive, PTL DEF Spec

----
(* A job never has two open verifications: the sweep, any number of         *)
(* requests and the reuse of ids notwithstanding, since the index on the    *)
(* active rows decides and not the check before it.                         *)
OneOpenPerJob ==
  \A r, q \in RunId :
    /\ runs[r].status \in Active /\ runs[q].status \in Active
    /\ runs[r].job = runs[q].job
    => r = q

LEMMA OneOpenKept == IInv /\ OneOpenPerJob /\ [Next]_vars => OneOpenPerJob'
<1> SUFFICES ASSUME IInv, OneOpenPerJob, [Next]_vars PROVE OneOpenPerJob'
  OBVIOUS
<1>0. RowsOK /\ RowStep /\ runs \in [RunId -> Row]
  BY NextRowStep DEF IInv, TypeOK, RowsOK
<1>1. CASE \E r \in RunId, j \in Job : Append(r, j)
  <2>1. PICK r \in RunId, j \in Job : Append(r, j)
    BY <1>1
  <2>2. /\ runs'[r].job = j
        /\ \A q \in RunId \ {r} : runs'[q] = runs[q]
        /\ \A q \in RunId : runs[q].job = j => runs[q].status \notin Active
    BY <1>0, <2>1, NewRowFields DEF Append, InsertAllowed
  <2>3. QED
    BY <2>2 DEF OneOpenPerJob
<1>2. CASE \E r \in RunId : Start(r) \/ Age(r) \/ \E s \in Terminal : End(r, s)
  <2>1. PICK r \in RunId : Start(r) \/ Age(r) \/ \E s \in Terminal : End(r, s)
    BY <1>2
  <2>2. /\ runs[r].status \in Active /\ runs'[r].job = runs[r].job
        /\ \A q \in RunId \ {r} : runs'[q] = runs[q]
    BY <1>0, <2>1 DEF Start, Age, End, Close, Row, Active
  <2>3. QED
    BY <2>2 DEF OneOpenPerJob
<1>3. CASE \E j \in Job : Drop(j)
  <2>1. \A r \in RunId : runs'[r].status \in Active => runs'[r] = runs[r]
    BY <1>3, NoRowFields DEF Drop, Active
  <2>2. QED
    BY <2>1 DEF OneOpenPerJob
<1>4. CASE Keep
  BY <1>4 DEF Keep, OneOpenPerJob
<1>5. QED
  BY <1>0, <1>1, <1>2, <1>3, <1>4 DEF RowStep

(* At most one PENDING or RUNNING verification per job.                     *)
THEOREM OneOpen == Spec => []OneOpenPerJob
<1>1. Init => OneOpenPerJob
  BY NoRowFields DEF Init, OneOpenPerJob, Active
<1>2. QED
  BY <1>1, OneOpenKept, Inductive, PTL DEF Spec

====
