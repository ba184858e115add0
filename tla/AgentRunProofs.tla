---- MODULE AgentRunProofs ----
(***************************************************************************)
(* Theorems about AgentRun.  To the backend the agent is one of JobRun's     *)
(* clients, so what is proved of JobRun holds of the two together.  That the *)
(* agent only sends requests JobRun's clients may send rests on what it has  *)
(* in hand: the runs it knows of exist, and what it queued can be sent.      *)
(***************************************************************************)
EXTENDS AgentRun, JobRunProofs, WellFoundedInduction

(* A create that was answered with a run names it.                          *)
CreatesNameRuns ==
  \A c \in Client : calls[c].op = "create" /\ calls[c].reply = "ok"
      => calls[c].run \in ExistingRun

(* Only so many runs exist, so that a poll can name the latest.             *)
RunsBounded == \E n \in Nat : \A r \in ExistingRun : r <= n

PipeOK ==
  /\ pipe \in Pipe
  /\ pipe.run \in ExistingRun \cup {0}
  /\ pipe.step \notin {"idle", "creating"} => pipe.run # 0
  /\ pipe.step = "completing" => pipe.outcome \in Outcome

ProgressOK ==
  /\ progress \in ExistingRun \cup {0}
  /\ muted \subseteq ExistingRun

(* What is queued can be sent.                                              *)
Sendable ==
  {event \in QueuedEvent :
     /\ event.op = "patch" => event.arg \in {"RUNNING", "progress"}
     /\ event.op = "complete" => event.arg \in Outcome
     /\ event.run \in ExistingRun}

QueueOK == queue \in Seq(Sendable) /\ Len(queue) <= QueueBound

CacheOK ==
  /\ cache \in Cache
  /\ {cache.manual, cache.cancel} \subseteq ExistingRun \cup {0}

(* A task listens to an answer only while it has the request in hand.        *)
ConnOK ==
  /\ conn \in [Task -> Client \cup {NoClient}]
  /\ conn["progress"] # NoClient => progress \notin muted \cup {0}
  /\ conn["replay"] # NoClient => queue # <<>> /\ Head(queue).op # "record"

InHandOK ==
  /\ PipeOK /\ ProgressOK /\ QueueOK /\ CacheOK /\ ConnOK
  /\ reported \subseteq RunId

AgentIInv == TypeOK /\ CreatesNameRuns /\ RunsBounded /\ InHandOK

LEMMA SeqMonotone ==
  ASSUME NEW S, NEW T, S \subseteq T, NEW q \in Seq(S)
  PROVE  q \in Seq(T)
OBVIOUS

LEMMA AgentIInvType == AgentIInv => AgentTypeOK
<1> SUFFICES ASSUME AgentIInv PROVE AgentTypeOK
  OBVIOUS
<1>1. 0 \notin RunId /\ ExistingRun \subseteq RunId
  BY RunIdAssumption DEF ExistingRun
<1>2. ASSUME NEW r \in RunId, r \in {pipe.run, progress, cache.manual, cache.cancel} \cup muted
      PROVE  runs[r].status # "ABSENT"
  BY <1>1, <1>2 DEF AgentIInv, InHandOK, PipeOK, ProgressOK, CacheOK, ExistingRun
<1>3. /\ queue \in Seq(QueuedEvent) /\ Len(queue) <= QueueBound
      /\ \A i \in DOMAIN queue : runs[queue[i].run].status # "ABSENT"
  <2>1. Sendable \subseteq QueuedEvent /\ \A event \in Sendable : event.run \in ExistingRun
    BY DEF Sendable
  <2>2. queue \in Seq(QueuedEvent)
    BY <2>1, SeqMonotone DEF AgentIInv, InHandOK, QueueOK
  <2>3. ASSUME NEW i \in DOMAIN queue
        PROVE  queue[i].run \in ExistingRun
    BY <2>1 DEF AgentIInv, InHandOK, QueueOK
  <2> QED
    BY <2>2, <2>3 DEF AgentIInv, InHandOK, QueueOK, ExistingRun
<1>4. progress \in RunId \cup {0} /\ muted \subseteq RunId
  BY <1>1 DEF AgentIInv, InHandOK, ProgressOK
<1> QED
  BY <1>2, <1>3, <1>4 DEF AgentIInv, InHandOK, PipeOK, CacheOK, ConnOK, AgentTypeOK

LEMMA AgentIInvInit == AgentInit => AgentIInv
<1> SUFFICES ASSUME AgentInit PROVE AgentIInv
  OBVIOUS
<1>1. TypeOK
  BY TypeInit DEF AgentInit
<1>2. CreatesNameRuns
  BY DEF AgentInit, Init, CreatesNameRuns, NoCall
<1>3. PipeOK /\ ProgressOK /\ CacheOK /\ reported \subseteq RunId
  BY DEF AgentInit, PipeOK, ProgressOK, CacheOK, Idle, Pipe, EmptyCache, Cache, Step, Calling
<1>4. QueueOK
  BY AgentAssumption DEF AgentInit, QueueOK
<1>5. ConnOK
  BY DEF AgentInit, ConnOK, Task
<1>6. RunsBounded
  <2>1. ExistingRun = {}
    BY DEF AgentInit, Init, NoRow, ExistingRun
  <2> QED
    BY <2>1, 0 \in Nat DEF RunsBounded
<1> QED
  BY <1>1, <1>2, <1>3, <1>4, <1>5, <1>6 DEF AgentIInv, InHandOK

----
(* Every step of the agent is a step of a client of JobRun.                  *)

LEMMA SentByClient ==
  ASSUME AgentIInv, NEW t \in Task, NEW request, Attempt(t, request),
         UNCHANGED backendVars,
         \A c \in Client : Send(c, request) =>
           SendCreate(c) \/ SendPatch(c) \/ SendComplete(c) \/ SendClaimOrCancel(c)
  PROVE  Next
BY DEF Attempt, backendVars, Clients, Next

LEMMA HeardByClient ==
  ASSUME AgentIInv, NEW t \in Task, NEW reply, Hear(t, reply), UNCHANGED backendVars
  PROVE  Next
<1>1. conn[t] \in Client
  BY DEF Hear, AgentIInv, InHandOK, ConnOK
<1> QED
  BY <1>1 DEF Hear, backendVars, Clients, Next

LEMMA PipeAttemptSends ==
  ASSUME AgentIInv, PipeAttempt
  PROVE  Next
<1>1. ASSUME NEW c \in Client, Send(c, PipeRequest)
      PROVE  SendCreate(c) \/ SendPatch(c) \/ SendComplete(c) \/ SendClaimOrCancel(c)
  <2>1. CASE pipe.step = "creating"
    <3>1. PipeRequest = Request("create", TheJob, 0,
                                IF TheJob \in WatchJob THEN "watch" ELSE "scheduler")
      BY <2>1 DEF PipeRequest
    <3> QED
      BY <1>1, <3>1, AgentAssumption DEF SendCreate
  <2>2. CASE pipe.step \in {"claiming", "starting", "completing"}
    <3>1. pipe.run \in ExistingRun
      BY <2>2 DEF AgentIInv, InHandOK, PipeOK
    <3>2. CASE pipe.step = "claiming"
      <4>1. PipeRequest = Request("claim", NoJob, pipe.run, "none")
        BY <3>2 DEF PipeRequest
      <4> QED
        BY <1>1, <3>1, <4>1 DEF SendClaimOrCancel
    <3>3. CASE pipe.step = "starting"
      <4>1. PipeRequest = Request("patch", NoJob, pipe.run, "RUNNING")
        BY <3>3 DEF PipeRequest
      <4> QED
        BY <1>1, <3>1, <4>1 DEF SendPatch, PatchOf
    <3>4. CASE pipe.step = "completing"
      <4>1. PipeRequest = Request("complete", NoJob, pipe.run, pipe.outcome)
        BY <3>4 DEF PipeRequest
      <4>2. pipe.outcome \in Reported
        BY <3>4, OutcomeAssumption DEF AgentIInv, InHandOK, PipeOK
      <4> QED
        BY <1>1, <3>1, <4>1, <4>2 DEF SendComplete
    <3> QED
      BY <2>2, <3>2, <3>3, <3>4
  <2> QED
    BY <2>1, <2>2 DEF PipeAttempt, Calling
<1> QED
  BY <1>1, SentByClient DEF PipeAttempt, Task

LEMMA ProgressAttemptSends ==
  ASSUME AgentIInv, ProgressAttempt
  PROVE  Next
<1>1. progress \in ExistingRun
  BY DEF ProgressAttempt, AgentIInv, InHandOK, ProgressOK
<1>2. ASSUME NEW c \in Client, Send(c, Request("patch", NoJob, progress, "progress"))
      PROVE  SendPatch(c)
  BY <1>1, <1>2 DEF SendPatch, PatchOf
<1> QED
  BY <1>2, SentByClient DEF ProgressAttempt, Task

(* The first event of the queue.                                            *)
LEMMA HeadSendable ==
  ASSUME QueueOK, queue # <<>>
  PROVE  Head(queue) \in Sendable
BY DEF QueueOK

LEMMA ReplayAttemptSends ==
  ASSUME AgentIInv, ReplayAttempt
  PROVE  Next
<1> DEFINE event == Head(queue)
<1>1. event \in Sendable /\ event.op \in {"patch", "complete"}
  BY HeadSendable DEF ReplayAttempt, AgentIInv, InHandOK, Sendable, QueuedEvent
<1>2. event.run \in ExistingRun
  BY <1>1 DEF Sendable
<1>3. ASSUME NEW c \in Client, Send(c, Request(event.op, NoJob, event.run, event.arg))
      PROVE  SendPatch(c) \/ SendComplete(c)
  <2>1. CASE event.op = "patch"
    BY <1>1, <1>2, <1>3, <2>1 DEF SendPatch, PatchOf, Sendable
  <2>2. CASE event.op = "complete"
    BY <1>1, <1>2, <1>3, <2>2, OutcomeAssumption DEF SendComplete, Sendable
  <2> QED
    BY <1>1, <2>1, <2>2
<1> QED
  BY <1>3, SentByClient DEF ReplayAttempt, Task

LEMMA OperatorSends ==
  ASSUME AgentIInv, Operator
  PROVE  Next
<1>1. PICK c \in Client :
         \/ Send(c, Request("create", TheJob, 0, "manual"))
         \/ \E r \in ExistingRun : Send(c, Request("cancel", NoJob, r, "none"))
  BY DEF Operator
<1>2. SendCreate(c) \/ SendClaimOrCancel(c)
  BY <1>1, AgentAssumption DEF SendCreate, SendClaimOrCancel
<1> QED
  BY <1>2 DEF Operator, backendVars, Clients, Next

LEMMA PipelineSteps ==
  ASSUME AgentIInv, Pipeline
  PROVE  Next \/ UNCHANGED vars
<1>1. CASE UNCHANGED backendVars /\ UNCHANGED <<calls, conn>>
  BY <1>1 DEF backendVars, rowVars, vars
<1>2. CASE UNCHANGED backendVars /\ \E reply \in Reply : Hear("pipe", reply)
  BY <1>2, HeardByClient DEF Task
<1>3. CASE PipeAttempt
  BY <1>3, PipeAttemptSends
<1> QED
  BY <1>1, <1>2, <1>3
     DEF Pipeline, TakesRun, SkipsFire, CancelledWhileWaiting, WindowOpens, Started, StartQueued,
         StartRefused, GotConfig, CancelSeen, TransferEnds,
         RecordRefused, RecordSaved, RecordQueued,
         Completed, CompletionRefused, CompletionQueued, GivesUp, Reply, vars

(* Every step of AgentRun is a step of JobRun, or changes nothing of it.      *)
LEMMA AgentStepIsStep ==
  ASSUME AgentIInv, [AgentNext]_agentVars
  PROVE  [Next]_vars
<1>1. CASE Fire \/ PickUp \/ JobPoll \/ AgentRestarts \/ \E t \in Task : AttemptLost(t)
  BY <1>1 DEF Fire, PickUp, JobPoll, AgentRestarts, AttemptLost
<1>2. CASE Pipeline
  BY <1>2, PipelineSteps
<1>3. CASE Progress
  <2>1. CASE Callback \/ ProgressDropped
    BY <2>1 DEF Callback, ProgressDropped
  <2>2. CASE ProgressAttempt
    BY <2>2, ProgressAttemptSends
  <2>3. CASE ProgressHeard
    BY <2>3, HeardByClient DEF ProgressHeard, Task
  <2>4. CASE ProgressQueued
    BY <2>4 DEF ProgressQueued, GivesUp, backendVars, rowVars, vars
  <2> QED
    BY <1>3, <2>1, <2>2, <2>3, <2>4 DEF Progress
<1>4. CASE Replay
  <2>1. CASE ReplayAttempt
    BY <2>1, ReplayAttemptSends
  <2>2. CASE ReplayRecord
    BY <2>2 DEF ReplayRecord
  <2>3. CASE ReplayDone
    BY <2>3, HeardByClient DEF ReplayDone, Task
  <2>4. CASE ReplayRefused
    <3>1. conn["replay"] \in Client
      BY <2>4 DEF ReplayRefused, AgentIInv, InHandOK, ConnOK, Task
    <3> QED
      BY <2>4, <3>1 DEF ReplayRefused, backendVars, Clients, Next
  <2> QED
    BY <1>4, <2>1, <2>2, <2>3, <2>4 DEF Replay
<1>5. ASSUME NEW c \in Client, Unheard(c)
      PROVE  Next
  BY <1>5 DEF Unheard, backendVars, Clients, Next
<1>6. CASE Operator
  BY <1>6, OperatorSends
<1>7. CASE Backend
  BY <1>7 DEF Backend, Next
<1>8. CASE UNCHANGED agentVars
  BY <1>8 DEF agentVars
<1> QED
  BY <1>1, <1>2, <1>3, <1>4, <1>5, <1>6, <1>7, <1>8 DEF AgentNext

----
(* What is in hand stays there: how the parts of the invariant persist.      *)

LEMMA RunsPersist ==
  ASSUME TypeOK, TypeOK', [Next]_vars
  PROVE  ExistingRun \subseteq ExistingRun'
<1> SUFFICES ASSUME NEW r \in RunId, runs[r].status # "ABSENT"
             PROVE  runs'[r].status # "ABSENT"
  BY DEF ExistingRun
<1>1. [Lifecycle!Next]_(Lifecycle!vars)
  BY StepRefines
<1>2. RunPhase[r] # "absent"
  BY PhaseTellsStatus
<1>3. RunPhase = [q \in RunId |-> RunPhase[q]]
  BY DEF RunPhase
<1>4. RunPhase'[r] # "absent"
  <2>1. ASSUME NEW q \in RunId, NEW j \in Job, Lifecycle!OpenRun(q, j)
        PROVE  RunPhase'[r] # "absent"
    BY <1>2, <1>3, <2>1 DEF Lifecycle!OpenRun
  <2>2. ASSUME NEW q \in RunId, Lifecycle!Take(q) \/ Lifecycle!Start(q)
        PROVE  RunPhase'[r] # "absent"
    BY <1>2, <1>3, <2>2 DEF Lifecycle!Take, Lifecycle!Start
  <2>3. ASSUME NEW q \in RunId, NEW o \in Terminal, Lifecycle!Close(q, o)
        PROVE  RunPhase'[r] # "absent"
    BY <1>2, <1>3, <2>3 DEF Lifecycle!Close, Terminal
  <2>4. CASE UNCHANGED Lifecycle!vars
    BY <1>2, <2>4 DEF Lifecycle!vars
  <2> QED
    BY <1>1, <2>1, <2>2, <2>3, <2>4 DEF Lifecycle!Next
<1> QED
  BY <1>4 DEF RunPhase, PhaseOf

(* A step opens one run at most.                                            *)
LEMMA RunsGrow ==
  ASSUME TypeOK, TypeOK', [Next]_vars
  PROVE  \E q : ExistingRun' \subseteq ExistingRun \cup {q}
<1>1. [Lifecycle!Next]_(Lifecycle!vars)
  BY StepRefines
<1>2. PICK q : \A r \in RunId \ {q} : RunPhase[r] = "absent" => RunPhase'[r] = "absent"
  <2>1. RunPhase = [r \in RunId |-> RunPhase[r]]
    BY DEF RunPhase
  <2>2. ASSUME NEW q \in RunId, NEW ph, RunPhase' \in {RunPhase, [RunPhase EXCEPT ![q] = ph]}
        PROVE  \A r \in RunId \ {q} : RunPhase[r] = "absent" => RunPhase'[r] = "absent"
    BY <2>1, <2>2
  <2>3. \/ RunPhase' = RunPhase
        \/ \E q \in RunId : \E ph : RunPhase' = [RunPhase EXCEPT ![q] = ph]
    BY <1>1 DEF Lifecycle!Next, Lifecycle!OpenRun, Lifecycle!Take, Lifecycle!Start,
                Lifecycle!Close, Lifecycle!vars
  <2> QED
    BY <2>2, <2>3
<1>3. ASSUME NEW r \in RunId
      PROVE  /\ RunPhase[r] = "absent" <=> runs[r].status = "ABSENT"
             /\ RunPhase'[r] = "absent" <=> runs'[r].status = "ABSENT"
  BY DEF RunPhase, PhaseOf, TypeOK, Row, Status, Active, Terminal
<1> QED
  BY <1>2, <1>3 DEF ExistingRun

LEMMA RunsBoundedStep ==
  ASSUME TypeOK, TypeOK', [Next]_vars, RunsBounded
  PROVE  RunsBounded'
<1>1. PICK n \in Nat : \A r \in ExistingRun : r <= n
  BY DEF RunsBounded
<1>2. PICK q : ExistingRun' \subseteq ExistingRun \cup {q}
  BY RunsGrow
<1>3. ExistingRun \subseteq Nat /\ ExistingRun' \subseteq Nat
  BY RunIdAssumption DEF ExistingRun
<1>4. CASE q \in ExistingRun'
  <2>1. q \in Nat
    BY <1>3, <1>4
  <2>2. \A r \in ExistingRun' : r <= n + q
    BY <1>1, <1>2, <1>3, <2>1
  <2> QED
    BY <2>1, <2>2, n + q \in Nat DEF RunsBounded
<1>5. CASE q \notin ExistingRun'
  BY <1>1, <1>2, <1>5 DEF RunsBounded
<1> QED
  BY <1>4, <1>5

(* Only CreateInsert answers a create with "ok".                            *)
LEMMA CallReplaced ==
  ASSUME TypeOK, CreatesNameRuns, ExistingRun \subseteq ExistingRun', NEW c \in Client, NEW call,
         calls' = [calls EXCEPT ![c] = call],
         call.op = "create" /\ call.reply = "ok" => call.run \in ExistingRun'
  PROVE  CreatesNameRuns'
<1>1. calls' \in [Client -> Call \cup {call}] /\ calls'[c] = call
      /\ \A d \in Client \ {c} : calls'[d] = calls[d]
  BY DEF TypeOK
<1> QED
  BY <1>1 DEF CreatesNameRuns

LEMMA CallMovesOn ==
  ASSUME TypeOK, CreatesNameRuns, ExistingRun \subseteq ExistingRun', NEW c \in Client,
         \/ \E reply \in {"conflict", "invalid"} : Answer(c, reply)
         \/ calls[c].op # "create" /\ Answer(c, "ok")
         \/ calls' = [calls EXCEPT ![c].phase = "read"]
         \/ calls' = [calls EXCEPT ![c].phase = "refuse"]
         \/ \E s \in Active : calls' = [calls EXCEPT ![c].phase = "read", ![c].seen = s]
  PROVE  CreatesNameRuns'
<1>1. calls[c] \in Call
  BY DEF TypeOK
<1>2. ASSUME NEW reply \in Reply, Answer(c, reply), calls[c].op # "create" \/ reply # "ok"
      PROVE  CreatesNameRuns'
  <2> DEFINE call == [calls[c] EXCEPT !.phase = "replied", !.reply = reply, !.seen = "none"]
  <2>1. calls' = [calls EXCEPT ![c] = call]
    BY <1>1, <1>2 DEF TypeOK, Answer
  <2>2. call.op = calls[c].op /\ call.reply = reply
    BY <1>1 DEF Call
  <2> QED
    BY <1>2, <2>1, <2>2, CallReplaced
<1>3. ASSUME NEW ph, NEW s, \/ calls' = [calls EXCEPT ![c].phase = ph]
                            \/ calls' = [calls EXCEPT ![c].phase = ph, ![c].seen = s]
      PROVE  CreatesNameRuns'
  <2>1. PICK call \in {[calls[c] EXCEPT !.phase = ph],
                       [calls[c] EXCEPT !.phase = ph, !.seen = s]} :
          calls' = [calls EXCEPT ![c] = call]
    BY <1>1, <1>3 DEF TypeOK
  <2>2. call.op = calls[c].op /\ call.reply = calls[c].reply /\ call.run = calls[c].run
    BY <1>1 DEF Call
  <2> QED
    BY <2>1, <2>2, CallReplaced DEF CreatesNameRuns
<1> QED
  BY <1>2, <1>3 DEF Reply

LEMMA CreateInsertNames ==
  ASSUME TypeOK, CreatesNameRuns, ExistingRun \subseteq ExistingRun', NEW c \in Client,
         CreateInsert(c)
  PROVE  CreatesNameRuns'
<1>1. CASE Answer(c, "conflict")
  BY <1>1, CallMovesOn
<1>2. ASSUME NEW r \in RunId,
             runs' = [runs EXCEPT ![r] =
               [NoRow EXCEPT !.job = calls[c].job, !.status = "PENDING", !.trigger = calls[c].arg,
                             !.dispatched = DispatchedAtInsert(calls[c].arg)]],
             calls' = [calls EXCEPT ![c].phase = "replied", ![c].reply = "ok", ![c].run = r]
      PROVE  CreatesNameRuns'
  <2> DEFINE call == [calls[c] EXCEPT !.phase = "replied", !.reply = "ok", !.run = r]
  <2>1. calls' = [calls EXCEPT ![c] = call]
    BY <1>2 DEF TypeOK
  <2>2. call.run = r
    BY DEF TypeOK, Call
  <2>3. r \in ExistingRun'
    BY <1>2 DEF TypeOK, NoRow, ExistingRun
  <2> QED
    BY <2>1, <2>2, <2>3, CallReplaced
<1> QED
  BY <1>1, <1>2 DEF CreateInsert

LEMMA CreatesNameRunsStep ==
  ASSUME TypeOK, TypeOK', [Next]_vars, CreatesNameRuns
  PROVE  CreatesNameRuns'
<1>1. ExistingRun \subseteq ExistingRun'
  BY RunsPersist
<1>2. CASE UNCHANGED calls
  BY <1>1, <1>2 DEF CreatesNameRuns
<1>3. CASE Handlers
  <2>1. PICK c \in Client :
          \/ CreateRead(c) \/ CreateInsert(c) \/ ReadRow(c) \/ RefuseFinished(c)
          \/ PatchWrite(c) \/ CompleteWrite(c) \/ ClaimWrite(c) \/ CancelWrite(c)
    BY <1>3 DEF Handlers
  <2>2. CASE CreateInsert(c)
    BY <1>1, <2>2, CreateInsertNames
  <2>3. CASE CreateRead(c)
    BY <1>1, <2>3, CallMovesOn DEF CreateRead
  <2>4. CASE ReadRow(c) \/ RefuseFinished(c)
    BY <1>1, <2>4, CallMovesOn DEF ReadRow, RefuseFinished
  <2>5. CASE PatchWrite(c) \/ CompleteWrite(c) \/ ClaimWrite(c) \/ CancelWrite(c)
    BY <1>1, <2>5, CallMovesOn DEF PatchWrite, CompleteWrite, ClaimWrite, CancelWrite, At
  <2> QED
    BY <2>1, <2>2, <2>3, <2>4, <2>5
<1>4. CASE Clients
  <2>1. ASSUME NEW c \in Client, NEW op, NEW j, NEW r, NEW arg, Send(c, Request(op, j, r, arg))
        PROVE  CreatesNameRuns'
    <3>1. Request(op, j, r, arg).reply = "none"
      BY DEF Request, NoCall
    <3> QED
      BY <1>1, <2>1, <3>1, CallReplaced DEF Send
  <2>2. ASSUME NEW c \in Client, ReceiveReply(c) \/ Disconnect(c)
        PROVE  CreatesNameRuns'
    <3>1. NoCall.reply = "none"
      BY DEF NoCall
    <3> QED
      BY <1>1, <2>2, <3>1, CallReplaced DEF ReceiveReply, Disconnect
  <2> QED
    BY <1>4, <2>1, <2>2 DEF Clients, SendCreate, SendPatch, SendComplete, SendClaimOrCancel
<1>5. UNCHANGED calls \/ Clients \/ Handlers
  BY DEF Next, WorkerStep, MissedScan, MissedJob, TimeoutScan, TimeoutRow, DispatchScan,
         DispatchRow, CloseRow, TickEnds, TickFails, Environment, TimeLimitPasses, FireIsMissed,
         SwitchJob, CloseAlert, vars
<1> QED
  BY <1>2, <1>3, <1>4, <1>5

LEMMA PipeKept ==
  ASSUME PipeOK, ExistingRun \subseteq ExistingRun', pipe' = pipe
  PROVE  PipeOK'
BY DEF PipeOK

LEMMA ProgressKept ==
  ASSUME ProgressOK, ExistingRun \subseteq ExistingRun', progress' \in {progress, 0},
         muted' \subseteq muted
  PROVE  ProgressOK'
BY DEF ProgressOK

LEMMA SendableGrows ==
  ASSUME ExistingRun \subseteq ExistingRun'
  PROVE  Sendable \subseteq Sendable'
BY DEF Sendable

LEMMA QueueKept ==
  ASSUME QueueOK, ExistingRun \subseteq ExistingRun', queue' = queue
  PROVE  QueueOK'
<1>1. queue' \in Seq(Sendable')
  BY SendableGrows, SeqMonotone DEF QueueOK
<1> QED
  BY <1>1 DEF QueueOK

LEMMA QueueGrows ==
  ASSUME QueueOK, ExistingRun \subseteq ExistingRun', NEW event \in Sendable, Enqueue(event)
  PROVE  QueueOK' /\ (queue # <<>> => queue' # <<>> /\ Head(queue') = Head(queue))
<1>1. queue' \in Seq(Sendable) /\ Len(queue') = Len(queue) + 1 /\ Len(queue) < QueueBound
      /\ Len(queue) \in Nat
  BY DEF QueueOK, Enqueue
<1>2. queue' \in Seq(Sendable')
  BY <1>1, SendableGrows, SeqMonotone
<1>3. Len(queue') <= QueueBound
  BY <1>1, AgentAssumption
<1>4. queue # <<>> => queue' # <<>> /\ Head(queue') = Head(queue)
  BY DEF QueueOK, Enqueue
<1> QED
  BY <1>2, <1>3, <1>4 DEF QueueOK

LEMMA QueueShrinks ==
  ASSUME QueueOK, ExistingRun \subseteq ExistingRun', queue # <<>>,
         queue' \in {queue, Tail(queue)}
  PROVE  QueueOK'
<1>1. queue' \in Seq(Sendable) /\ Len(queue') <= Len(queue) /\ Len(queue') \in Nat
      /\ Len(queue) \in Nat
  BY DEF QueueOK
<1>2. queue' \in Seq(Sendable')
  BY <1>1, SendableGrows, SeqMonotone
<1>3. Len(queue') <= QueueBound
  BY <1>1, AgentAssumption DEF QueueOK
<1> QED
  BY <1>2, <1>3 DEF QueueOK

LEMMA CacheKept ==
  ASSUME CacheOK, ExistingRun \subseteq ExistingRun', cache' = cache
  PROVE  CacheOK'
BY DEF CacheOK

LEMMA ConnKept ==
  ASSUME ConnOK, conn' = conn \/ \E t \in Task : conn' = [conn EXCEPT ![t] = NoClient],
         progress' = progress, muted' \subseteq muted,
         queue # <<>> => queue' # <<>> /\ Head(queue') = Head(queue)
  PROVE  ConnOK'
BY DEF ConnOK, Task

(* The events that the pipeline and the callbacks queue.                    *)
LEMMA QueuedSendable ==
  ASSUME NEW r \in ExistingRun, NEW op, NEW arg,
         \/ op = "patch" /\ arg \in {"RUNNING", "progress"}
         \/ op = "complete" /\ arg \in Outcome
         \/ op = "record" /\ arg = "none"
  PROVE  Queued(op, r, arg) \in Sendable
BY DEF Queued, Sendable, QueuedEvent, ExistingRun

----
(* Each action keeps what is in hand.                                       *)

LEMMA HeardRunExists ==
  ASSUME TypeOK, CreatesNameRuns, ConnOK, NEW t \in Task, Hear(t, "ok")
  PROVE  Heard(t).run \in ExistingRun
<1>1. conn[t] \in Client /\ calls[conn[t]] \in Call /\ calls[conn[t]].phase = "replied"
  BY DEF ConnOK, Hear, ReceiveReply, TypeOK
<1>2. CASE calls[conn[t]].op = "create"
  BY <1>1, <1>2 DEF CreatesNameRuns, Hear, Heard
<1>3. CASE calls[conn[t]].op # "create"
  BY <1>1, <1>3 DEF TypeOK, CallsWellFormed, Call, Op, Heard, ExistingRun
<1> QED
  BY <1>2, <1>3

LEMMA PipelineInHand ==
  ASSUME AgentIInv, ExistingRun \subseteq ExistingRun', Pipeline
  PROVE  InHandOK'
<1>1. /\ TypeOK /\ CreatesNameRuns /\ PipeOK /\ ProgressOK /\ QueueOK /\ CacheOK /\ ConnOK
      /\ reported \subseteq RunId /\ 0 \notin RunId /\ ExistingRun \subseteq RunId
  BY RunIdAssumption DEF AgentIInv, InHandOK, ExistingRun
<1>2. progress' = progress /\ cache' = cache /\ muted' \subseteq muted
  BY DEF Pipeline, PipeAttempt, TakesRun, SkipsFire, CancelledWhileWaiting, WindowOpens, Started,
         StartQueued, StartRefused, GotConfig, CancelSeen, TransferEnds,
         RecordRefused, RecordSaved, RecordQueued,
         Completed, CompletionRefused, CompletionQueued
<1>3. ProgressOK' /\ CacheOK'
  BY <1>1, <1>2, ProgressKept, CacheKept
<1>4. PipeOK'
  <2>1. CASE pipe' \in {pipe, Idle}
    BY <1>1, <2>1, PipeKept DEF PipeOK, Idle, Pipe, Step
  <2>2. CASE TakesRun
    <3>1. Heard("pipe").run \in ExistingRun
      BY <1>1, <2>2, HeardRunExists DEF TakesRun, Task
    <3> QED
      BY <1>1, <2>2, <3>1 DEF TakesRun, PipeOK, Pipe, Step
  <2>3. ASSUME NEW step \in {"starting", "config", "transfer", "recording"}, Goto(step),
               pipe.step \notin {"idle", "creating"}
        PROVE  PipeOK'
    BY <1>1, <2>3 DEF Goto, PipeOK, Pipe, Step, Calling
  <2>4. ASSUME NEW outcome \in Outcome, Conclude(outcome), pipe.step \notin {"idle", "creating"}
        PROVE  PipeOK'
    BY <1>1, <2>4 DEF Conclude, PipeOK, Pipe, Step, Calling
  <2> QED
    BY <2>1, <2>2, <2>3, <2>4
       DEF Pipeline, PipeAttempt, SkipsFire, CancelledWhileWaiting, WindowOpens, Started,
           StartQueued, StartRefused, GotConfig, CancelSeen, TransferEnds,
           RecordRefused, RecordSaved,
           RecordQueued, Completed, CompletionRefused, CompletionQueued, Outcome
<1>5. pipe.step \in Step \ {"idle", "creating"} => pipe.run \in ExistingRun
  BY <1>1 DEF PipeOK
<1>6. QueueOK' /\ (queue # <<>> => queue' # <<>> /\ Head(queue') = Head(queue))
  <2>1. CASE UNCHANGED queue
    BY <1>1, <2>1, QueueKept
  <2>2. CASE \E event \in Sendable : Enqueue(event)
    BY <1>1, <2>2, QueueGrows
  <2>3. CASE StartQueued
    BY <1>5, <2>2, <2>3, QueuedSendable DEF StartQueued, KeepStart, Step, Calling
  <2>4. CASE RecordQueued
    BY <1>5, <2>2, <2>4, QueuedSendable DEF RecordQueued, KeepRecord, Step, Calling
  <2>5. CASE CompletionQueued
    BY <1>1, <1>5, <2>2, <2>5, QueuedSendable DEF CompletionQueued, PipeOK, Step, Calling
  <2> QED
    BY <2>1, <2>3, <2>4, <2>5
       DEF Pipeline, PipeAttempt, TakesRun, SkipsFire, CancelledWhileWaiting, WindowOpens,
           Started, StartRefused, GotConfig, CancelSeen, TransferEnds,
           RecordRefused, RecordSaved, Completed,
           CompletionRefused
<1>7. ConnOK'
  <2>1. CASE PipeAttempt
    BY <1>1, <2>1 DEF PipeAttempt, Attempt, ConnOK, Task
  <2>2. CASE conn' \in {conn, [conn EXCEPT !["pipe"] = NoClient]}
    BY <1>1, <1>2, <1>6, <2>2, ConnKept DEF Task
  <2> QED
    BY <2>1, <2>2
       DEF Pipeline, TakesRun, SkipsFire, CancelledWhileWaiting, WindowOpens, Started,
           StartQueued, StartRefused, GotConfig, CancelSeen, TransferEnds,
           RecordRefused, RecordSaved,
           RecordQueued, Completed, CompletionRefused, CompletionQueued, Hear, GivesUp
<1>8. reported' \subseteq RunId
  <2>1. reported' \in {reported, reported \cup {pipe.run}}
    BY DEF Pipeline, PipeAttempt, TakesRun, SkipsFire, CancelledWhileWaiting, WindowOpens, Started,
           StartQueued, StartRefused, GotConfig, CancelSeen, TransferEnds,
           RecordRefused, RecordSaved,
           RecordQueued, Completed, CompletionRefused, CompletionQueued
  <2>2. reported' # reported => pipe.step = "recording"
    BY DEF Pipeline, PipeAttempt, TakesRun, SkipsFire, CancelledWhileWaiting, WindowOpens, Started,
           StartQueued, StartRefused, GotConfig, CancelSeen, TransferEnds,
           RecordRefused, RecordSaved,
           RecordQueued, Completed, CompletionRefused, CompletionQueued
  <2> QED
    BY <1>1, <1>5, <2>1, <2>2 DEF Step
<1> QED
  BY <1>3, <1>4, <1>6, <1>7, <1>8 DEF InHandOK

LEMMA ProgressInHand ==
  ASSUME AgentIInv, ExistingRun \subseteq ExistingRun', Progress
  PROVE  InHandOK'
<1>1. /\ PipeOK /\ ProgressOK /\ QueueOK /\ CacheOK /\ ConnOK
      /\ reported \subseteq RunId /\ 0 \notin ExistingRun
  BY RunIdAssumption DEF AgentIInv, InHandOK, ExistingRun
<1>2. PipeOK' /\ CacheOK' /\ reported' \subseteq RunId
  BY <1>1, PipeKept, CacheKept
     DEF Progress, Callback, ProgressAttempt, ProgressDropped, ProgressHeard, ProgressQueued
<1>3. CASE Callback
  <2>1. pipe.run \in ExistingRun
    BY <1>1, <1>3 DEF Callback, PipeOK
  <2>2. ProgressOK' /\ QueueOK'
    BY <1>1, <1>3, <2>1, QueueKept DEF Callback, ProgressOK
  <2>3. ConnOK'
    BY <1>1, <1>3 DEF Callback, ConnOK
  <2> QED
    BY <1>2, <2>2, <2>3 DEF InHandOK
<1>4. CASE ProgressAttempt
  <2>1. ProgressOK' /\ QueueOK'
    BY <1>1, <1>4, ProgressKept, QueueKept DEF ProgressAttempt
  <2>2. ConnOK'
    BY <1>1, <1>4 DEF ProgressAttempt, Attempt, ConnOK, Task
  <2> QED
    BY <1>2, <2>1, <2>2 DEF InHandOK
<1>5. CASE ProgressDropped
  <2>1. ProgressOK' /\ QueueOK'
    BY <1>1, <1>5, ProgressKept, QueueKept DEF ProgressDropped
  <2>2. ConnOK'
    BY <1>1, <1>5 DEF ProgressDropped, ConnOK
  <2> QED
    BY <1>2, <2>1, <2>2 DEF InHandOK
<1>6. CASE ProgressHeard
  <2>1. progress \in ExistingRun
    BY <1>1, <1>6 DEF ProgressHeard, Hear, ConnOK, ProgressOK
  <2>2. ProgressOK' /\ QueueOK'
    BY <1>1, <1>6, <2>1, QueueKept DEF ProgressHeard, ProgressOK
  <2>3. ConnOK'
    BY <1>1, <1>6 DEF ProgressHeard, Hear, ConnOK, Task
  <2> QED
    BY <1>2, <2>2, <2>3 DEF InHandOK
<1>7. CASE ProgressQueued
  <2>1. ProgressOK'
    BY <1>1, <1>7, ProgressKept DEF ProgressQueued
  <2>2. Queued("patch", progress, "progress") \in Sendable
    BY <1>1, <1>7, QueuedSendable DEF ProgressQueued, ProgressOK
  <2>3. QueueOK' /\ (queue # <<>> => queue' # <<>> /\ Head(queue') = Head(queue))
    BY <1>1, <1>7, <2>2, QueueGrows DEF ProgressQueued
  <2>4. ConnOK'
    BY <1>1, <1>7, <2>3 DEF ProgressQueued, GivesUp, ConnOK
  <2> QED
    BY <1>2, <2>1, <2>3, <2>4 DEF InHandOK
<1> QED
  BY <1>3, <1>4, <1>5, <1>6, <1>7 DEF Progress

(* A poll answers with runs of the table.                                   *)
LEMMA LatestExists ==
  ASSUME RunsBounded, NEW rows, rows \subseteq ExistingRun
  PROVE  Latest(rows) \in ExistingRun \cup {0}
<1>1. CASE rows = {}
  BY <1>1 DEF Latest
<1>2. CASE rows # {}
  <2> DEFINE bounds == {n \in Nat : \A r \in rows : r <= n}
             less == OpToRel(<, Nat)
  <2>1. rows \subseteq Nat
    BY RunIdAssumption DEF ExistingRun
  <2>2. bounds # {} /\ bounds \subseteq Nat
    BY DEF RunsBounded
  <2>3. PICK n \in bounds : \A m \in bounds : <<m, n>> \notin less
    <3>1. IsWellFoundedOn(less, Nat)
      BY NatLessThanWellFounded
    <3> HIDE DEF bounds, less
    <3> QED
      BY <2>2, <3>1, WFMin
  <2>4. \A m \in bounds : ~(m < n)
    BY <2>2, <2>3 DEF OpToRel
  <2>5. n \in rows
    <3>1. SUFFICES ASSUME n \notin rows PROVE FALSE
      OBVIOUS
    <3>2. \A r \in rows : r <= n - 1
      BY <2>1, <3>1
    <3>3. n - 1 \in Nat
      <4>1. PICK r \in rows : r \in Nat /\ r <= n - 1
        BY <1>2, <2>1, <3>2
      <4> QED
        BY <4>1
    <3> QED
      BY <2>4, <3>2, <3>3
  <2>6. \E r \in rows : \A q \in rows : q <= r
    BY <2>5
  <2> QED
    BY <1>2, <2>6 DEF Latest
<1> QED
  BY <1>1, <1>2

LEMMA JobPollInHand ==
  ASSUME AgentIInv, JobPoll
  PROVE  InHandOK'
<1>1. PendingManual \subseteq ExistingRun /\ Unacknowledged \subseteq ExistingRun
  BY DEF PendingManual, Unacknowledged, ExistingRun
<1>2. /\ Latest(PendingManual) \in ExistingRun \cup {0}
      /\ Latest(Unacknowledged) \in ExistingRun \cup {0}
  BY <1>1, LatestExists DEF AgentIInv
<1>3. ExistingRun' = ExistingRun /\ ExistingRun \subseteq RunId
  BY DEF JobPoll, vars, ExistingRun
<1>4. CacheOK'
  BY <1>2, <1>3 DEF JobPoll, CacheOK, Cache, EmptyCache
<1>5. PipeOK' /\ ProgressOK' /\ QueueOK'
  BY <1>3, PipeKept, ProgressKept, QueueKept DEF AgentIInv, InHandOK, JobPoll
<1>6. ConnOK' /\ reported' \subseteq RunId
  BY DEF AgentIInv, InHandOK, JobPoll, ConnOK
<1> QED
  BY <1>4, <1>5, <1>6 DEF InHandOK

LEMMA ForgetsInHand ==
  ASSUME AgentIInv, ExistingRun \subseteq ExistingRun', AgentForgets
  PROVE  InHandOK'
<1>1. PipeOK' /\ ProgressOK' /\ CacheOK'
  BY DEF AgentForgets, PipeOK, ProgressOK, CacheOK, Idle, Pipe, EmptyCache, Cache, Step, Calling
<1>2. QueueOK'
  BY QueueKept DEF AgentIInv, InHandOK, AgentForgets
<1>3. ConnOK' /\ reported' \subseteq RunId
  BY DEF AgentIInv, InHandOK, AgentForgets, ConnOK, Task
<1> QED
  BY <1>1, <1>2, <1>3 DEF InHandOK

LEMMA ReplayInHand ==
  ASSUME AgentIInv, ExistingRun \subseteq ExistingRun', Replay
  PROVE  InHandOK'
<1>1. /\ PipeOK /\ ProgressOK /\ QueueOK /\ CacheOK /\ ConnOK /\ reported \subseteq RunId
  BY DEF AgentIInv, InHandOK
<1>2. CASE ReplayRefused
  BY <1>2, ForgetsInHand DEF ReplayRefused
<1>3. CASE ReplayAttempt \/ ReplayRecord \/ ReplayDone
  <2>1. PipeOK' /\ ProgressOK' /\ CacheOK'
    BY <1>1, <1>3, PipeKept, ProgressKept, CacheKept DEF ReplayAttempt, ReplayRecord, ReplayDone
  <2>2. QueueOK'
    <3>1. queue # <<>> /\ queue' \in {queue, Tail(queue)}
      BY <1>1, <1>3 DEF ReplayAttempt, ReplayRecord, ReplayDone, Hear, ConnOK
    <3> QED
      BY <1>1, <3>1, QueueShrinks
  <2>3. ConnOK'
    <3>1. CASE ReplayAttempt
      BY <1>1, <3>1 DEF ReplayAttempt, Attempt, ConnOK, Task
    <3>2. CASE ReplayRecord
      BY <1>1, <3>2 DEF ReplayRecord, ConnOK
    <3>3. CASE ReplayDone
      BY <1>1, <3>3 DEF ReplayDone, Hear, ConnOK, Task
    <3> QED
      BY <1>3, <3>1, <3>2, <3>3
  <2>4. reported' \subseteq RunId
    <3>1. CASE ReplayRecord
      <4>1. Head(queue) \in Sendable
        BY <1>1, <3>1, HeadSendable DEF ReplayRecord
      <4> QED
        BY <1>1, <3>1, <4>1 DEF ReplayRecord, Sendable, ExistingRun
    <3>2. CASE ReplayAttempt \/ ReplayDone
      BY <1>1, <3>2 DEF ReplayAttempt, ReplayDone
    <3> QED
      BY <1>3, <3>1, <3>2
  <2> QED
    BY <2>1, <2>2, <2>3, <2>4 DEF InHandOK
<1> QED
  BY <1>2, <1>3 DEF Replay

(* The fire, the pickup, and the steps that are not the agent's.             *)
LEMMA OthersInHand ==
  ASSUME AgentIInv, ExistingRun \subseteq ExistingRun',
         \/ Fire \/ PickUp \/ Operator \/ Backend \/ UNCHANGED agentVars
         \/ \E t \in Task : AttemptLost(t)
         \/ \E c \in Client : Unheard(c)
  PROVE  InHandOK'
<1>1. /\ PipeOK /\ ProgressOK /\ QueueOK /\ CacheOK /\ ConnOK /\ reported \subseteq RunId
      /\ 0 \notin RunId
  BY RunIdAssumption DEF AgentIInv, InHandOK
<1>2. /\ UNCHANGED <<progress, queue, cache, muted, reported>>
      /\ \/ conn' = conn
         \/ \E t \in Task : conn' = [conn EXCEPT ![t] = NoClient]
  BY DEF Fire, PickUp, Operator, Backend, AttemptLost, Unheard, agentVars
<1>3. ProgressOK' /\ QueueOK' /\ CacheOK' /\ ConnOK' /\ reported' \subseteq RunId
  BY <1>1, <1>2, ProgressKept, QueueKept, CacheKept, ConnKept
<1>4. PipeOK'
  <2>1. CASE pipe' = pipe
    BY <1>1, <2>1, PipeKept
  <2>2. CASE Fire
    BY <1>1, <2>2 DEF Fire, PipeOK, Idle, Pipe, Step, Calling
  <2>3. CASE PickUp
    BY <1>1, <2>3 DEF PickUp, PipeOK, CacheOK, Cache, Idle, Pipe, Step, Calling
  <2> QED
    BY <2>1, <2>2, <2>3 DEF Operator, Backend, AttemptLost, Unheard, agentVars
<1> QED
  BY <1>3, <1>4 DEF InHandOK

LEMMA AgentIInvStep == AgentIInv /\ [AgentNext]_agentVars => AgentIInv'
<1> SUFFICES ASSUME AgentIInv, [AgentNext]_agentVars PROVE AgentIInv'
  OBVIOUS
<1>1. [Next]_vars
  BY AgentStepIsStep
<1>2. TypeOK'
  BY <1>1, TypeStep DEF AgentIInv
<1>3. ExistingRun \subseteq ExistingRun'
  BY <1>1, <1>2, RunsPersist DEF AgentIInv
<1>4. CreatesNameRuns'
  BY <1>1, <1>2, CreatesNameRunsStep DEF AgentIInv
<1>5. InHandOK'
  <2>1. CASE Pipeline
    BY <1>3, <2>1, PipelineInHand
  <2>2. CASE Progress
    BY <1>3, <2>2, ProgressInHand
  <2>3. CASE JobPoll
    BY <2>3, JobPollInHand
  <2>4. CASE Replay
    BY <1>3, <2>4, ReplayInHand
  <2>5. CASE AgentRestarts
    BY <1>3, <2>5, ForgetsInHand DEF AgentRestarts
  <2>6. CASE \/ Fire \/ PickUp \/ Operator \/ Backend \/ UNCHANGED agentVars
             \/ \E t \in Task : AttemptLost(t)
             \/ \E c \in Client : Unheard(c)
    BY <1>3, <2>6, OthersInHand
  <2> QED
    BY <2>1, <2>2, <2>3, <2>4, <2>5, <2>6 DEF AgentNext
<1>6. RunsBounded'
  BY <1>1, <1>2, RunsBoundedStep DEF AgentIInv
<1> QED
  BY <1>2, <1>4, <1>5, <1>6 DEF AgentIInv

LEMMA AgentInvariant == AgentSpec => []AgentIInv
<1> QED
  BY AgentIInvInit, AgentIInvStep, PTL DEF AgentSpec

----
(* The pipeline always has a run in hand where it needs one, and the runs in  *)
(* the agent's hands, in its cache and in its queue exist at the backend.    *)
THEOREM AgentTypeCorrect == AgentSpec => []AgentTypeOK
<1> QED
  BY AgentInvariant, AgentIInvType, PTL

(* The agent never does to the backend what JobRun's clients may not do:      *)
(* with any number of runs, clients and queued events, whatever a restart, a *)
(* lost answer or a replay leads to, each step of the two together is one of *)
(* JobRun.                                                                  *)
THEOREM AgentImplements == AgentSpec => ImplementsJobRun
<1>1. AgentInit => Init
  BY DEF AgentInit
<1> QED
  BY <1>1, AgentInvariant, AgentStepIsStep, PTL DEF AgentSpec, ImplementsJobRun, Spec

(* So what the handlers of job_runs.py and the worker promise holds of the    *)
(* agent and the backend together: ...                                      *)
THEOREM BackendSafe ==
  AgentSpec => [](/\ OneActivePerJob /\ StuckWasNeverTaken /\ GrantIsExclusive
                  /\ FailureAlertIsCurrent)
BY AgentImplements, OneActive, StuckNeverTaken, GrantExclusive, FailureAlertCurrent, PTL
   DEF ImplementsJobRun

(* ... the outcome of a run is final, a run is handed over once in its life,  *)
(* and runs have the life cycle of RunLifecycle, whatever restarts, lost      *)
(* answers and replays lead to.                                             *)
THEOREM BackendFinal == AgentSpec => TerminalIsFinal /\ HandedOverOnce /\ ImplementsLifecycle
BY AgentImplements, Final, GrantedOnce, Refinement, PTL DEF ImplementsJobRun

====
