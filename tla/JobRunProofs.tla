---- MODULE JobRunProofs ----
(***************************************************************************)
(* Theorems about JobRun, for any sets of jobs, runs, clients, reported      *)
(* statuses and alert types.                                                *)
(*                                                                          *)
(* TypeOK is inductive as it stands: it says which rows and calls are well  *)
(* formed, and that is what every handler relies on between its read and    *)
(* its write.  The other invariants each need TypeOK and themselves.        *)
(***************************************************************************)
EXTENDS JobRun, TLAPS

(* A row that is there stays there: no handler of runs deletes one.          *)
RowsPersist ==
  \A r \in RunId : runs[r].status # "ABSENT" => runs'[r].status # "ABSENT"

----
(* How the pieces that the actions are made of keep TypeOK.                 *)

(* Only a RUNNING row can be one that lacks its started_at.                 *)
WellStamped(row) == row.unstamped => row.status = "RUNNING"

LEMMA RowsWellStamped ==
  ASSUME TypeOK, NEW r \in RunId
  PROVE  WellStamped(runs[r])
BY DEF TypeOK, RowsWellFormed, WellStamped

(* Replacing an existing row by another row of the same job.                *)
LEMMA RowReplaced ==
  ASSUME TypeOK, NEW r \in RunId, NEW row \in Row, runs[r].status # "ABSENT",
         row.status # "ABSENT", row.job = runs[r].job, WellStamped(row),
         runs' = [runs EXCEPT ![r] = row]
  PROVE  runs' \in [RunId -> Row] /\ RowsWellFormed' /\ RowsPersist
BY DEF TypeOK, RowsWellFormed, RowsPersist, WellStamped

(* Closing an existing row gives such a row, whatever the outcome is.        *)
LEMMA ClosedRow ==
  ASSUME TypeOK, NEW r \in RunId, runs[r].status # "ABSENT", NEW status \in Terminal
  PROVE  /\ Closed(runs[r], status) \in Row
         /\ Closed(runs[r], status).status = status
         /\ Closed(runs[r], status).job = runs[r].job
         /\ Closed(runs[r], status).dispatched = runs[r].dispatched
         /\ WellStamped(Closed(runs[r], status))
         /\ runs[r].job \in Job
<1>1. runs[r] \in Row
  BY DEF TypeOK
<1>2. status \in Status
  BY DEF Status
<1> QED
  BY <1>1, <1>2 DEF TypeOK, RowsWellFormed, Closed, Row, WellStamped

(* Replacing a call by another that is well formed, as far as the rows go:   *)
(* a row that a call names stays there.                                     *)
LEMMA CallBecomes ==
  ASSUME TypeOK, RowsPersist, NEW c \in Client, NEW call \in Call,
         calls' = [calls EXCEPT ![c] = call],
         call.op = "create" => call.job \in Job /\ call.arg \in Trigger,
         call.op \in {"patch", "complete", "claim", "cancel"} =>
           call.run \in RunId /\ runs[call.run].status # "ABSENT",
         call.op = "none" <=> call.phase = "idle",
         call.phase = "refuse" => call.op \in {"patch", "complete"},
         call.phase = "read" /\ call.op \in {"patch", "complete"} => call.seen \in Active,
         call.phase = "read" /\ call.op = "complete" => call.arg \in CompleteStatus
  PROVE  calls' \in [Client -> Call] /\ CallsWellFormed'
<1>1. calls \in [Client -> Call] /\ CallsWellFormed
  BY DEF TypeOK
<1>2. calls'[c] = call /\ \A d \in Client \ {c} : calls'[d] = calls[d]
  BY <1>1
<1>3. calls' \in [Client -> Call]
  BY <1>1
<1>4. CallsWellFormed'
  BY <1>1, <1>2 DEF CallsWellFormed, RowsPersist
<1> QED
  BY <1>3, <1>4

(* What is known of a call on which a handler works.                        *)
LEMMA CallInHand ==
  ASSUME TypeOK, NEW c \in Client, calls[c].phase # "idle"
  PROVE  /\ calls[c] \in Call /\ calls[c].op # "none"
         /\ calls[c].op = "create" => calls[c].job \in Job /\ calls[c].arg \in Trigger
         /\ calls[c].op \in {"patch", "complete", "claim", "cancel"} =>
              calls[c].run \in RunId /\ runs[calls[c].run].status # "ABSENT"
BY DEF TypeOK, CallsWellFormed

(* Answering a request that is being handled.                               *)
LEMMA CallAnswered ==
  ASSUME TypeOK, NEW c \in Client, NEW reply \in Reply, calls[c].phase # "idle",
         Answer(c, reply), RowsPersist
  PROVE  calls' \in [Client -> Call] /\ CallsWellFormed'
<1> DEFINE answered == [calls[c] EXCEPT !.phase = "replied", !.reply = reply, !.seen = "none"]
<1>1. calls \in [Client -> Call] /\ calls[c] \in Call
  BY DEF TypeOK
<1>2. /\ answered \in Call /\ answered.phase = "replied"
      /\ answered.op = calls[c].op /\ answered.job = calls[c].job
      /\ answered.run = calls[c].run /\ answered.arg = calls[c].arg
  BY <1>1 DEF Call
<1>3. calls' = [calls EXCEPT ![c] = answered]
  BY <1>1 DEF Answer
<1> HIDE DEF answered
<1> QED
  BY <1>2, <1>3, CallInHand, CallBecomes

(* A step that leaves the calls alone.                                      *)
LEMMA CallsKept ==
  ASSUME TypeOK, calls' = calls, RowsPersist
  PROVE  calls' \in [Client -> Call] /\ CallsWellFormed'
BY DEF TypeOK, CallsWellFormed, RowsPersist, Call

LEMMA RunsKept ==
  ASSUME TypeOK, runs' = runs
  PROVE  runs' \in [RunId -> Row] /\ RowsWellFormed' /\ RowsPersist
BY DEF TypeOK, RowsWellFormed, RowsPersist

LEMMA AlertsTyped ==
  ASSUME TypeOK, NEW j \in Job, NEW type
  PROVE  /\ Raise(type, j) \subseteq AlertType \X Job
         /\ Resolve(type, j) \subseteq AlertType \X Job
         /\ AlertsAfter(type, j) \subseteq AlertType \X Job
<1>1. /\ \A t : Raise(t, j) \subseteq AlertType \X Job
      /\ \A t : Resolve(t, j) \subseteq AlertType \X Job
  BY DEF TypeOK, Raise, Resolve
<1>2. alerts \subseteq AlertType \X Job
  BY DEF TypeOK
<1> QED
  BY <1>1, <1>2 DEF AlertsAfter

(* The job that a closed run belonged to has a fire in the future.          *)
LEMMA LateTyped ==
  ASSUME TypeOK, NEW j \in Job, Finished(j)
  PROVE  late' \in [Job -> BOOLEAN]
BY DEF TypeOK, Finished

----
(* Each action keeps TypeOK.                                                *)

LEMMA TypeInit == Init => TypeOK
BY JobAssumption
   DEF Init, TypeOK, RowsWellFormed, CallsWellFormed, NoRow, NoCall, Row, Call, Worker,
       Resting, Pass, Status, Active, Terminal, Trigger, Op, Reply

LEMMA TypeCreateRead ==
  ASSUME TypeOK, NEW c \in Client, CreateRead(c)
  PROVE  TypeOK'
<1> DEFINE read == [calls[c] EXCEPT !.phase = "read"]
<1>1. calls[c].op = "create" /\ calls[c].phase = "sent"
  BY DEF CreateRead, At
<1>2. runs' \in [RunId -> Row] /\ RowsWellFormed' /\ RowsPersist
  BY RunsKept DEF CreateRead, rowVars
<1>3. CASE Answer(c, "conflict")
  <2>1. calls' \in [Client -> Call] /\ CallsWellFormed'
    BY <1>1, <1>2, <1>3, CallAnswered DEF Reply
  <2> QED
    BY <1>2, <2>1 DEF TypeOK, CreateRead, rowVars
<1>4. CASE calls' = [calls EXCEPT ![c].phase = "read"]
  <2>1. /\ read \in Call /\ read.phase = "read" /\ read.op = "create"
        /\ read.job = calls[c].job /\ read.arg = calls[c].arg
    BY <1>1, CallInHand DEF Call
  <2>2. calls' = [calls EXCEPT ![c] = read]
    BY <1>4 DEF TypeOK
  <2> HIDE DEF read
  <2>3. calls' \in [Client -> Call] /\ CallsWellFormed'
    BY <1>1, <1>2, <2>1, <2>2, CallInHand, CallBecomes
  <2> QED
    BY <1>2, <2>3 DEF TypeOK, CreateRead, rowVars
<1> QED
  BY <1>3, <1>4 DEF CreateRead

LEMMA TypeCreateInsert ==
  ASSUME TypeOK, NEW c \in Client, CreateInsert(c)
  PROVE  TypeOK'
<1> DEFINE j == calls[c].job
           new == [NoRow EXCEPT !.job = j, !.status = "PENDING", !.trigger = calls[c].arg,
                                !.dispatched = DispatchedAtInsert(calls[c].arg)]
<1>1. j \in Job /\ calls[c].arg \in Trigger /\ calls[c] \in Call
  BY DEF TypeOK, CallsWellFormed, CreateInsert, At
<1>2. j # NoJob
  BY <1>1, JobAssumption
<1>3. new \in Row /\ new.job = j /\ new.status = "PENDING" /\ ~new.unstamped
  <2>1. DispatchedAtInsert(calls[c].arg) \in BOOLEAN
    BY DEF DispatchedAtInsert
  <2> QED
    BY <1>1, <2>1 DEF NoRow, Row, Status, Active
<1>4. CASE Answer(c, "conflict") /\ UNCHANGED runs
  <2>1. runs' \in [RunId -> Row] /\ RowsWellFormed' /\ RowsPersist
    BY <1>4, RunsKept
  <2>2. calls' \in [Client -> Call] /\ CallsWellFormed'
    BY <1>4, <2>1, CallAnswered DEF CreateInsert, At, Reply
  <2> QED
    BY <2>1, <2>2 DEF TypeOK, CreateInsert
<1>5. ASSUME NEW r \in RunId, runs[r].status = "ABSENT", runs' = [runs EXCEPT ![r] = new],
             calls' = [calls EXCEPT ![c].phase = "replied", ![c].reply = "ok", ![c].run = r]
      PROVE  TypeOK'
  <2> HIDE DEF new
  <2>1. runs' \in [RunId -> Row] /\ RowsWellFormed' /\ RowsPersist
    BY <1>2, <1>3, <1>5 DEF TypeOK, RowsWellFormed, RowsPersist
  <2> DEFINE told == [calls[c] EXCEPT !.phase = "replied", !.reply = "ok", !.run = r]
  <2>2. /\ told \in Call /\ told.phase = "replied" /\ told.op = "create"
        /\ told.job = j /\ told.arg = calls[c].arg
    BY <1>1 DEF Call, Reply, CreateInsert, At
  <2>3. calls' = [calls EXCEPT ![c] = told]
    BY <1>5 DEF TypeOK
  <2> HIDE DEF told
  <2>4. calls' \in [Client -> Call] /\ CallsWellFormed'
    BY <1>1, <2>1, <2>2, <2>3, CallBecomes
  <2> QED
    BY <2>1, <2>4 DEF TypeOK, CreateInsert
<1> QED
  BY <1>4, <1>5 DEF CreateInsert, NextFreeId

LEMMA TypeReadRow ==
  ASSUME TypeOK, NEW c \in Client, ReadRow(c)
  PROVE  TypeOK'
<1> DEFINE status == runs[calls[c].run].status
           read == [calls[c] EXCEPT !.phase = "read", !.seen = status]
           refused == [calls[c] EXCEPT !.phase = "refuse"]
<1>1. /\ calls[c] \in Call /\ calls[c].op \in {"patch", "complete"}
      /\ calls[c].run \in RunId /\ status # "ABSENT" /\ calls[c].phase # "idle"
  BY CallInHand DEF ReadRow
<1>2. runs' \in [RunId -> Row] /\ RowsWellFormed' /\ RowsPersist
  BY RunsKept DEF ReadRow, rowVars
<1>3. CASE Answer(c, "invalid")
  <2>1. calls' \in [Client -> Call] /\ CallsWellFormed'
    BY <1>1, <1>2, <1>3, CallAnswered DEF Reply
  <2> QED
    BY <1>2, <2>1 DEF TypeOK, ReadRow, rowVars
<1>4. CASE /\ status \in Active /\ (calls[c].op = "complete" => calls[c].arg \in CompleteStatus)
           /\ calls' = [calls EXCEPT ![c].phase = "read", ![c].seen = status]
  <2>1. /\ read \in Call /\ read.phase = "read" /\ read.seen = status
        /\ read.op = calls[c].op /\ read.run = calls[c].run /\ read.arg = calls[c].arg
    BY <1>1, <1>4 DEF Call
  <2>2. calls' = [calls EXCEPT ![c] = read]
    BY <1>4 DEF TypeOK
  <2> HIDE DEF read
  <2>3. /\ read.op \in {"patch", "complete"} /\ read.run \in RunId
        /\ runs[read.run].status # "ABSENT" /\ read.seen \in Active
        /\ read.op = "complete" => read.arg \in CompleteStatus
    BY <1>1, <1>4, <2>1
  <2> HIDE DEF status
  <2>4. calls' \in [Client -> Call] /\ CallsWellFormed'
    BY <1>2, <2>1, <2>2, <2>3, CallBecomes
  <2> QED
    BY <1>2, <2>4 DEF TypeOK, ReadRow, rowVars
<1>5. CASE calls' = [calls EXCEPT ![c].phase = "refuse"]
  <2>1. /\ refused \in Call /\ refused.phase = "refuse"
        /\ refused.op = calls[c].op /\ refused.run = calls[c].run
    BY <1>1 DEF Call
  <2>2. calls' = [calls EXCEPT ![c] = refused]
    BY <1>5 DEF TypeOK
  <2> HIDE DEF refused
  <2>3. calls' \in [Client -> Call] /\ CallsWellFormed'
    BY <1>1, <1>2, <2>1, <2>2, CallBecomes
  <2> QED
    BY <1>2, <2>3 DEF TypeOK, ReadRow, rowVars
<1> QED
  BY <1>3, <1>4, <1>5 DEF ReadRow

LEMMA TypeRefuseFinished ==
  ASSUME TypeOK, NEW c \in Client, RefuseFinished(c)
  PROVE  TypeOK'
<1> DEFINE r == calls[c].run
<1>1. r \in RunId /\ runs[r] \in Row
  BY DEF TypeOK, CallsWellFormed, RefuseFinished
<1>2. runs' \in [RunId -> Row] /\ RowsWellFormed' /\ RowsPersist
  <2>1. CASE runs[r].status = "CANCELLED"
    <3>1. runs' = [runs EXCEPT ![r] = [runs[r] EXCEPT !.ack = TRUE]]
      BY <1>1, <2>1 DEF RefuseFinished, TypeOK
    <3>2. /\ [runs[r] EXCEPT !.ack = TRUE] \in Row
          /\ WellStamped([runs[r] EXCEPT !.ack = TRUE])
      BY <1>1, RowsWellStamped DEF Row, WellStamped
    <3> QED
      BY <1>1, <2>1, <3>1, <3>2, RowReplaced DEF Row
  <2>2. CASE runs[r].status # "CANCELLED"
    BY <2>2, RunsKept DEF RefuseFinished
  <2> QED
    BY <2>1, <2>2
<1>3. calls' \in [Client -> Call] /\ CallsWellFormed'
  BY <1>2, CallAnswered DEF RefuseFinished, Reply
<1> QED
  BY <1>2, <1>3 DEF TypeOK, RefuseFinished

LEMMA TypePatchWrite ==
  ASSUME TypeOK, NEW c \in Client, PatchWrite(c)
  PROVE  TypeOK'
<1> DEFINE r == calls[c].run
<1>1. /\ r \in RunId /\ runs[r] \in Row /\ runs[r].status # "ABSENT"
      /\ runs[r].job # NoJob
  BY DEF TypeOK, CallsWellFormed, RowsWellFormed, PatchWrite, At
<1>2. /\ Patched(runs[r], calls[c].arg) \in Row
      /\ Patched(runs[r], calls[c].arg).job = runs[r].job
      /\ Patched(runs[r], calls[c].arg).status # "ABSENT"
      /\ WellStamped(Patched(runs[r], calls[c].arg))
  BY <1>1, RowsWellStamped DEF Patched, Row, Status, Active, WellStamped
<1>3. runs' \in [RunId -> Row] /\ RowsWellFormed' /\ RowsPersist
  <2>1. CASE UNCHANGED runs
    BY <2>1, RunsKept
  <2>2. CASE runs' = [runs EXCEPT ![r] = Patched(@, calls[c].arg)]
    BY <1>1, <1>2, <2>2, RowReplaced DEF TypeOK
  <2> QED
    BY <2>1, <2>2 DEF PatchWrite
<1>4. calls' \in [Client -> Call] /\ CallsWellFormed'
  BY <1>3, CallAnswered DEF PatchWrite, At, Reply
<1> QED
  BY <1>3, <1>4 DEF TypeOK, PatchWrite

LEMMA TypeCompleteWrite ==
  ASSUME TypeOK, NEW c \in Client, CompleteWrite(c)
  PROVE  TypeOK'
<1> DEFINE r == calls[c].run
           status == calls[c].arg
<1>1. r \in RunId /\ runs[r].status # "ABSENT" /\ status \in Terminal
  BY DEF TypeOK, CallsWellFormed, CompleteWrite, At, CompleteStatus, Terminal
<1>2. /\ Closed(runs[r], status) \in Row
      /\ Closed(runs[r], status).job = runs[r].job
      /\ Closed(runs[r], status).status # "ABSENT"
      /\ WellStamped(Closed(runs[r], status))
      /\ runs[r].job \in Job
  BY <1>1, ClosedRow DEF Terminal
<1>3. CASE Answer(c, "conflict") /\ UNCHANGED <<late, runs, alerts>>
  <2>1. runs' \in [RunId -> Row] /\ RowsWellFormed' /\ RowsPersist
    BY <1>3, RunsKept
  <2>2. calls' \in [Client -> Call] /\ CallsWellFormed'
    BY <1>3, <2>1, CallAnswered DEF CompleteWrite, At, Reply
  <2> QED
    BY <1>3, <2>1, <2>2 DEF TypeOK, CompleteWrite
<1>4. CASE /\ runs' = [runs EXCEPT ![r] = Closed(@, status)]
           /\ Finished(runs[r].job)
           /\ alerts' = AlertsAfter(status, runs[r].job)
           /\ Answer(c, "ok")
  <2>1. runs' \in [RunId -> Row] /\ RowsWellFormed' /\ RowsPersist
    BY <1>1, <1>2, <1>4, RowReplaced DEF TypeOK
  <2>2. calls' \in [Client -> Call] /\ CallsWellFormed'
    BY <1>4, <2>1, CallAnswered DEF CompleteWrite, At, Reply
  <2>3. alerts' \subseteq AlertType \X Job
    BY <1>2, <1>4, AlertsTyped
  <2>4. late' \in [Job -> BOOLEAN]
    BY <1>2, <1>4, LateTyped
  <2> QED
    BY <2>1, <2>2, <2>3, <2>4 DEF TypeOK, CompleteWrite
<1> QED
  BY <1>3, <1>4 DEF CompleteWrite

LEMMA TypeClaimWrite ==
  ASSUME TypeOK, NEW c \in Client, ClaimWrite(c)
  PROVE  TypeOK'
<1> DEFINE r == calls[c].run
           row == [runs[r] EXCEPT !.dispatched = TRUE]
<1>1. r \in RunId /\ runs[r] \in Row /\ runs[r].status # "ABSENT"
  BY DEF TypeOK, CallsWellFormed, ClaimWrite, At
<1>2. row \in Row /\ row.job = runs[r].job /\ row.status # "ABSENT" /\ WellStamped(row)
  BY <1>1, RowsWellStamped DEF Row, WellStamped
<1>3. runs' \in [RunId -> Row] /\ RowsWellFormed' /\ RowsPersist
  <2>1. CASE UNCHANGED runs
    BY <2>1, RunsKept
  <2>2. CASE runs' = [runs EXCEPT ![r].dispatched = TRUE]
    <3>1. runs' = [runs EXCEPT ![r] = row]
      BY <1>1, <2>2 DEF TypeOK
    <3> HIDE DEF row
    <3> QED
      BY <1>1, <1>2, <3>1, RowReplaced
  <2> QED
    BY <2>1, <2>2 DEF ClaimWrite
<1>4. calls' \in [Client -> Call] /\ CallsWellFormed'
  BY <1>3, CallAnswered DEF ClaimWrite, At, Reply
<1> QED
  BY <1>3, <1>4 DEF TypeOK, ClaimWrite

LEMMA TypeCancelWrite ==
  ASSUME TypeOK, NEW c \in Client, CancelWrite(c)
  PROVE  TypeOK'
<1> DEFINE r == calls[c].run
           closed == Closed(runs[r], "CANCELLED")
           row == [closed EXCEPT !.cancelReq = TRUE]
<1>1. r \in RunId /\ runs[r].status # "ABSENT"
  BY DEF TypeOK, CallsWellFormed, CancelWrite, At
<1>2. /\ closed \in Row /\ closed.job = runs[r].job /\ closed.status # "ABSENT"
      /\ WellStamped(closed) /\ runs[r].job \in Job
  BY <1>1, ClosedRow DEF Terminal
<1> HIDE DEF closed
<1>3. row \in Row /\ row.job = runs[r].job /\ row.status # "ABSENT" /\ WellStamped(row)
  BY <1>2 DEF Row, WellStamped
<1>4. CASE Answer(c, "conflict") /\ UNCHANGED <<late, runs>>
  <2>1. runs' \in [RunId -> Row] /\ RowsWellFormed' /\ RowsPersist
    BY <1>4, RunsKept
  <2>2. calls' \in [Client -> Call] /\ CallsWellFormed'
    BY <1>4, <2>1, CallAnswered DEF CancelWrite, At, Reply
  <2> QED
    BY <1>4, <2>1, <2>2 DEF TypeOK, CancelWrite
<1>5. CASE /\ runs' = [runs EXCEPT ![r] = [Closed(@, "CANCELLED") EXCEPT !.cancelReq = TRUE]]
           /\ Finished(runs[r].job)
           /\ Answer(c, "ok")
  <2>1. runs' = [runs EXCEPT ![r] = row]
    BY <1>1, <1>5 DEF TypeOK, closed
  <2> HIDE DEF row
  <2>2. runs' \in [RunId -> Row] /\ RowsWellFormed' /\ RowsPersist
    BY <1>1, <1>3, <2>1, RowReplaced
  <2>3. calls' \in [Client -> Call] /\ CallsWellFormed'
    BY <1>5, <2>2, CallAnswered DEF CancelWrite, At, Reply
  <2>4. late' \in [Job -> BOOLEAN]
    BY <1>2, <1>5, LateTyped
  <2> QED
    BY <2>2, <2>3, <2>4 DEF TypeOK, CancelWrite
<1> QED
  BY <1>4, <1>5 DEF CancelWrite

(* A pass closes a selected row, or finds that it no longer matches.         *)
LEMMA TypeCloseRow ==
  ASSUME TypeOK, NEW r \in RunId, NEW matches \in BOOLEAN, NEW closed, NEW alertType,
         CloseRow(r, matches, closed, alertType),
         matches => /\ runs[r].status # "ABSENT"
                    /\ closed \in Row /\ closed.status # "ABSENT"
                    /\ closed.job = runs[r].job /\ WellStamped(closed)
  PROVE  TypeOK'
<1>1. runs' \in [RunId -> Row] /\ RowsWellFormed' /\ RowsPersist
  <2>1. CASE matches
    BY <2>1, RowReplaced DEF CloseRow
  <2>2. CASE ~matches
    BY <2>2, RunsKept DEF CloseRow
  <2> QED
    BY <2>1, <2>2
<1>2. calls' \in [Client -> Call] /\ CallsWellFormed'
  BY <1>1, CallsKept DEF CloseRow
<1>3. alerts' \subseteq AlertType \X Job /\ late' \in [Job -> BOOLEAN]
  <2>1. CASE matches
    <3>1. runs[r].job \in Job
      BY <2>1 DEF TypeOK, RowsWellFormed, Row
    <3>2. alerts' = Raise(alertType, runs[r].job) /\ Finished(runs[r].job)
      BY <2>1 DEF CloseRow
    <3> QED
      BY <3>1, <3>2, AlertsTyped, LateTyped
  <2>2. CASE ~matches
    BY <2>2 DEF CloseRow, TypeOK
  <2> QED
    BY <2>1, <2>2
<1>4. worker' \in Worker /\ enabled' = enabled
  BY DEF CloseRow, TypeOK, Worker
<1> QED
  BY <1>1, <1>2, <1>3, <1>4 DEF TypeOK

LEMMA TypeTimeoutRow ==
  ASSUME TypeOK, NEW r \in RunId, TimeoutRow(r)
  PROVE  TypeOK'
<1>1. CloseRow(r, StillRunning(r), Closed(runs[r], "TIMEOUT"), "JOB_TIMEOUT")
  BY DEF TimeoutRow
<1>2. StillRunning(r) \in BOOLEAN /\ (StillRunning(r) => runs[r].status # "ABSENT")
  BY DEF StillRunning
<1>3. StillRunning(r) => /\ Closed(runs[r], "TIMEOUT") \in Row
                         /\ Closed(runs[r], "TIMEOUT").status # "ABSENT"
                         /\ Closed(runs[r], "TIMEOUT").job = runs[r].job
                         /\ WellStamped(Closed(runs[r], "TIMEOUT"))
  BY <1>2, ClosedRow DEF Terminal
<1> QED
  BY <1>1, <1>2, <1>3, TypeCloseRow

LEMMA TypeDispatchRow ==
  ASSUME TypeOK, NEW r \in RunId, DispatchRow(r)
  PROVE  TypeOK'
<1> DEFINE closed == Closed(runs[r], "STUCK")
           row == [closed EXCEPT !.cancelReq = TRUE, !.ack = TRUE]
<1>1. CloseRow(r, StillUndispatched(r), row, "JOB_STUCK_PENDING")
  BY DEF DispatchRow
<1>2. StillUndispatched(r) \in BOOLEAN /\ (StillUndispatched(r) => runs[r].status # "ABSENT")
  BY DEF StillUndispatched, Undispatched
<1>3. StillUndispatched(r) => /\ closed \in Row /\ closed.status # "ABSENT"
                              /\ closed.job = runs[r].job /\ WellStamped(closed)
  BY <1>2, ClosedRow DEF Terminal
<1> HIDE DEF closed
<1>4. StillUndispatched(r) => /\ row \in Row /\ row.status # "ABSENT"
                              /\ row.job = runs[r].job /\ WellStamped(row)
  BY <1>3 DEF Row, WellStamped
<1> QED
  BY <1>1, <1>2, <1>4, TypeCloseRow

LEMMA TypeWorkerStep ==
  ASSUME TypeOK, WorkerStep \/ TickFails
  PROVE  TypeOK'
<1>1. CASE MissedScan
  <2> DEFINE watched == {<<j, late[j]>> : j \in {i \in Job : Watched(i)}}
  <2>1. watched \in SUBSET (Job \X BOOLEAN)
    BY DEF TypeOK
  <2>2. worker' = [worker EXCEPT !.pass = "missed", !.jobs = watched]
    BY <1>1 DEF MissedScan
  <2> HIDE DEF watched
  <2>3. worker' \in Worker
    BY <2>1, <2>2 DEF TypeOK, Worker, Pass
  <2> QED
    BY <1>1, <2>3, CallsKept, RunsKept DEF MissedScan, TypeOK, rowVars
<1>2. CASE TimeoutScan
  BY <1>2, CallsKept, RunsKept DEF TimeoutScan, TimeoutRows, TypeOK, rowVars, Worker, Pass
<1>3. CASE DispatchScan
  BY <1>3, CallsKept, RunsKept DEF DispatchScan, TypeOK, rowVars, Worker, Pass
<1>4. CASE TickEnds \/ TickFails
  BY <1>4, CallsKept, RunsKept DEF TickEnds, TickFails, TypeOK, rowVars, Worker, Pass, Resting
<1>5. ASSUME NEW j \in Job, NEW isLate \in BOOLEAN, MissedJob(j, isLate)
      PROVE  TypeOK'
  <2>1. alerts' \subseteq AlertType \X Job
    BY <1>5, AlertsTyped DEF MissedJob, MissedAlert
  <2> QED
    BY <1>5, <2>1, CallsKept, RunsKept DEF MissedJob, TypeOK, Worker
<1> QED
  BY <1>1, <1>2, <1>3, <1>4, <1>5, TypeTimeoutRow, TypeDispatchRow DEF WorkerStep

LEMMA TypeEnvironment ==
  ASSUME TypeOK, Environment
  PROVE  TypeOK'
<1>1. ASSUME NEW r \in RunId, TimeLimitPasses(r)
      PROVE  TypeOK'
  <2> DEFINE row == [runs[r] EXCEPT !.overdue = TRUE]
  <2>1. runs[r].status # "ABSENT" /\ runs[r] \in Row
    BY <1>1 DEF TimeLimitPasses, Undispatched, TypeOK
  <2>2. row \in Row /\ row.job = runs[r].job /\ row.status # "ABSENT" /\ WellStamped(row)
    BY <2>1, RowsWellStamped DEF Row, WellStamped
  <2>3. runs' = [runs EXCEPT ![r] = row]
    BY <1>1 DEF TimeLimitPasses, TypeOK
  <2> HIDE DEF row
  <2>4. runs' \in [RunId -> Row] /\ RowsWellFormed' /\ RowsPersist
    BY <2>1, <2>2, <2>3, RowReplaced
  <2> QED
    BY <1>1, <2>4, CallsKept DEF TimeLimitPasses, TypeOK
<1>2. ASSUME NEW j \in Job, FireIsMissed(j) \/ SwitchJob(j)
      PROVE  TypeOK'
  BY <1>2, CallsKept, RunsKept DEF FireIsMissed, SwitchJob, TypeOK
<1>3. ASSUME NEW a \in alerts, CloseAlert(a)
      PROVE  TypeOK'
  BY <1>3, CallsKept, RunsKept DEF CloseAlert, TypeOK
<1> QED
  BY <1>1, <1>2, <1>3 DEF Environment

(* A client sends a well-formed request.                                    *)
LEMMA TypeSend ==
  ASSUME TypeOK, NEW c \in Client, UNCHANGED <<rowVars, worker>>,
         NEW op \in Op, NEW j \in Job \cup {NoJob}, NEW r \in RunId \cup {0},
         NEW arg \in Trigger \cup Status \cup {"bare RUNNING", "progress", "none"},
         Send(c, Request(op, j, r, arg)),
         op = "create" => j \in Job /\ arg \in Trigger,
         op # "create" => r \in RunId /\ runs[r].status # "ABSENT"
  PROVE  TypeOK'
<1> DEFINE request == Request(op, j, r, arg)
<1>1. /\ request \in Call /\ request.phase = "sent" /\ request.op = op
      /\ request.job = j /\ request.run = r /\ request.arg = arg
  BY DEF Request, NoCall, Call
<1>2. calls' = [calls EXCEPT ![c] = request]
  BY DEF Send
<1> HIDE DEF request
<1>3. calls' \in [Client -> Call]
  BY <1>1, <1>2 DEF TypeOK
<1>4. CallsWellFormed'
  BY <1>1, <1>2 DEF TypeOK, CallsWellFormed, rowVars, Op
<1> QED
  BY <1>3, <1>4, RunsKept DEF TypeOK, rowVars

LEMMA TypeForget ==
  ASSUME TypeOK, NEW c \in Client, UNCHANGED <<rowVars, worker>>,
         calls' = [calls EXCEPT ![c] = NoCall]
  PROVE  TypeOK'
<1>1. calls' \in [Client -> Call] /\ CallsWellFormed'
  BY DEF TypeOK, CallsWellFormed, rowVars, NoCall, Call
<1> QED
  BY <1>1, RunsKept DEF TypeOK, rowVars

LEMMA TypeClients ==
  ASSUME TypeOK, Clients
  PROVE  TypeOK'
<1>1. UNCHANGED <<rowVars, worker>>
  BY DEF Clients
<1>2. ASSUME NEW c \in Client, SendCreate(c)
      PROVE  TypeOK'
  <2>1. PICK j \in Job, arg \in Trigger : Send(c, Request("create", j, 0, arg))
    BY <1>2 DEF SendCreate, Trigger
  <2> QED
    BY <1>1, <2>1, TypeSend DEF Op
<1>3. ASSUME NEW c \in Client, SendPatch(c)
      PROVE  TypeOK'
  <2>1. PICK r \in ExistingRun, a \in {"RUNNING", "bare RUNNING", "progress"} :
          Send(c, Request("patch", NoJob, r, a))
    BY <1>3 DEF SendPatch, PatchOf
  <2>2. r \in RunId /\ runs[r].status # "ABSENT"
    BY DEF ExistingRun
  <2>3. a \in Trigger \cup Status \cup {"bare RUNNING", "progress", "none"}
    BY DEF Status, Active
  <2> QED
    BY <1>1, <2>1, <2>2, <2>3, TypeSend DEF Op
<1>4. ASSUME NEW c \in Client, SendComplete(c)
      PROVE  TypeOK'
  <2>1. PICK r \in ExistingRun, s \in Reported : Send(c, Request("complete", NoJob, r, s))
    BY <1>4 DEF SendComplete
  <2>2. r \in RunId /\ runs[r].status # "ABSENT"
    BY DEF ExistingRun
  <2>3. s \in Status
    BY ReportedAssumption DEF Status, Terminal
  <2> QED
    BY <1>1, <2>1, <2>2, <2>3, TypeSend DEF Op
<1>5. ASSUME NEW c \in Client, SendClaimOrCancel(c)
      PROVE  TypeOK'
  <2>1. PICK r \in ExistingRun, op \in {"claim", "cancel"} :
          Send(c, Request(op, NoJob, r, "none"))
    BY <1>5 DEF SendClaimOrCancel
  <2>2. r \in RunId /\ runs[r].status # "ABSENT"
    BY DEF ExistingRun
  <2> QED
    BY <1>1, <2>1, <2>2, TypeSend DEF Op
<1>6. ASSUME NEW c \in Client, ReceiveReply(c) \/ Disconnect(c)
      PROVE  TypeOK'
  BY <1>1, <1>6, TypeForget DEF ReceiveReply, Disconnect
<1> QED
  BY <1>2, <1>3, <1>4, <1>5, <1>6 DEF Clients

LEMMA TypeStep ==
  ASSUME TypeOK, [Next]_vars
  PROVE  TypeOK'
<1>1. CASE Clients
  BY <1>1, TypeClients
<1>2. CASE Handlers
  BY <1>2, TypeCreateRead, TypeCreateInsert, TypeReadRow, TypeRefuseFinished,
     TypePatchWrite, TypeCompleteWrite, TypeClaimWrite, TypeCancelWrite DEF Handlers
<1>3. CASE WorkerStep \/ TickFails
  BY <1>3, TypeWorkerStep
<1>4. CASE Environment
  BY <1>4, TypeEnvironment
<1>5. CASE UNCHANGED vars
  BY <1>5, CallsKept, RunsKept DEF TypeOK, vars
<1> QED
  BY <1>1, <1>2, <1>3, <1>4, <1>5 DEF Next

(* In every reachable state the rows, the requests being handled and the     *)
(* worker's selection are well formed: no handler ever writes a row that is  *)
(* not there, or a status it did not validate.                              *)
THEOREM TypeCorrect == Spec => []TypeOK
<1>1. Init => TypeOK
  BY TypeInit
<1>2. TypeOK /\ [Next]_vars => TypeOK'
  BY TypeStep
<1> QED
  BY <1>1, <1>2, PTL DEF Spec

----
(* JobRun implements RunLifecycle: every step opens, takes, starts or closes *)
(* one run, or changes nothing that RunLifecycle sees.                      *)

(* A row that is there is replaced: what RunLifecycle sees of it.            *)
LEMMA SeenOfRow ==
  ASSUME TypeOK, NEW r \in RunId, NEW row \in Row, runs' = [runs EXCEPT ![r] = row]
  PROVE  /\ RunPhase' = [RunPhase EXCEPT ![r] = PhaseOf(row.status)]
         /\ RunOwner' = [RunOwner EXCEPT ![r] = row.job]
         /\ RunsTaken' = {q \in RunId \ {r} : q \in RunsTaken}
                            \cup {q \in {r} : row.dispatched}
<1>1. /\ runs \in [RunId -> Row] /\ runs' \in [RunId -> Row]
      /\ \A q \in RunId : runs'[q] = IF q = r THEN row ELSE runs[q]
  BY DEF TypeOK
<1>2. RunPhase' = [RunPhase EXCEPT ![r] = PhaseOf(row.status)]
  BY <1>1 DEF RunPhase, PhaseOf
<1>3. RunOwner' = [RunOwner EXCEPT ![r] = row.job]
  BY <1>1 DEF RunOwner
<1>4. RunsTaken' = {q \in RunId \ {r} : q \in RunsTaken} \cup {q \in {r} : row.dispatched}
  BY <1>1 DEF RunsTaken
<1> QED
  BY <1>2, <1>3, <1>4

LEMMA SeenUnchanged ==
  ASSUME runs' = runs
  PROVE  UNCHANGED Lifecycle!vars
BY DEF Lifecycle!vars, RunPhase, RunOwner, RunsTaken, PhaseOf

(* The row keeps its status, its job and its dispatch mark.                 *)
LEMMA SeenOfSame ==
  ASSUME TypeOK, NEW r \in RunId, NEW row \in Row, runs' = [runs EXCEPT ![r] = row],
         row.status = runs[r].status, row.job = runs[r].job,
         row.dispatched = runs[r].dispatched
  PROVE  UNCHANGED Lifecycle!vars
<1>1. RunPhase' = RunPhase
  BY SeenOfRow DEF RunPhase
<1>2. RunOwner' = RunOwner
  BY SeenOfRow DEF RunOwner
<1>3. RunsTaken' = RunsTaken
  BY SeenOfRow DEF RunsTaken
<1> QED
  BY <1>1, <1>2, <1>3 DEF Lifecycle!vars

(* An active run gets an outcome: RunLifecycle closes it.                    *)
LEMMA SeenOfClose ==
  ASSUME TypeOK, NEW r \in RunId, NEW row \in Row, runs' = [runs EXCEPT ![r] = row],
         runs[r].status \in Active, row.status \in Terminal,
         row.job = runs[r].job, row.dispatched = runs[r].dispatched,
         row.status = "STUCK" => Undispatched(r)
  PROVE  Lifecycle!Close(r, row.status)
<1>1. RunPhase' = [RunPhase EXCEPT ![r] = row.status]
  <2>1. PhaseOf(row.status) = row.status
    BY DEF PhaseOf, Terminal
  <2>2. RunPhase' = [RunPhase EXCEPT ![r] = PhaseOf(row.status)]
    BY SeenOfRow
  <2> QED
    BY <2>1, <2>2 DEF PhaseOf
<1>2. RunOwner' = RunOwner
  BY SeenOfRow DEF RunOwner
<1>3. RunsTaken' = RunsTaken
  BY SeenOfRow DEF RunsTaken
<1>4. RunPhase[r] \in Lifecycle!Open
  BY DEF RunPhase, PhaseOf, Active, Lifecycle!Open
<1>5. row.status = "STUCK" => RunPhase[r] = "waiting" /\ r \notin RunsTaken
  BY DEF RunPhase, RunsTaken, PhaseOf, Undispatched
<1> QED
  BY <1>1, <1>2, <1>3, <1>4, <1>5 DEF Lifecycle!Close

LEMMA CreateRefines ==
  ASSUME TypeOK, NEW c \in Client, CreateInsert(c)
  PROVE  [Lifecycle!Next]_(Lifecycle!vars)
<1> DEFINE j == calls[c].job
           new == [NoRow EXCEPT !.job = j, !.status = "PENDING", !.trigger = calls[c].arg,
                                !.dispatched = DispatchedAtInsert(calls[c].arg)]
<1>1. j \in Job /\ calls[c].arg \in Trigger
  BY DEF TypeOK, CallsWellFormed, CreateInsert, At
<1>2. new \in Row /\ new.job = j /\ new.status = "PENDING"
  <2>1. DispatchedAtInsert(calls[c].arg) \in BOOLEAN
    BY DEF DispatchedAtInsert
  <2> QED
    BY <1>1, <2>1 DEF NoRow, Row, Status, Active
<1>3. CASE UNCHANGED runs
  BY <1>3, SeenUnchanged
<1>4. ASSUME NEW r \in RunId, ~HasActiveRun(j), runs[r].status = "ABSENT",
             runs' = [runs EXCEPT ![r] = new]
      PROVE  Lifecycle!OpenRun(r, j)
  <2> HIDE DEF new, j
  <2>1. RunPhase' = [RunPhase EXCEPT ![r] = "waiting"]
    BY <1>2, <1>4, SeenOfRow DEF PhaseOf
  <2>2. RunOwner' = [RunOwner EXCEPT ![r] = j]
    BY <1>2, <1>4, SeenOfRow
  <2>3. RunsTaken' \in {RunsTaken, RunsTaken \cup {r}}
    <3>1. r \notin RunsTaken
      BY <1>4 DEF RunsTaken, TypeOK, RowsWellFormed
    <3>2. RunsTaken' = {q \in RunId \ {r} : q \in RunsTaken} \cup {q \in {r} : new.dispatched}
      BY <1>2, <1>4, SeenOfRow
    <3>3. RunsTaken \subseteq RunId
      BY DEF RunsTaken
    <3>4. CASE new.dispatched
      BY <3>1, <3>2, <3>3, <3>4
    <3>5. CASE ~new.dispatched
      BY <3>1, <3>2, <3>3, <3>5
    <3> QED
      BY <3>4, <3>5
  <2>4. RunPhase[r] = "absent"
    BY <1>4 DEF RunPhase, PhaseOf
  <2>5. \A q \in RunId : RunOwner[q] = j => RunPhase[q] \notin Lifecycle!Open
    BY <1>4 DEF RunOwner, RunPhase, PhaseOf, HasActiveRun, Active, Lifecycle!Open, TypeOK,
                Row, Status, Terminal
  <2> QED
    BY <2>1, <2>2, <2>3, <2>4, <2>5 DEF Lifecycle!OpenRun
<1> QED
  BY <1>1, <1>3, <1>4 DEF CreateInsert, InsertAllowed, NextFreeId, Lifecycle!Next

LEMMA PatchRefines ==
  ASSUME TypeOK, NEW c \in Client, PatchWrite(c)
  PROVE  [Lifecycle!Next]_(Lifecycle!vars)
<1> DEFINE r == calls[c].run
           row == Patched(runs[r], calls[c].arg)
<1>1. r \in RunId /\ runs[r] \in Row /\ calls[c].seen \in Active
  BY DEF TypeOK, CallsWellFormed, PatchWrite, At
<1>2. row \in Row /\ row.job = runs[r].job /\ row.dispatched = runs[r].dispatched
  BY <1>1 DEF Patched, Row, Status, Active
<1>3. CASE UNCHANGED runs
  BY <1>3, SeenUnchanged
<1>4. CASE runs' = [runs EXCEPT ![r] = Patched(@, calls[c].arg)] /\ MatchesRead(r, calls[c].seen)
  <2>1. runs' = [runs EXCEPT ![r] = row] /\ runs[r].status \in Active
    BY <1>1, <1>4 DEF TypeOK, MatchesRead
  <2>2. CASE row.status = runs[r].status
    <3> HIDE DEF row
    <3> QED
      BY <1>1, <1>2, <2>1, <2>2, SeenOfSame
  <2>3. CASE row.status # runs[r].status
    <3>1. row.status = "RUNNING"
      BY <1>1, <2>3 DEF Patched, Row
    <3> HIDE DEF row
    <3>2. RunPhase' = [RunPhase EXCEPT ![r] = "started"]
      BY <1>1, <1>2, <2>1, <3>1, SeenOfRow DEF PhaseOf
    <3>3. RunOwner' = RunOwner
      BY <1>1, <1>2, <2>1, SeenOfRow DEF RunOwner
    <3>4. RunsTaken' = RunsTaken
      BY <1>1, <1>2, <2>1, SeenOfRow DEF RunsTaken
    <3>5. RunPhase[r] \in Lifecycle!Open
      BY <1>1, <2>1 DEF RunPhase, PhaseOf, Active, Lifecycle!Open
    <3> QED
      BY <1>1, <3>2, <3>3, <3>4, <3>5 DEF Lifecycle!Start, Lifecycle!Next
  <2> QED
    BY <2>2, <2>3
<1> QED
  BY <1>3, <1>4 DEF PatchWrite

LEMMA CompleteRefines ==
  ASSUME TypeOK, NEW c \in Client, CompleteWrite(c)
  PROVE  [Lifecycle!Next]_(Lifecycle!vars)
<1> DEFINE r == calls[c].run
           row == Closed(runs[r], calls[c].arg)
<1>1. /\ r \in RunId /\ runs[r].status # "ABSENT"
      /\ calls[c].seen \in Active /\ calls[c].arg \in Terminal \ {"STUCK"}
  BY DEF TypeOK, CallsWellFormed, CompleteWrite, At, CompleteStatus, Terminal
<1>2. /\ row \in Row /\ row.status = calls[c].arg
      /\ row.job = runs[r].job /\ row.dispatched = runs[r].dispatched
  BY <1>1, ClosedRow
<1>3. CASE UNCHANGED runs
  BY <1>3, SeenUnchanged
<1>4. CASE runs' = [runs EXCEPT ![r] = Closed(@, calls[c].arg)] /\ MatchesRead(r, calls[c].seen)
  <2>1. runs' = [runs EXCEPT ![r] = row] /\ runs[r].status \in Active
    BY <1>1, <1>4 DEF TypeOK, MatchesRead
  <2> HIDE DEF row
  <2>2. Lifecycle!Close(r, row.status)
    BY <1>1, <1>2, <2>1, SeenOfClose
  <2> QED
    BY <1>1, <1>2, <2>2 DEF Lifecycle!Next
<1> QED
  BY <1>3, <1>4 DEF CompleteWrite

LEMMA ClaimRefines ==
  ASSUME TypeOK, NEW c \in Client, ClaimWrite(c)
  PROVE  [Lifecycle!Next]_(Lifecycle!vars)
<1> DEFINE r == calls[c].run
           row == [runs[r] EXCEPT !.dispatched = TRUE]
<1>1. r \in RunId /\ runs[r] \in Row
  BY DEF TypeOK, CallsWellFormed, ClaimWrite, At
<1>2. /\ row \in Row /\ row.job = runs[r].job /\ row.status = runs[r].status
      /\ row.dispatched
  BY <1>1 DEF Row
<1>3. CASE UNCHANGED runs
  BY <1>3, SeenUnchanged
<1>4. CASE runs' = [runs EXCEPT ![r].dispatched = TRUE] /\ Claimable(r)
  <2>1. runs' = [runs EXCEPT ![r] = row]
    BY <1>1, <1>4 DEF TypeOK
  <2> HIDE DEF row
  <2>2. RunPhase' = RunPhase
    BY <1>1, <1>2, <2>1, SeenOfRow DEF RunPhase
  <2>3. RunOwner' = RunOwner
    BY <1>1, <1>2, <2>1, SeenOfRow DEF RunOwner
  <2>4. RunsTaken' = RunsTaken \cup {r}
    <3>1. RunsTaken' = {q \in RunId \ {r} : q \in RunsTaken} \cup {q \in {r} : row.dispatched}
      BY <1>1, <1>2, <2>1, SeenOfRow
    <3>2. RunsTaken \subseteq RunId
      BY DEF RunsTaken
    <3> QED
      BY <1>1, <1>2, <3>1, <3>2
  <2>5. RunPhase[r] = "waiting" /\ r \notin RunsTaken
    BY <1>1, <1>4 DEF Claimable, RunPhase, RunsTaken, PhaseOf
  <2> QED
    BY <1>1, <2>2, <2>3, <2>4, <2>5 DEF Lifecycle!Take, Lifecycle!Next
<1> QED
  BY <1>3, <1>4 DEF ClaimWrite

LEMMA CancelRefines ==
  ASSUME TypeOK, NEW c \in Client, CancelWrite(c)
  PROVE  [Lifecycle!Next]_(Lifecycle!vars)
<1> DEFINE r == calls[c].run
           closed == Closed(runs[r], "CANCELLED")
           row == [closed EXCEPT !.cancelReq = TRUE]
<1>1. r \in RunId /\ runs[r].status # "ABSENT"
  BY DEF TypeOK, CallsWellFormed, CancelWrite, At
<1>2. /\ closed \in Row /\ closed.status = "CANCELLED"
      /\ closed.job = runs[r].job /\ closed.dispatched = runs[r].dispatched
  BY <1>1, ClosedRow DEF Terminal
<1>3. CASE UNCHANGED runs
  BY <1>3, SeenUnchanged
<1>4. CASE /\ runs[r].status \in Active
           /\ runs' = [runs EXCEPT ![r] = [Closed(@, "CANCELLED") EXCEPT !.cancelReq = TRUE]]
  <2>1. runs' = [runs EXCEPT ![r] = row]
    BY <1>1, <1>4 DEF TypeOK
  <2> HIDE DEF closed
  <2>2. /\ row \in Row /\ row.status = "CANCELLED"
        /\ row.job = runs[r].job /\ row.dispatched = runs[r].dispatched
    BY <1>2 DEF Row
  <2> HIDE DEF row
  <2>3. Lifecycle!Close(r, row.status)
    BY <1>1, <1>4, <2>1, <2>2, SeenOfClose DEF Terminal
  <2> QED
    BY <1>1, <2>2, <2>3 DEF Lifecycle!Next, Terminal
<1> QED
  BY <1>3, <1>4 DEF CancelWrite

LEMMA RefuseRefines ==
  ASSUME TypeOK, NEW c \in Client, RefuseFinished(c)
  PROVE  UNCHANGED Lifecycle!vars
<1> DEFINE r == calls[c].run
           row == [runs[r] EXCEPT !.ack = TRUE]
<1>1. r \in RunId /\ runs[r] \in Row
  BY DEF TypeOK, CallsWellFormed, RefuseFinished
<1>2. /\ row \in Row /\ row.status = runs[r].status
      /\ row.job = runs[r].job /\ row.dispatched = runs[r].dispatched
  BY <1>1 DEF Row
<1>3. runs' = runs \/ runs' = [runs EXCEPT ![r] = row]
  BY <1>1 DEF RefuseFinished, TypeOK
<1> HIDE DEF row
<1> QED
  BY <1>1, <1>2, <1>3, SeenOfSame, SeenUnchanged

LEMMA TimeoutRefines ==
  ASSUME TypeOK, NEW r \in RunId, TimeoutRow(r)
  PROVE  [Lifecycle!Next]_(Lifecycle!vars)
<1> DEFINE row == Closed(runs[r], "TIMEOUT")
<1>1. CASE ~StillRunning(r)
  BY <1>1, SeenUnchanged DEF TimeoutRow, CloseRow
<1>2. CASE StillRunning(r)
  <2>1. runs' = [runs EXCEPT ![r] = row] /\ runs[r].status = "RUNNING"
    BY <1>2 DEF TimeoutRow, CloseRow, StillRunning
  <2>2. /\ row \in Row /\ row.status = "TIMEOUT"
        /\ row.job = runs[r].job /\ row.dispatched = runs[r].dispatched
    BY <2>1, ClosedRow DEF Terminal
  <2> HIDE DEF row
  <2>3. Lifecycle!Close(r, row.status)
    BY <2>1, <2>2, SeenOfClose DEF Terminal, Active
  <2> QED
    BY <2>2, <2>3 DEF Lifecycle!Next, Terminal
<1> QED
  BY <1>1, <1>2

LEMMA DispatchRefines ==
  ASSUME TypeOK, NEW r \in RunId, DispatchRow(r)
  PROVE  [Lifecycle!Next]_(Lifecycle!vars)
<1> DEFINE closed == Closed(runs[r], "STUCK")
           row == [closed EXCEPT !.cancelReq = TRUE, !.ack = TRUE]
<1>1. CASE ~StillUndispatched(r)
  BY <1>1, SeenUnchanged DEF DispatchRow, CloseRow
<1>2. CASE StillUndispatched(r)
  <2>1. runs' = [runs EXCEPT ![r] = row] /\ runs[r].status = "PENDING" /\ Undispatched(r)
    BY <1>2 DEF DispatchRow, CloseRow, StillUndispatched, Undispatched
  <2>2. /\ closed \in Row /\ closed.status = "STUCK"
        /\ closed.job = runs[r].job /\ closed.dispatched = runs[r].dispatched
    BY <2>1, ClosedRow DEF Terminal
  <2> HIDE DEF closed
  <2>3. /\ row \in Row /\ row.status = "STUCK"
        /\ row.job = runs[r].job /\ row.dispatched = runs[r].dispatched
    BY <2>2 DEF Row
  <2> HIDE DEF row
  <2>4. Lifecycle!Close(r, row.status)
    BY <2>1, <2>3, SeenOfClose DEF Terminal, Active
  <2> QED
    BY <2>3, <2>4 DEF Lifecycle!Next, Terminal
<1> QED
  BY <1>1, <1>2

LEMMA TimeRefines ==
  ASSUME TypeOK, NEW r \in RunId, TimeLimitPasses(r)
  PROVE  UNCHANGED Lifecycle!vars
<1> DEFINE row == [runs[r] EXCEPT !.overdue = TRUE]
<1>1. /\ row \in Row /\ row.status = runs[r].status
      /\ row.job = runs[r].job /\ row.dispatched = runs[r].dispatched
  BY DEF TypeOK, Row
<1>2. runs' = [runs EXCEPT ![r] = row]
  BY DEF TimeLimitPasses, TypeOK
<1> HIDE DEF row
<1> QED
  BY <1>1, <1>2, SeenOfSame

LEMMA StepRefines ==
  ASSUME TypeOK, [Next]_vars
  PROVE  [Lifecycle!Next]_(Lifecycle!vars)
<1>1. CASE Clients
  BY <1>1, SeenUnchanged DEF Clients, rowVars
<1>2. ASSUME NEW c \in Client, CreateRead(c) \/ ReadRow(c)
      PROVE  UNCHANGED Lifecycle!vars
  BY <1>2, SeenUnchanged DEF CreateRead, ReadRow, rowVars
<1>3. CASE Handlers
  BY <1>2, <1>3, CreateRefines, RefuseRefines, PatchRefines, CompleteRefines, ClaimRefines,
     CancelRefines DEF Handlers
<1>4. CASE MissedScan \/ TimeoutScan \/ DispatchScan \/ TickEnds \/ TickFails
  BY <1>4, SeenUnchanged DEF MissedScan, TimeoutScan, DispatchScan, TickEnds, TickFails, rowVars
<1>5. CASE WorkerStep \/ TickFails
  BY <1>4, <1>5, SeenUnchanged, TimeoutRefines, DispatchRefines DEF WorkerStep, MissedJob
<1>6. CASE Environment
  BY <1>6, SeenUnchanged, TimeRefines DEF Environment, FireIsMissed, SwitchJob, CloseAlert
<1>7. CASE UNCHANGED vars
  BY <1>7, SeenUnchanged DEF vars
<1> QED
  BY <1>1, <1>3, <1>5, <1>6, <1>7 DEF Next

LEMMA InitRefines == Init => Lifecycle!Init
BY DEF Init, NoRow, Lifecycle!Init, RunPhase, RunOwner, RunsTaken, PhaseOf

(* The handlers and the worker implement the life cycle of a run: whatever   *)
(* they interleave, a run is opened only for a job without an open run, is   *)
(* closed once, and is given up only if nobody had taken it.                 *)
THEOREM Refinement == Spec => ImplementsLifecycle
<1>1. Init => Lifecycle!Init
  BY InitRefines
<1>2. TypeOK /\ [Next]_vars => [Lifecycle!Next]_(Lifecycle!vars)
  BY StepRefines
<1> QED
  BY <1>1, <1>2, TypeCorrect, PTL DEF Spec, ImplementsLifecycle, Lifecycle!Spec

----
(* What follows from the life cycle alone.                                  *)

(* The phase of a run tells its status.                                     *)
LEMMA PhaseTellsStatus ==
  ASSUME TypeOK, NEW r \in RunId
  PROVE  /\ RunPhase[r] \in Lifecycle!Open <=> runs[r].status \in Active
         /\ RunPhase[r] \in Terminal <=> runs[r].status \in Terminal
         /\ runs[r].status \in Terminal => RunPhase[r] = runs[r].status
         /\ RunPhase[r] = "absent" <=> runs[r].status = "ABSENT"
<1>1. runs[r].status \in Status
  BY DEF TypeOK, Row
<1> QED
  BY <1>1 DEF RunPhase, PhaseOf, Status, Active, Terminal, Lifecycle!Open

LEMMA OneActiveStep ==
  ASSUME TypeOK, TypeOK', [Lifecycle!Next]_(Lifecycle!vars), OneActivePerJob
  PROVE  OneActivePerJob'
<1> DEFINE One(phase, owner) == \A r, q \in RunId :
             phase[r] \in Lifecycle!Open /\ phase[q] \in Lifecycle!Open /\ owner[r] = owner[q] => r = q
<1>1. OneActivePerJob => One(RunPhase, RunOwner)
  BY PhaseTellsStatus DEF OneActivePerJob, RunOwner
<1>2. One(RunPhase', RunOwner') => OneActivePerJob'
  <2>1. \A r \in RunId : RunPhase'[r] \in Lifecycle!Open <=> runs'[r].status \in Active
    BY DEF RunPhase, PhaseOf, Active, Lifecycle!Open, TypeOK, Row, Status, Terminal
  <2>2. \A r \in RunId : RunOwner'[r] = runs'[r].job
    BY DEF RunOwner
  <2> QED
    BY <2>1, <2>2 DEF OneActivePerJob, Active
<1>3. /\ RunPhase = [r \in RunId |-> RunPhase[r]]
      /\ RunOwner = [r \in RunId |-> RunOwner[r]]
  BY DEF RunPhase, RunOwner
<1>4. One(RunPhase, RunOwner) => One(RunPhase', RunOwner')
  <2>1. ASSUME NEW r \in RunId, NEW j \in Job, Lifecycle!OpenRun(r, j), One(RunPhase, RunOwner)
        PROVE  One(RunPhase', RunOwner')
    BY <1>3, <2>1 DEF Lifecycle!OpenRun, Lifecycle!Open
  <2>2. ASSUME NEW r \in RunId, Lifecycle!Take(r) \/ Lifecycle!Start(r), One(RunPhase, RunOwner)
        PROVE  One(RunPhase', RunOwner')
    BY <1>3, <2>2 DEF Lifecycle!Take, Lifecycle!Start, Lifecycle!Open
  <2>3. ASSUME NEW r \in RunId, NEW o \in Terminal, Lifecycle!Close(r, o), One(RunPhase, RunOwner)
        PROVE  One(RunPhase', RunOwner')
    BY <1>3, <2>3 DEF Lifecycle!Close, Lifecycle!Open, Terminal
  <2>4. CASE UNCHANGED Lifecycle!vars
    BY <2>4 DEF Lifecycle!vars
  <2> QED
    BY <2>1, <2>2, <2>3, <2>4 DEF Lifecycle!Next
<1> QED
  BY <1>1, <1>2, <1>4

(* No interleaving of handlers and worker gives a job two active runs.      *)
THEOREM OneActive == Spec => []OneActivePerJob
<1>1. Init => OneActivePerJob
  BY DEF Init, NoRow, OneActivePerJob, Active
<1>2. TypeOK /\ TypeOK' /\ OneActivePerJob /\ [Next]_vars => OneActivePerJob'
  BY StepRefines, OneActiveStep
<1> QED
  BY <1>1, <1>2, TypeCorrect, PTL DEF Spec

LEMMA FinalStep ==
  ASSUME TypeOK, TypeOK', [Lifecycle!Next]_(Lifecycle!vars), NEW r \in RunId,
         runs[r].status \in Terminal
  PROVE  /\ runs'[r].status = runs[r].status
         /\ runs'[r].job = runs[r].job
         /\ runs'[r].dispatched = runs[r].dispatched
<1>1. RunPhase[r] = runs[r].status /\ RunPhase[r] \notin Lifecycle!Open \cup {"absent"}
  BY PhaseTellsStatus DEF Terminal, Active
<1>2. /\ RunPhase = [q \in RunId |-> RunPhase[q]]
      /\ RunOwner = [q \in RunId |-> RunOwner[q]]
  BY DEF RunPhase, RunOwner
<1>3. /\ RunPhase'[r] = RunPhase[r]
      /\ RunOwner'[r] = RunOwner[r]
      /\ r \in RunsTaken' <=> r \in RunsTaken
  <2> DEFINE Same == /\ RunPhase'[r] = RunPhase[r]
                     /\ RunOwner'[r] = RunOwner[r]
                     /\ r \in RunsTaken' <=> r \in RunsTaken
  <2>1. ASSUME NEW q \in RunId, NEW j \in Job, Lifecycle!OpenRun(q, j)
        PROVE  Same
    BY <1>1, <1>2, <2>1 DEF Lifecycle!OpenRun
  <2>2. ASSUME NEW q \in RunId, Lifecycle!Take(q) \/ Lifecycle!Start(q)
        PROVE  Same
    BY <1>1, <1>2, <2>2 DEF Lifecycle!Take, Lifecycle!Start, Lifecycle!Open
  <2>3. ASSUME NEW q \in RunId, NEW o \in Terminal, Lifecycle!Close(q, o)
        PROVE  Same
    BY <1>1, <1>2, <2>3 DEF Lifecycle!Close
  <2>4. CASE UNCHANGED Lifecycle!vars
    BY <2>4 DEF Lifecycle!vars
  <2> QED
    BY <2>1, <2>2, <2>3, <2>4 DEF Lifecycle!Next
<1>4. runs'[r].status = runs[r].status
  <2>1. runs'[r].status \in Status /\ RunPhase'[r] = PhaseOf(runs'[r].status)
    BY DEF TypeOK, Row, RunPhase, PhaseOf
  <2> QED
    BY <1>1, <1>3, <2>1 DEF PhaseOf, Status, Active, Terminal
<1>5. runs'[r].job = runs[r].job
  BY <1>3 DEF RunOwner
<1>6. runs'[r].dispatched = runs[r].dispatched
  <2>1. runs[r].dispatched \in BOOLEAN /\ runs'[r].dispatched \in BOOLEAN
    BY DEF TypeOK, Row
  <2>2. runs[r].dispatched <=> runs'[r].dispatched
    BY <1>3 DEF RunsTaken
  <2> QED
    BY <2>1, <2>2
<1> QED
  BY <1>4, <1>5, <1>6

(* A handler or a pass that read a run before it was closed never changes     *)
(* how it was closed.                                                       *)
THEOREM Final == Spec => TerminalIsFinal
<1>1. TypeOK /\ TypeOK' /\ [Next]_vars =>
        [\A r \in RunId : runs[r].status \in Terminal =>
           /\ runs'[r].status = runs[r].status
           /\ runs'[r].job = runs[r].job
           /\ runs'[r].dispatched = runs[r].dispatched]_vars
  BY StepRefines, FinalStep
<1> QED
  BY <1>1, TypeCorrect, PTL DEF Spec, TerminalIsFinal

LEMMA StuckStep ==
  ASSUME TypeOK, TypeOK', [Lifecycle!Next]_(Lifecycle!vars), StuckWasNeverTaken
  PROVE  StuckWasNeverTaken'
<1> SUFFICES ASSUME NEW r \in RunId, runs'[r].status = "STUCK"
             PROVE  ~runs'[r].dispatched
  BY DEF StuckWasNeverTaken
<1>1. CASE runs[r].status = "STUCK"
  BY <1>1, FinalStep DEF StuckWasNeverTaken, Terminal
<1>2. CASE runs[r].status # "STUCK"
  <2>1. RunPhase'[r] = "STUCK" /\ RunPhase[r] # "STUCK"
    BY <1>2 DEF RunPhase, PhaseOf
  <2>2. RunPhase = [q \in RunId |-> RunPhase[q]]
    BY DEF RunPhase
  <2>3. r \notin RunsTaken /\ RunsTaken' = RunsTaken
    <3>1. ASSUME NEW q \in RunId, NEW j \in Job, Lifecycle!OpenRun(q, j)
          PROVE  FALSE
      BY <2>1, <2>2, <3>1 DEF Lifecycle!OpenRun
    <3>2. ASSUME NEW q \in RunId, Lifecycle!Take(q) \/ Lifecycle!Start(q)
          PROVE  FALSE
      BY <2>1, <2>2, <3>2 DEF Lifecycle!Take, Lifecycle!Start
    <3>3. ASSUME NEW q \in RunId, NEW o \in Terminal, Lifecycle!Close(q, o)
          PROVE  r \notin RunsTaken /\ RunsTaken' = RunsTaken
      <4>1. q = r /\ o = "STUCK"
        BY <2>1, <2>2, <3>3 DEF Lifecycle!Close
      <4> QED
        BY <3>3, <4>1 DEF Lifecycle!Close
    <3>4. ~UNCHANGED Lifecycle!vars
      BY <2>1 DEF Lifecycle!vars
    <3> QED
      BY <3>1, <3>2, <3>3, <3>4 DEF Lifecycle!Next
  <2> QED
    BY <2>3 DEF RunsTaken
<1> QED
  BY <1>1, <1>2

(* A run that the dispatch watchdog gave up was never handed to an agent.    *)
THEOREM StuckNeverTaken == Spec => []StuckWasNeverTaken
<1>1. Init => StuckWasNeverTaken
  BY DEF Init, NoRow, StuckWasNeverTaken
<1>2. TypeOK /\ TypeOK' /\ StuckWasNeverTaken /\ [Next]_vars => StuckWasNeverTaken'
  BY StepRefines, StuckStep
<1> QED
  BY <1>1, <1>2, TypeCorrect, PTL DEF Spec

----
(* Who may execute a run.                                                   *)

LEMMA DispatchedKept ==
  ASSUME TypeOK, TypeOK', [Lifecycle!Next]_(Lifecycle!vars), NEW r \in RunId,
         runs[r].dispatched
  PROVE  runs'[r].dispatched
<1>1. RunsTaken \subseteq RunsTaken'
  BY DEF Lifecycle!Next, Lifecycle!vars, Lifecycle!OpenRun, Lifecycle!Take, Lifecycle!Start,
         Lifecycle!Close
<1> QED
  BY <1>1 DEF RunsTaken

(* Nobody is told to execute a run that was handed over before.              *)
NoneGrantedAgain ==
  \A c \in Client, r \in RunId : runs[r].dispatched /\ Granted(c, r)' => Granted(c, r)

(* A step other than an accepted create or claim grants nothing.            *)
LEMMA GrantsKept ==
  ASSUME TypeOK, TypeOK', [Lifecycle!Next]_(Lifecycle!vars), GrantIsExclusive,
         \A d \in Client, r \in RunId : Granted(d, r)' => Granted(d, r)
  PROVE  GrantIsExclusive' /\ NoneGrantedAgain
BY DispatchedKept DEF GrantIsExclusive, NoneGrantedAgain

(* A create or a claim that is accepted hands over a run nobody had.         *)
LEMMA GrantAdded ==
  ASSUME TypeOK, TypeOK', [Lifecycle!Next]_(Lifecycle!vars), GrantIsExclusive,
         NEW c \in Client, NEW r \in RunId, ~runs[r].dispatched,
         Granted(c, r)' => runs'[r].dispatched,
         \A q \in RunId : Granted(c, q)' => q = r,
         \A d \in Client \ {c}, q \in RunId : Granted(d, q)' => Granted(d, q)
  PROVE  GrantIsExclusive' /\ NoneGrantedAgain
BY DispatchedKept DEF GrantIsExclusive, NoneGrantedAgain

LEMMA GrantStep ==
  ASSUME TypeOK, TypeOK', [Next]_vars, GrantIsExclusive
  PROVE  GrantIsExclusive' /\ NoneGrantedAgain
<1>1. [Lifecycle!Next]_(Lifecycle!vars)
  BY StepRefines
<1>2. CASE UNCHANGED calls
  BY <1>1, <1>2, GrantsKept DEF Granted
<1>3. CASE Clients
  <2> DEFINE Quiet(c) == /\ calls'[c].phase # "replied"
                         /\ \A d \in Client \ {c} : calls'[d] = calls[d]
  <2>1. ASSUME NEW c \in Client, NEW op, NEW j, NEW r, NEW arg, Send(c, Request(op, j, r, arg))
        PROVE  Quiet(c)
    BY <2>1 DEF Send, Request, NoCall, TypeOK
  <2>2. ASSUME NEW c \in Client, ReceiveReply(c) \/ Disconnect(c)
        PROVE  Quiet(c)
    BY <2>2 DEF ReceiveReply, Disconnect, NoCall, TypeOK
  <2> HIDE DEF Quiet
  <2>3. PICK c \in Client : Quiet(c)
    BY <1>3, <2>1, <2>2
       DEF Clients, SendCreate, SendPatch, SendComplete, SendClaimOrCancel
  <2>4. \A d \in Client, r \in RunId : Granted(d, r)' => Granted(d, r)
    BY <2>3 DEF Quiet, Granted
  <2> QED
    BY <1>1, <2>4, GrantsKept
<1>4. ASSUME NEW c \in Client, NEW reply \in Reply, Answer(c, reply),
             calls[c].op \notin {"create", "claim"} \/ reply # "ok"
      PROVE  GrantIsExclusive' /\ NoneGrantedAgain
  <2>1. /\ calls'[c].reply = reply /\ calls'[c].op = calls[c].op
        /\ \A d \in Client \ {c} : calls'[d] = calls[d]
    BY <1>4 DEF Answer, TypeOK, Call
  <2>2. \A d \in Client, r \in RunId : Granted(d, r)' => Granted(d, r)
    BY <1>4, <2>1 DEF Granted
  <2> QED
    BY <1>1, <2>2, GrantsKept
<1>5. ASSUME NEW c \in Client, calls' = [calls EXCEPT ![c].phase = "read"]
                               \/ calls' = [calls EXCEPT ![c].phase = "refuse"]
                               \/ \E s \in Active : calls' = [calls EXCEPT ![c].phase = "read", ![c].seen = s]
      PROVE  GrantIsExclusive' /\ NoneGrantedAgain
  <2>1. calls'[c].phase # "replied" /\ \A d \in Client \ {c} : calls'[d] = calls[d]
    <3>1. /\ calls \in [Client -> Call] /\ calls[c] \in Call
      BY DEF TypeOK
    <3>2. ASSUME NEW p \in {"read", "refuse"}, calls' = [calls EXCEPT ![c].phase = p]
          PROVE  calls'[c].phase # "replied" /\ \A d \in Client \ {c} : calls'[d] = calls[d]
      <4> DEFINE new == [calls[c] EXCEPT !.phase = p]
      <4>1. new.phase # "replied"
        BY <3>1 DEF Call
      <4>2. calls' = [calls EXCEPT ![c] = new]
        BY <3>1, <3>2
      <4> HIDE DEF new
      <4> QED
        BY <3>1, <4>1, <4>2
    <3>3. ASSUME NEW s \in Active,
                 calls' = [calls EXCEPT ![c].phase = "read", ![c].seen = s]
          PROVE  calls'[c].phase # "replied" /\ \A d \in Client \ {c} : calls'[d] = calls[d]
      <4> DEFINE new == [calls[c] EXCEPT !.phase = "read", !.seen = s]
      <4>1. new.phase # "replied"
        BY <3>1 DEF Call
      <4>2. calls' = [calls EXCEPT ![c] = new]
        BY <3>1, <3>3
      <4> HIDE DEF new
      <4> QED
        BY <3>1, <4>1, <4>2
    <3> QED
      BY <1>5, <3>2, <3>3
  <2>2. \A d \in Client, r \in RunId : Granted(d, r)' => Granted(d, r)
    BY <2>1 DEF Granted
  <2> QED
    BY <1>1, <2>2, GrantsKept
<1>6. ASSUME NEW c \in Client, CreateInsert(c)
      PROVE  GrantIsExclusive' /\ NoneGrantedAgain
  <2>1. CASE Answer(c, "conflict")
    BY <1>4, <2>1 DEF Reply
  <2>2. ASSUME NEW r \in RunId, runs[r].status = "ABSENT",
               runs' = [runs EXCEPT ![r] =
                 [NoRow EXCEPT !.job = calls[c].job, !.status = "PENDING", !.trigger = calls[c].arg,
                               !.dispatched = DispatchedAtInsert(calls[c].arg)]],
               calls' = [calls EXCEPT ![c].phase = "replied", ![c].reply = "ok", ![c].run = r]
        PROVE  GrantIsExclusive' /\ NoneGrantedAgain
    <3>1. ~runs[r].dispatched
      BY <2>2 DEF TypeOK, RowsWellFormed
    <3>2. /\ calls'[c].run = r /\ calls'[c].op = "create" /\ calls'[c].arg = calls[c].arg
          /\ calls[c].arg \in Trigger
          /\ \A d \in Client \ {c} : calls'[d] = calls[d]
      <4>1. calls[c].op = "create" /\ calls[c].arg \in Trigger
        BY <1>6 DEF CreateInsert, At, TypeOK, CallsWellFormed
      <4> DEFINE new == [calls[c] EXCEPT !.phase = "replied", !.reply = "ok", !.run = r]
      <4>2. calls \in [Client -> Call] /\ calls[c] \in Call
        BY DEF TypeOK
      <4>3. new.run = r /\ new.op = calls[c].op /\ new.arg = calls[c].arg
        BY <4>2 DEF Call
      <4>4. calls' = [calls EXCEPT ![c] = new]
        BY <2>2, <4>2
      <4> HIDE DEF new
      <4> QED
        BY <4>1, <4>2, <4>3, <4>4
    <3>3. runs'[r].dispatched = DispatchedAtInsert(calls[c].arg)
      BY <2>2 DEF TypeOK, NoRow
    <3>4. Granted(c, r)' => runs'[r].dispatched
      BY <3>2, <3>3 DEF Granted, Trigger, DispatchedAtInsert
    <3>5. /\ \A q \in RunId : Granted(c, q)' => q = r
          /\ \A d \in Client \ {c}, q \in RunId : Granted(d, q)' => Granted(d, q)
      BY <3>2 DEF Granted
    <3> QED
      BY <1>1, <3>1, <3>4, <3>5, GrantAdded
  <2> QED
    BY <1>6, <2>1, <2>2 DEF CreateInsert, NextFreeId
<1>7. ASSUME NEW c \in Client, ClaimWrite(c)
      PROVE  GrantIsExclusive' /\ NoneGrantedAgain
  <2> DEFINE r == calls[c].run
  <2>1. CASE Answer(c, "conflict")
    BY <1>4, <2>1 DEF Reply
  <2>2. CASE Claimable(r) /\ runs' = [runs EXCEPT ![r].dispatched = TRUE] /\ Answer(c, "ok")
    <3>1. r \in RunId /\ ~runs[r].dispatched /\ runs'[r].dispatched
      BY <1>7, <2>2 DEF ClaimWrite, At, Claimable, TypeOK, CallsWellFormed, Row
    <3>2. /\ calls'[c].run = r
          /\ \A d \in Client \ {c} : calls'[d] = calls[d]
      BY <2>2 DEF Answer, TypeOK, Call
    <3>3. /\ \A q \in RunId : Granted(c, q)' => q = r
          /\ \A d \in Client \ {c}, q \in RunId : Granted(d, q)' => Granted(d, q)
      BY <3>2 DEF Granted
    <3> QED
      BY <1>1, <3>1, <3>3, GrantAdded
  <2> QED
    BY <1>7, <2>1, <2>2 DEF ClaimWrite
<1>8. CASE Handlers
  <2>1. PICK c \in Client :
          \/ CreateRead(c) \/ CreateInsert(c) \/ ReadRow(c) \/ RefuseFinished(c)
          \/ PatchWrite(c) \/ CompleteWrite(c) \/ ClaimWrite(c) \/ CancelWrite(c)
    BY <1>8 DEF Handlers
  <2>2. CASE CreateRead(c)
    BY <1>4, <1>5, <2>2 DEF CreateRead, Reply
  <2>3. CASE ReadRow(c)
    BY <1>4, <1>5, <2>3 DEF ReadRow, Reply
  <2>4. CASE RefuseFinished(c)
    BY <1>4, <2>4 DEF RefuseFinished, Reply
  <2>5. CASE PatchWrite(c)
    BY <1>4, <2>5 DEF PatchWrite, At, Reply
  <2>6. CASE CompleteWrite(c)
    BY <1>4, <2>6 DEF CompleteWrite, At, Reply
  <2>7. CASE CancelWrite(c)
    BY <1>4, <2>7 DEF CancelWrite, At, Reply
  <2> QED
    BY <1>6, <1>7, <2>1, <2>2, <2>3, <2>4, <2>5, <2>6, <2>7
<1>9. UNCHANGED calls \/ Clients \/ Handlers
  BY DEF Next, WorkerStep, MissedScan, MissedJob, TimeoutScan, TimeoutRow, DispatchScan,
         DispatchRow, CloseRow, TickEnds, TickFails, Environment, TimeLimitPasses, FireIsMissed,
         SwitchJob, CloseAlert, vars
<1> QED
  BY <1>2, <1>3, <1>8, <1>9

(* Two callers are never both told to execute the same run, however a claim  *)
(* races with another claim, with a create and with the dispatch watchdog.   *)
THEOREM GrantExclusive == Spec => []GrantIsExclusive
<1>1. Init => GrantIsExclusive
  BY DEF Init, NoCall, GrantIsExclusive, Granted
<1>2. TypeOK /\ TypeOK' /\ GrantIsExclusive /\ [Next]_vars => GrantIsExclusive'
  BY GrantStep
<1> QED
  BY <1>1, <1>2, TypeCorrect, PTL DEF Spec

(* A run is handed over once in its life, whoever asks again for it and       *)
(* however often: to that the backend keeps across all handlers.             *)
THEOREM GrantedOnce == Spec => HandedOverOnce
<1>1. TypeOK /\ TypeOK' /\ GrantIsExclusive /\ [Next]_vars =>
        [\A r \in RunId : runs[r].dispatched =>
           /\ runs'[r].dispatched
           /\ \A c \in Client : Granted(c, r)' => Granted(c, r)]_vars
  <2> SUFFICES ASSUME TypeOK, TypeOK', GrantIsExclusive, [Next]_vars
               PROVE  \A r \in RunId : runs[r].dispatched =>
                        /\ runs'[r].dispatched
                        /\ \A c \in Client : Granted(c, r)' => Granted(c, r)
    OBVIOUS
  <2> QED
    BY StepRefines, GrantStep, DispatchedKept DEF NoneGrantedAgain
<1> QED
  BY <1>1, TypeCorrect, GrantExclusive, PTL DEF Spec, HandedOverOnce

----
(* What the failure alert says.                                             *)

(* The rows that are there have the lowest ids, and the open run of a job is  *)
(* its newest one: that is why the last completion is about the last run.     *)
RowsInOrder ==
  \A r, q \in RunId : q < r /\ runs[r].status # "ABSENT" => runs[q].status # "ABSENT"

OpenIsNewest ==
  \A r, q \in RunId : runs[r].status \in Active /\ runs[q].job = runs[r].job => q <= r

AlertIInv == TypeOK /\ RowsInOrder /\ OpenIsNewest /\ FailureAlertIsCurrent

(* A step that reports no outcome: runs may start, and may be closed as       *)
(* CANCELLED, TIMEOUT or STUCK.                                              *)
ReportsNothing ==
  /\ \A r \in RunId :
       /\ runs'[r].job = runs[r].job
       /\ \/ runs'[r].status = runs[r].status
          \/ /\ runs[r].status \in Active
             /\ runs'[r].status \in {"RUNNING", "CANCELLED", "TIMEOUT", "STUCK"}
  /\ \A j \in Job : <<"JOB_FAILED", j>> \in alerts' => <<"JOB_FAILED", j>> \in alerts

LEMMA NothingReported ==
  ASSUME AlertIInv, TypeOK', ReportsNothing
  PROVE  AlertIInv'
<1>1. RowsInOrder'
  BY DEF AlertIInv, RowsInOrder, ReportsNothing, Active
<1>2. OpenIsNewest'
  BY DEF AlertIInv, OpenIsNewest, ReportsNothing, Active
<1>3. FailureAlertIsCurrent'
  BY DEF AlertIInv, FailureAlertIsCurrent, ReportsNothing, Active
<1> QED
  BY <1>1, <1>2, <1>3 DEF AlertIInv

(* One row changes, and keeps its job.                                      *)
LEMMA RowReportsNothing ==
  ASSUME TypeOK, NEW r \in RunId, NEW row, runs' = [runs EXCEPT ![r] = row],
         row.job = runs[r].job,
         \/ row.status = runs[r].status
         \/ /\ runs[r].status \in Active
            /\ row.status \in {"RUNNING", "CANCELLED", "TIMEOUT", "STUCK"},
         \A j \in Job : <<"JOB_FAILED", j>> \in alerts' => <<"JOB_FAILED", j>> \in alerts
  PROVE  ReportsNothing
<1>1. runs'[r] = row /\ \A q \in RunId \ {r} : runs'[q] = runs[q]
  BY DEF TypeOK
<1> QED
  BY <1>1 DEF ReportsNothing

LEMMA AlertsOfInsert ==
  ASSUME AlertIInv, TypeOK', NEW c \in Client, CreateInsert(c)
  PROVE  AlertIInv'
<1> DEFINE j == calls[c].job
<1>1. CASE UNCHANGED runs
  BY <1>1, NothingReported DEF CreateInsert, ReportsNothing
<1>2. CASE InsertAllowed(j) /\ runs' # runs
  <2>1. j \in Job /\ j # NoJob /\ runs \in [RunId -> Row] /\ alerts' = alerts
    BY JobAssumption DEF CreateInsert, At, AlertIInv, TypeOK, CallsWellFormed
  <2>2. PICK r \in RunId :
          /\ NextFreeId(r)
          /\ runs' = [runs EXCEPT ![r] =
               [NoRow EXCEPT !.job = j, !.status = "PENDING", !.trigger = calls[c].arg,
                             !.dispatched = DispatchedAtInsert(calls[c].arg)]]
    BY <1>2 DEF CreateInsert
  <2>3. /\ runs'[r].job = j /\ runs'[r].status = "PENDING"
        /\ \A q \in RunId \ {r} : runs'[q] = runs[q]
    BY <2>1, <2>2 DEF NoRow
  <2>4. runs[r].status = "ABSENT" /\ \A q \in RunId : q < r => runs[q].status # "ABSENT"
    BY <2>2 DEF NextFreeId
  <2>5. \A q \in RunId : runs[q].job \in Job => q < r
    <3> SUFFICES ASSUME NEW q \in RunId, runs[q].job \in Job PROVE q < r
      OBVIOUS
    <3>1. runs[q].status # "ABSENT"
      BY JobAssumption DEF AlertIInv, TypeOK, RowsWellFormed
    <3>2. ~(r < q) /\ q # r
      BY <2>4, <3>1 DEF AlertIInv, RowsInOrder
    <3> QED
      BY <3>2, RunIdAssumption
  <2>6. RowsInOrder'
    BY <2>3, <2>4, RunIdAssumption DEF AlertIInv, RowsInOrder
  <2>7. OpenIsNewest'
    <3> SUFFICES ASSUME NEW p \in RunId, NEW q \in RunId,
                        runs'[p].status \in Active, runs'[q].job = runs'[p].job
                 PROVE  q <= p
      BY DEF OpenIsNewest
    <3>1. CASE p = r
      BY <2>1, <2>3, <2>5, <3>1, RunIdAssumption
    <3>2. CASE p # r
      <4>1. runs[p].status \in Active /\ runs[p].job # j
        BY <1>2, <2>3, <3>2 DEF InsertAllowed, HasActiveRun
      <4>2. q # r /\ runs[q].job = runs[p].job
        BY <2>3, <3>2, <4>1
      <4> QED
        BY <4>1, <4>2 DEF AlertIInv, OpenIsNewest
    <3> QED
      BY <3>1, <3>2
  <2>8. FailureAlertIsCurrent'
    BY <2>1, <2>3, <2>4 DEF AlertIInv, FailureAlertIsCurrent
  <2> QED
    BY <2>6, <2>7, <2>8 DEF AlertIInv
<1> QED
  BY <1>1, <1>2 DEF CreateInsert

(* The completed run is the newest of its job.                              *)
LEMMA AlertsOfComplete ==
  ASSUME AlertIInv, TypeOK', NEW c \in Client, CompleteWrite(c)
  PROVE  AlertIInv'
<1> DEFINE r == calls[c].run
           status == calls[c].arg
           k == runs[r].job
<1>1. CASE UNCHANGED <<late, runs, alerts>>
  BY <1>1, NothingReported DEF ReportsNothing
<1>2. CASE /\ MatchesRead(r, calls[c].seen)
           /\ runs' = [runs EXCEPT ![r] = Closed(@, status)]
           /\ alerts' = AlertsAfter(status, k)
  <2>1. /\ r \in RunId /\ status \in CompleteStatus /\ calls[c].seen \in Active
        /\ runs[r].status \in Active /\ runs \in [RunId -> Row]
    BY <1>2 DEF CompleteWrite, At, MatchesRead, AlertIInv, TypeOK, CallsWellFormed
  <2>2. /\ runs'[r].job = k /\ runs'[r].status = status
        /\ \A q \in RunId \ {r} : runs'[q] = runs[q]
    BY <1>2, <2>1 DEF Closed, Row
  <2>3. status \notin Active /\ status # "ABSENT"
    BY <2>1 DEF CompleteStatus, Active
  <2>4. \A q \in RunId : runs[q].job = k /\ q # r => q < r
    <3>1. \A q \in RunId : runs[q].job = k => q <= r
      BY <2>1 DEF AlertIInv, OpenIsNewest
    <3>2. \A p, q \in Nat : q <= p /\ q # p => q < p
      OBVIOUS
    <3> HIDE DEF r, k
    <3> QED
      BY <2>1, <3>1, <3>2, RunIdAssumption
  <2>5. RowsInOrder'
    BY <2>1, <2>2, <2>3 DEF AlertIInv, RowsInOrder, Active
  <2>6. OpenIsNewest'
    BY <2>1, <2>2, <2>3 DEF AlertIInv, OpenIsNewest
  <2>7. FailureAlertIsCurrent'
    <3> SUFFICES ASSUME NEW j \in Job, <<"JOB_FAILED", j>> \in alerts'
                 PROVE  \E p \in RunId :
                          /\ runs'[p].job = j /\ runs'[p].status = "FAILED"
                          /\ \A q \in RunId :
                               runs'[q].job = j /\ runs'[q].status \in {"SUCCESS", "WARNING"}
                                 => q < p
      BY DEF FailureAlertIsCurrent
    <3>1. CASE j = k /\ status = "FAILED"
      <4>1. \A q \in RunId :
              runs'[q].job = j /\ runs'[q].status \in {"SUCCESS", "WARNING"} => q < r
        BY <2>2, <2>4, <3>1
      <4> QED
        BY <2>1, <2>2, <3>1, <4>1
    <3>2. CASE j # k \/ status = "CANCELLED"
      <4>1. <<"JOB_FAILED", j>> \in alerts
        BY <1>2, <2>1, <3>2 DEF AlertsAfter, Raise, Resolve, CompleteStatus
      <4>2. PICK p \in RunId :
              /\ runs[p].job = j /\ runs[p].status = "FAILED"
              /\ \A q \in RunId :
                   runs[q].job = j /\ runs[q].status \in {"SUCCESS", "WARNING"} => q < p
        BY <4>1 DEF AlertIInv, FailureAlertIsCurrent
      <4>3. p # r
        BY <2>1, <4>2 DEF Active
      <4>4. \A q \in RunId :
              runs'[q].job = j /\ runs'[q].status \in {"SUCCESS", "WARNING"} => q < p
        BY <2>2, <3>2, <4>2
      <4> QED
        BY <2>2, <4>2, <4>3, <4>4
    <3>3. CASE j = k /\ status \in {"SUCCESS", "WARNING"}
      BY <1>2, <3>3 DEF AlertsAfter, Resolve
    <3> QED
      BY <2>1, <3>1, <3>2, <3>3 DEF CompleteStatus
  <2> QED
    BY <2>5, <2>6, <2>7 DEF AlertIInv
<1> QED
  BY <1>1, <1>2 DEF CompleteWrite

LEMMA AlertsOfHandler ==
  ASSUME AlertIInv, TypeOK', Handlers
  PROVE  AlertIInv'
<1>1. PICK c \in Client :
        \/ CreateRead(c) \/ CreateInsert(c) \/ ReadRow(c) \/ RefuseFinished(c)
        \/ PatchWrite(c) \/ CompleteWrite(c) \/ ClaimWrite(c) \/ CancelWrite(c)
  BY DEF Handlers
<1> DEFINE r == calls[c].run
<1>2. TypeOK
  BY DEF AlertIInv
<1>3. CASE UNCHANGED <<runs, alerts>>
  BY <1>3, NothingReported DEF ReportsNothing
<1>4. CASE RefuseFinished(c)
  <2>1. r \in RunId /\ runs[r] \in Row /\ alerts' = alerts
    BY <1>2, <1>4 DEF RefuseFinished, TypeOK, CallsWellFormed
  <2>2. CASE runs' = [runs EXCEPT ![r].ack = TRUE]
    <3> DEFINE row == [runs[r] EXCEPT !.ack = TRUE]
    <3>1. row.job = runs[r].job /\ row.status = runs[r].status
      BY <2>1 DEF Row
    <3>2. runs' = [runs EXCEPT ![r] = row]
      BY <2>2
    <3> HIDE DEF row
    <3> QED
      BY <1>2, <2>1, <3>1, <3>2, RowReportsNothing, NothingReported
  <2> QED
    BY <1>3, <1>4, <2>1, <2>2 DEF RefuseFinished
<1>5. CASE PatchWrite(c)
  <2>1. r \in RunId /\ runs[r] \in Row /\ alerts' = alerts
        /\ calls[c].seen \in Active
    BY <1>2, <1>5 DEF PatchWrite, At, TypeOK, CallsWellFormed
  <2>2. CASE MatchesRead(r, calls[c].seen) /\ runs' = [runs EXCEPT ![r] = Patched(@, calls[c].arg)]
    <3> DEFINE row == Patched(runs[r], calls[c].arg)
    <3>1. row.job = runs[r].job /\ (row.status = runs[r].status \/ row.status = "RUNNING")
      BY <2>1 DEF Patched, Row
    <3>2. runs[r].status \in Active /\ runs' = [runs EXCEPT ![r] = row]
      BY <2>1, <2>2 DEF MatchesRead
    <3> HIDE DEF row
    <3> QED
      BY <1>2, <2>1, <3>1, <3>2, RowReportsNothing, NothingReported
  <2> QED
    BY <1>3, <1>5, <2>1, <2>2 DEF PatchWrite
<1>6. CASE ClaimWrite(c)
  <2>1. r \in RunId /\ runs[r] \in Row /\ alerts' = alerts
    BY <1>2, <1>6 DEF ClaimWrite, At, TypeOK, CallsWellFormed
  <2>2. CASE runs' = [runs EXCEPT ![r].dispatched = TRUE]
    <3> DEFINE row == [runs[r] EXCEPT !.dispatched = TRUE]
    <3>1. row.job = runs[r].job /\ row.status = runs[r].status
      BY <2>1 DEF Row
    <3>2. runs' = [runs EXCEPT ![r] = row]
      BY <2>2
    <3> HIDE DEF row
    <3> QED
      BY <1>2, <2>1, <3>1, <3>2, RowReportsNothing, NothingReported
  <2> QED
    BY <1>3, <1>6, <2>1, <2>2 DEF ClaimWrite
<1>7. CASE CancelWrite(c)
  <2>1. r \in RunId /\ runs[r] \in Row /\ alerts' = alerts
    BY <1>2, <1>7 DEF CancelWrite, At, TypeOK, CallsWellFormed
  <2>2. CASE /\ runs[r].status \in Active
             /\ runs' = [runs EXCEPT ![r] = [Closed(@, "CANCELLED") EXCEPT !.cancelReq = TRUE]]
    <3> DEFINE row == [Closed(runs[r], "CANCELLED") EXCEPT !.cancelReq = TRUE]
    <3>1. row.job = runs[r].job /\ row.status = "CANCELLED"
      BY <2>1 DEF Closed, Row
    <3>2. runs[r].status \in Active /\ runs' = [runs EXCEPT ![r] = row]
      BY <2>2
    <3> HIDE DEF row
    <3> QED
      BY <1>2, <2>1, <3>1, <3>2, RowReportsNothing, NothingReported
  <2> QED
    BY <1>3, <1>7, <2>1, <2>2 DEF CancelWrite
<1>8. CASE CreateRead(c) \/ ReadRow(c)
  BY <1>3, <1>8 DEF CreateRead, ReadRow, rowVars
<1> QED
  BY <1>1, <1>4, <1>5, <1>6, <1>7, <1>8, AlertsOfInsert, AlertsOfComplete

(* The worker raises other alerts than JOB_FAILED.                          *)
LEMMA AlertsOfCloseRow ==
  ASSUME AlertIInv, TypeOK', NEW r \in RunId, NEW matches \in BOOLEAN, NEW closed,
         NEW alertType, alertType # "JOB_FAILED",
         CloseRow(r, matches, closed, alertType),
         matches => /\ runs[r].status \in Active /\ closed.job = runs[r].job
                    /\ closed.status \in {"TIMEOUT", "STUCK"}
  PROVE  AlertIInv'
<1>1. CASE matches
  <2>1. /\ runs' = [runs EXCEPT ![r] = closed]
        /\ \A j \in Job : <<"JOB_FAILED", j>> \in alerts' => <<"JOB_FAILED", j>> \in alerts
    BY <1>1 DEF CloseRow, Raise
  <2> QED
    BY <1>1, <2>1, RowReportsNothing, NothingReported DEF AlertIInv
<1>2. CASE ~matches
  BY <1>2, NothingReported DEF CloseRow, ReportsNothing
<1> QED
  BY <1>1, <1>2

LEMMA AlertsOfWorker ==
  ASSUME AlertIInv, TypeOK', WorkerStep \/ TickFails
  PROVE  AlertIInv'
<1>1. CASE MissedScan \/ TimeoutScan \/ DispatchScan \/ TickEnds \/ TickFails
  BY <1>1, NothingReported
     DEF ReportsNothing, MissedScan, TimeoutScan, DispatchScan, TickEnds, TickFails, rowVars
<1>2. ASSUME NEW j \in Job, NEW isLate \in BOOLEAN, MissedJob(j, isLate)
      PROVE  AlertIInv'
  <2>1. runs' = runs /\ alerts' = MissedAlert(j, isLate)
    BY <1>2 DEF MissedJob
  <2>2. \A k \in Job : <<"JOB_FAILED", k>> \in alerts' => <<"JOB_FAILED", k>> \in alerts
    BY <2>1 DEF MissedAlert, Raise, Resolve
  <2> QED
    BY <2>1, <2>2, NothingReported DEF ReportsNothing
<1>3. ASSUME NEW r \in RunId, TimeoutRow(r)
      PROVE  AlertIInv'
  <2>1. CloseRow(r, StillRunning(r), Closed(runs[r], "TIMEOUT"), "JOB_TIMEOUT")
    BY <1>3 DEF TimeoutRow
  <2>2. StillRunning(r) \in BOOLEAN /\ (StillRunning(r) => runs[r].status \in Active)
    BY DEF StillRunning, Active
  <2>3. /\ Closed(runs[r], "TIMEOUT").job = runs[r].job
        /\ Closed(runs[r], "TIMEOUT").status = "TIMEOUT"
    BY DEF AlertIInv, TypeOK, Closed, Row
  <2> QED
    BY <2>1, <2>2, <2>3, AlertsOfCloseRow
<1>4. ASSUME NEW r \in RunId, DispatchRow(r)
      PROVE  AlertIInv'
  <2> DEFINE row == [Closed(runs[r], "STUCK") EXCEPT !.cancelReq = TRUE, !.ack = TRUE]
  <2>1. CloseRow(r, StillUndispatched(r), row, "JOB_STUCK_PENDING")
    BY <1>4 DEF DispatchRow
  <2>2. StillUndispatched(r) \in BOOLEAN /\ (StillUndispatched(r) => runs[r].status \in Active)
    BY DEF StillUndispatched, Undispatched, Active
  <2>3. row.job = runs[r].job /\ row.status = "STUCK"
    BY DEF AlertIInv, TypeOK, Closed, Row
  <2> QED
    BY <2>1, <2>2, <2>3, AlertsOfCloseRow
<1> QED
  BY <1>1, <1>2, <1>3, <1>4 DEF WorkerStep

LEMMA AlertsOfEnvironment ==
  ASSUME AlertIInv, TypeOK', Environment
  PROVE  AlertIInv'
<1>1. ASSUME NEW r \in RunId, TimeLimitPasses(r)
      PROVE  AlertIInv'
  <2> DEFINE row == [runs[r] EXCEPT !.overdue = TRUE]
  <2>1. row.job = runs[r].job /\ row.status = runs[r].status
    BY DEF AlertIInv, TypeOK, Row
  <2>2. runs' = [runs EXCEPT ![r] = row] /\ alerts' = alerts
    BY <1>1 DEF TimeLimitPasses
  <2> HIDE DEF row
  <2> QED
    BY <2>1, <2>2, RowReportsNothing, NothingReported DEF AlertIInv
<1>2. CASE runs' = runs /\ alerts' \subseteq alerts
  BY <1>2, NothingReported DEF ReportsNothing
<1> QED
  BY <1>1, <1>2 DEF Environment, FireIsMissed, SwitchJob, CloseAlert

(* However completions, cancellations and the worker overlap, the failure     *)
(* alert of a job is ACTIVE only while no run after the failed one is known   *)
(* to have succeeded.                                                       *)
THEOREM FailureAlertCurrent == Spec => []FailureAlertIsCurrent
<1>1. Init => AlertIInv
  <2>1. Init => RowsInOrder /\ OpenIsNewest /\ FailureAlertIsCurrent
    BY DEF Init, NoRow, RowsInOrder, OpenIsNewest, FailureAlertIsCurrent, Active
  <2> QED
    BY <2>1, TypeInit DEF AlertIInv
<1>2. AlertIInv /\ TypeOK' /\ [Next]_vars => AlertIInv'
  <2>1. AlertIInv /\ TypeOK' /\ UNCHANGED <<runs, alerts>> => AlertIInv'
    BY NothingReported DEF ReportsNothing
  <2> QED
    BY <2>1, AlertsOfHandler, AlertsOfWorker, AlertsOfEnvironment DEF Next, Clients, rowVars, vars
<1>3. AlertIInv => FailureAlertIsCurrent
  BY DEF AlertIInv
<1> QED
  BY <1>1, <1>2, <1>3, TypeCorrect, PTL DEF Spec

====
