---- MODULE AgentOutcomeProofs ----
(***************************************************************************)
(* Theorems about what AgentRun's agent and backend make of a run together: *)
(* the backend hears of the start of every run, and its outcome agrees with *)
(* its backup record.  They rest on what the agent listens to (an answer is *)
(* the answer to the request in hand) and on what a handler that answered    *)
(* has seen; and on a run having one holder, and nobody who says anything of *)
(* its outcome before that.                                                 *)
(***************************************************************************)
EXTENDS AgentRunProofs

(* Every task listens to a connection of its own, on which a request is.     *)
Listening ==
  /\ \A t \in Task : conn[t] # NoClient => calls[conn[t]].phase # "idle"
  /\ \A t, u \in Task : conn[t] # NoClient /\ conn[t] = conn[u] => t = u

(* What the pipeline listens to is the request of its step ...               *)
PipeListens ==
  conn["pipe"] # NoClient =>
    /\ pipe.step \in Calling
    /\ pipe.step = "creating" => Heard("pipe").op = "create" /\ Heard("pipe").arg # "manual"
    /\ pipe.step = "claiming" => Heard("pipe").op = "claim" /\ Heard("pipe").run = pipe.run
    /\ pipe.step = "starting" => /\ Heard("pipe").op = "patch" /\ Heard("pipe").run = pipe.run
                                 /\ Heard("pipe").arg = "RUNNING"
    /\ pipe.step = "completing" => /\ Heard("pipe").op = "complete"
                                   /\ Heard("pipe").run = pipe.run
                                   /\ Heard("pipe").arg = pipe.outcome

(* ... and what the replay listens to is the first event of the queue.       *)
ReplayListens ==
  conn["replay"] # NoClient =>
    /\ Heard("replay").op = Head(queue).op
    /\ Heard("replay").run = Head(queue).run
    /\ Heard("replay").arg = Head(queue).arg

(* A patch that found its run RUNNING or over, or was to start it and has    *)
(* been answered.                                                           *)
LeftPending(call) ==
  /\ call.op = "patch"
  /\ \/ call.phase = "refuse"
     \/ call.phase = "read" /\ call.seen = "RUNNING"
     \/ call.arg = "RUNNING" /\ call.reply \in {"ok", "conflict"}

(* Its run is not PENDING, nor will it be again; and only a complete with a  *)
(* status the endpoint does not accept is invalid.                          *)
AnswersAreTrue ==
  \A c \in Client :
    /\ LeftPending(calls[c]) => runs[calls[c].run].status # "PENDING"
    /\ calls[c].reply = "invalid" =>
         calls[c].op = "complete" /\ calls[c].arg \notin CompleteStatus

(* The steps at which the run is the pipeline's, before and after its        *)
(* outcome is known.                                                        *)
Working == {"window", "starting", "config", "transfer", "recording"}
Holding == Working \cup {"completing"}

HoldsWhatItTook ==
  pipe.step \in Holding =>
    runs[pipe.run].dispatched /\ \A c \in Client : ~Granted(c, pipe.run)

Events == {queue[i] : i \in DOMAIN queue}
HasRecord(r) == r \in reported \/ \E event \in Events : event.op = "record" /\ event.run = r

(* A request under way, or in the queue, that ends run r.                    *)
Asked(r, status) ==
  \/ \E c \in Client :
       calls[c].op = "complete" /\ calls[c].run = r /\ calls[c].arg = status
  \/ \E event \in Events :
       event.op = "complete" /\ event.run = r /\ event.arg = status

Untold(r) ==
  /\ ~HasRecord(r)
  /\ \A status \in {"SUCCESS", "FAILED"} : ~Asked(r, status) /\ runs[r].status # status

(* Nothing is said of the outcome of a run before the pipeline has it.       *)
UntoldUntilDone ==
  \A r \in RunId :
    \/ ~runs[r].dispatched
    \/ \E c \in Client : Granted(c, r)
    \/ pipe.step \in Working /\ pipe.run = r
    => Untold(r)

AskedMatchesRecord ==
  /\ \A r \in RunId : /\ Asked(r, "SUCCESS") => HasRecord(r)
                      /\ Asked(r, "FAILED") => ~HasRecord(r)
  /\ pipe.step = "completing" => (pipe.outcome = "SUCCESS" <=> HasRecord(pipe.run))

OutcomeIInv ==
  /\ Listening /\ PipeListens /\ ReplayListens /\ AnswersAreTrue
  /\ HoldsWhatItTook /\ UntoldUntilDone /\ AskedMatchesRecord
  /\ OutcomeMatchesRecord /\ StartIsKnown

----
(* The backend's steps.                                                     *)

GoesOn(c) ==
  /\ calls'[c].op = calls[c].op /\ calls'[c].arg = calls[c].arg
  /\ calls[c].phase # "idle" => calls'[c].phase # "idle"
  /\ calls[c].op # "create" => calls'[c].run = calls[c].run

CallsGoOn ==
  /\ \A c \in Client : GoesOn(c)
  /\ \A c \in Client, r \in RunId : Granted(c, r)' => Granted(c, r) \/ ~runs[r].dispatched
  /\ AnswersAreTrue'

(* A run becomes PENDING when it is created, and ends as a complete asks.    *)
RunsGoOn ==
  \A r \in RunId :
    /\ runs'[r].status = "PENDING" => runs[r].status \in {"PENDING", "ABSENT"}
    /\ \A status \in {"SUCCESS", "FAILED"} : runs'[r].status = status =>
         \/ runs[r].status = status
         \/ \E c \in Client :
              calls[c].op = "complete" /\ calls[c].run = r /\ calls[c].arg = status

LEMMA CallGoesOn ==
  ASSUME TypeOK, AnswersAreTrue, RunsGoOn, NEW c \in Client, NEW call,
         calls' = [calls EXCEPT ![c] = call],
         call.op = calls[c].op, call.arg = calls[c].arg, call.phase # "idle",
         call.op # "create" => call.run = calls[c].run,
         LeftPending(call) => runs'[call.run].status # "PENDING",
         call.reply = "invalid" => call.op = "complete" /\ call.arg \notin CompleteStatus,
         call.phase = "replied" /\ call.reply = "ok" /\ call.op \in {"create", "claim"}
           => ~runs[call.run].dispatched
  PROVE  CallsGoOn
<1>1. calls'[c] = call /\ \A d \in Client \ {c} : calls'[d] = calls[d]
  BY DEF TypeOK
<1>2. \A d \in Client : GoesOn(d)
  BY <1>1 DEF GoesOn
<1>3. ASSUME NEW d \in Client, NEW r \in RunId, Granted(d, r)'
      PROVE  Granted(d, r) \/ ~runs[r].dispatched
  <2>1. CASE d = c
    BY <1>1, <1>3, <2>1 DEF Granted
  <2>2. CASE d # c
    BY <1>1, <1>3, <2>2 DEF Granted
  <2> QED
    BY <2>1, <2>2
<1>4. ASSUME NEW d \in Client, LeftPending(calls'[d])
      PROVE  runs'[calls'[d].run].status # "PENDING"
  <2>1. CASE d = c
    BY <1>1, <1>4, <2>1
  <2>2. CASE d # c
    <3>1. LeftPending(calls[d]) /\ calls[d].op = "patch" /\ calls'[d] = calls[d]
      BY <1>1, <1>4, <2>2 DEF LeftPending
    <3>2. calls[d].run \in RunId /\ runs[calls[d].run].status \notin {"ABSENT", "PENDING"}
      BY <3>1 DEF AnswersAreTrue, TypeOK, CallsWellFormed
    <3> QED
      BY <3>1, <3>2 DEF RunsGoOn
  <2> QED
    BY <2>1, <2>2
<1>5. ASSUME NEW d \in Client, calls'[d].reply = "invalid"
      PROVE  calls'[d].op = "complete" /\ calls'[d].arg \notin CompleteStatus
  BY <1>1, <1>5 DEF AnswersAreTrue
<1> QED
  BY <1>2, <1>3, <1>4, <1>5 DEF CallsGoOn, AnswersAreTrue, LeftPending

LEMMA CallsStay ==
  ASSUME TypeOK, AnswersAreTrue, RunsGoOn, calls' = calls
  PROVE  CallsGoOn
<1>1. ASSUME NEW d \in Client, LeftPending(calls[d])
      PROVE  runs'[calls[d].run].status # "PENDING"
  <2>1. calls[d].run \in RunId /\ runs[calls[d].run].status \notin {"ABSENT", "PENDING"}
    BY <1>1 DEF AnswersAreTrue, TypeOK, CallsWellFormed, LeftPending
  <2> QED
    BY <2>1 DEF RunsGoOn
<1> QED
  BY <1>1 DEF CallsGoOn, GoesOn, Granted, AnswersAreTrue, LeftPending

LEMMA AnswerGoesOn ==
  ASSUME TypeOK, AnswersAreTrue, RunsGoOn, NEW c \in Client, NEW reply, Answer(c, reply),
         calls[c].phase # "idle",
         calls[c].op = "patch" /\ calls[c].arg = "RUNNING" /\ reply \in {"ok", "conflict"}
           => runs'[calls[c].run].status # "PENDING",
         reply = "invalid" => calls[c].op = "complete" /\ calls[c].arg \notin CompleteStatus,
         reply = "ok" /\ calls[c].op \in {"create", "claim"} => ~runs[calls[c].run].dispatched
  PROVE  CallsGoOn
<1> DEFINE call == [calls[c] EXCEPT !.phase = "replied", !.reply = reply, !.seen = "none"]
<1>1. calls[c] \in Call
  BY DEF TypeOK
<1>2. calls' = [calls EXCEPT ![c] = call]
  BY <1>1 DEF TypeOK, Answer
<1>3. /\ call.op = calls[c].op /\ call.arg = calls[c].arg /\ call.run = calls[c].run
      /\ call.phase = "replied" /\ call.reply = reply
  BY <1>1 DEF Call
<1>4. LeftPending(call) => runs'[call.run].status # "PENDING"
  <2> HIDE DEF call
  <2> QED
    BY <1>3 DEF LeftPending
<1> HIDE DEF call
<1> QED
  BY <1>2, <1>3, <1>4, CallGoesOn

LEMMA RunsStay ==
  ASSUME runs' = runs
  PROVE  RunsGoOn
BY DEF RunsGoOn

LEMMA RowGoesOn ==
  ASSUME TypeOK, NEW r \in RunId, NEW row, runs' = [runs EXCEPT ![r] = row],
         row.status = "PENDING" => runs[r].status \in {"PENDING", "ABSENT"},
         row.status \in {"SUCCESS", "FAILED"} =>
           \/ row.status = runs[r].status
           \/ \E c \in Client :
                calls[c].op = "complete" /\ calls[c].run = r /\ calls[c].arg = row.status
  PROVE  RunsGoOn /\ runs'[r] = row
BY DEF TypeOK, RunsGoOn

LEMMA CreateReadGoesOn ==
  ASSUME TypeOK, AnswersAreTrue, NEW c \in Client, CreateRead(c)
  PROVE  RunsGoOn /\ CallsGoOn
<1>1. RunsGoOn /\ calls[c].op = "create" /\ calls[c].phase # "idle" /\ calls[c] \in Call
  BY RunsStay DEF CreateRead, At, rowVars, TypeOK
<1>2. CASE Answer(c, "conflict")
  BY <1>1, <1>2, AnswerGoesOn
<1>3. CASE calls' = [calls EXCEPT ![c].phase = "read"]
  <2> DEFINE call == [calls[c] EXCEPT !.phase = "read"]
  <2>1. calls' = [calls EXCEPT ![c] = call]
    BY <1>1, <1>3 DEF TypeOK
  <2>2. /\ call.op = "create" /\ call.arg = calls[c].arg /\ call.phase = "read"
        /\ call.reply = calls[c].reply
    BY <1>1 DEF Call
  <2>3. ~LeftPending(call) /\ call.reply # "invalid"
    BY <1>1, <2>2 DEF LeftPending, AnswersAreTrue
  <2> HIDE DEF call
  <2> QED
    BY <1>1, <2>1, <2>2, <2>3, CallGoesOn
<1> QED
  BY <1>1, <1>2, <1>3 DEF CreateRead

LEMMA CreateInsertGoesOn ==
  ASSUME TypeOK, AnswersAreTrue, NEW c \in Client, CreateInsert(c)
  PROVE  RunsGoOn /\ CallsGoOn
<1>1. calls[c].op = "create" /\ calls[c].phase # "idle" /\ calls[c] \in Call
  BY DEF CreateInsert, At, TypeOK
<1>2. CASE Answer(c, "conflict") /\ UNCHANGED runs
  BY <1>1, <1>2, RunsStay, AnswerGoesOn
<1>3. ASSUME NEW r \in RunId, runs[r].status = "ABSENT",
             runs' = [runs EXCEPT ![r] =
               [NoRow EXCEPT !.job = calls[c].job, !.status = "PENDING", !.trigger = calls[c].arg,
                             !.dispatched = DispatchedAtInsert(calls[c].arg)]],
             calls' = [calls EXCEPT ![c].phase = "replied", ![c].reply = "ok", ![c].run = r]
      PROVE  RunsGoOn /\ CallsGoOn
  <2> DEFINE call == [calls[c] EXCEPT !.phase = "replied", !.reply = "ok", !.run = r]
             row == [NoRow EXCEPT !.job = calls[c].job, !.status = "PENDING",
                                  !.trigger = calls[c].arg,
                                  !.dispatched = DispatchedAtInsert(calls[c].arg)]
  <2>1. row.status = "PENDING" /\ runs' = [runs EXCEPT ![r] = row]
    BY <1>3 DEF NoRow
  <2>2. RunsGoOn
    <3> HIDE DEF row
    <3> QED
      BY <1>3, <2>1, RowGoesOn
  <2>3. calls' = [calls EXCEPT ![c] = call]
    BY <1>1, <1>3 DEF TypeOK
  <2>4. /\ call.op = "create" /\ call.arg = calls[c].arg /\ call.phase = "replied"
        /\ call.reply = "ok" /\ call.run = r
    BY <1>1 DEF Call
  <2>5. ~LeftPending(call) /\ ~runs[r].dispatched
    BY <1>3, <2>4 DEF LeftPending, TypeOK, RowsWellFormed
  <2> HIDE DEF call
  <2> QED
    BY <1>1, <2>2, <2>3, <2>4, <2>5, CallGoesOn
<1> QED
  BY <1>2, <1>3 DEF CreateInsert, NextFreeId

LEMMA ReadRowGoesOn ==
  ASSUME TypeOK, AnswersAreTrue, NEW c \in Client, ReadRow(c)
  PROVE  RunsGoOn /\ CallsGoOn
<1>1. /\ RunsGoOn /\ runs' = runs /\ calls[c] \in Call
      /\ calls[c].op \in {"patch", "complete"} /\ calls[c].phase = "sent"
      /\ runs[calls[c].run].status \in Status
  BY RunsStay DEF ReadRow, rowVars, TypeOK, CallsWellFormed, Row
<1>2. CASE calls[c].op = "complete" /\ calls[c].arg \notin CompleteStatus
  <2>1. Answer(c, "invalid")
    BY <1>2 DEF ReadRow
  <2> QED
    BY <1>1, <1>2, <2>1, AnswerGoesOn
<1>3. CASE ~(calls[c].op = "complete" /\ calls[c].arg \notin CompleteStatus)
  <2> DEFINE status == runs[calls[c].run].status
             phase == IF status \in Active THEN "read" ELSE "refuse"
             seen == IF status \in Active THEN status ELSE calls[c].seen
             call == [calls[c] EXCEPT !.phase = phase, !.seen = seen]
  <2>1. calls' = [calls EXCEPT ![c] = call]
    <3>1. calls \in [Client -> Call] /\ calls[c] \in Call
      BY DEF TypeOK
    <3>2. CASE status \in Active
      <4>1. calls' = [calls EXCEPT ![c].phase = "read", ![c].seen = status]
        BY <1>3, <3>2 DEF ReadRow
      <4>2. call = [calls[c] EXCEPT !.phase = "read", !.seen = status]
        BY <3>2
      <4> HIDE DEF call
      <4> QED
        BY <3>1, <4>1, <4>2
    <3>3. CASE status \notin Active
      <4>1. calls' = [calls EXCEPT ![c].phase = "refuse"]
        BY <1>3, <3>3 DEF ReadRow
      <4>2. call = [calls[c] EXCEPT !.phase = "refuse"]
        BY <3>1, <3>3 DEF Call
      <4> HIDE DEF call
      <4> QED
        BY <3>1, <4>1, <4>2
    <3> QED
      BY <3>2, <3>3
  <2>2. /\ call.op = calls[c].op /\ call.arg = calls[c].arg /\ call.run = calls[c].run
        /\ call.phase = phase /\ call.seen = seen /\ call.reply = calls[c].reply
    BY <1>1 DEF Call
  <2>3. /\ phase \in {"read", "refuse"}
        /\ phase = "refuse" \/ (phase = "read" /\ seen = "RUNNING") => status # "PENDING"
    BY DEF Active
  <2> HIDE DEF call, phase, seen
  <2>4. LeftPending(call) => runs'[call.run].status # "PENDING"
    BY <1>1, <2>2, <2>3 DEF LeftPending, AnswersAreTrue
  <2>5. call.reply = "invalid" => call.op = "complete" /\ call.arg \notin CompleteStatus
    BY <2>2 DEF AnswersAreTrue
  <2> QED
    BY <1>1, <2>1, <2>2, <2>3, <2>4, <2>5, CallGoesOn
<1> QED
  BY <1>1, <1>2, <1>3

LEMMA RefuseFinishedGoesOn ==
  ASSUME TypeOK, AnswersAreTrue, NEW c \in Client, RefuseFinished(c)
  PROVE  RunsGoOn /\ CallsGoOn
<1> DEFINE r == calls[c].run
           row == [runs[r] EXCEPT !.ack = TRUE]
<1>1. /\ calls[c].phase = "refuse" /\ calls[c].op \in {"patch", "complete"} /\ r \in RunId
      /\ Answer(c, "conflict") /\ runs[r] \in Row
  BY DEF RefuseFinished, TypeOK, CallsWellFormed
<1>2. runs' = runs \/ runs' = [runs EXCEPT ![r] = row]
  BY DEF RefuseFinished, TypeOK
<1>3. row.status = runs[r].status
  BY <1>1 DEF Row
<1>4. RunsGoOn
  <2> HIDE DEF row
  <2> QED
    BY <1>1, <1>2, <1>3, RunsStay, RowGoesOn
<1>5. calls[c].op = "patch" => runs'[r].status # "PENDING"
  BY <1>1, <1>2, <1>3 DEF AnswersAreTrue, LeftPending, TypeOK
<1> QED
  BY <1>1, <1>4, <1>5, AnswerGoesOn

LEMMA PatchWriteGoesOn ==
  ASSUME TypeOK, AnswersAreTrue, NEW c \in Client, PatchWrite(c)
  PROVE  RunsGoOn /\ CallsGoOn
<1> DEFINE r == calls[c].run
           row == Patched(runs[r], calls[c].arg)
<1>1. /\ calls[c].phase = "read" /\ calls[c].op = "patch" /\ r \in RunId
      /\ calls[c].seen \in Active /\ runs[r] \in Row
  BY DEF PatchWrite, At, TypeOK, CallsWellFormed
<1>2. CASE ~MatchesRead(r, calls[c].seen) /\ UNCHANGED runs /\ Answer(c, "conflict")
  <2>1. runs[r].status # "PENDING"
    BY <1>1, <1>2 DEF MatchesRead, Active, AnswersAreTrue, LeftPending
  <2> QED
    BY <1>1, <1>2, <2>1, RunsStay, AnswerGoesOn
<1>3. CASE MatchesRead(r, calls[c].seen) /\ runs' = [runs EXCEPT ![r] = row] /\ Answer(c, "ok")
  <2>1. /\ row.status \in {runs[r].status, "RUNNING"}
        /\ calls[c].arg = "RUNNING" => row.status = "RUNNING"
    BY <1>1 DEF Patched, Row
  <2> HIDE DEF row
  <2>2. RunsGoOn /\ runs'[r] = row
    BY <1>1, <1>3, <2>1, RowGoesOn
  <2> QED
    BY <1>1, <1>3, <2>1, <2>2, AnswerGoesOn
<1> QED
  BY <1>2, <1>3 DEF PatchWrite, TypeOK

LEMMA CompleteWriteGoesOn ==
  ASSUME TypeOK, AnswersAreTrue, NEW c \in Client, CompleteWrite(c)
  PROVE  RunsGoOn /\ CallsGoOn
<1> DEFINE r == calls[c].run
           row == Closed(runs[r], calls[c].arg)
<1>1. /\ calls[c].phase = "read" /\ calls[c].op = "complete" /\ r \in RunId
      /\ calls[c].arg \in CompleteStatus /\ runs[r] \in Row
  BY DEF CompleteWrite, At, TypeOK, CallsWellFormed
<1>2. CASE UNCHANGED runs /\ Answer(c, "conflict")
  BY <1>1, <1>2, RunsStay, AnswerGoesOn
<1>3. CASE runs' = [runs EXCEPT ![r] = row] /\ Answer(c, "ok")
  <2>1. row.status = calls[c].arg /\ row.status # "PENDING"
    BY <1>1 DEF Closed, Row, CompleteStatus
  <2> HIDE DEF row
  <2>2. RunsGoOn
    BY <1>1, <1>3, <2>1, RowGoesOn
  <2> QED
    BY <1>1, <1>3, <2>2, AnswerGoesOn
<1> QED
  BY <1>2, <1>3 DEF CompleteWrite, TypeOK

LEMMA ClaimWriteGoesOn ==
  ASSUME TypeOK, AnswersAreTrue, NEW c \in Client, ClaimWrite(c)
  PROVE  RunsGoOn /\ CallsGoOn
<1> DEFINE r == calls[c].run
           row == [runs[r] EXCEPT !.dispatched = TRUE]
<1>1. calls[c].phase = "sent" /\ calls[c].op = "claim" /\ r \in RunId /\ runs[r] \in Row
  BY DEF ClaimWrite, At, TypeOK, CallsWellFormed
<1>2. CASE UNCHANGED runs /\ Answer(c, "conflict")
  BY <1>1, <1>2, RunsStay, AnswerGoesOn
<1>3. CASE Claimable(r) /\ runs' = [runs EXCEPT ![r].dispatched = TRUE] /\ Answer(c, "ok")
  <2>1. runs' = [runs EXCEPT ![r] = row] /\ row.status = runs[r].status
    BY <1>1, <1>3 DEF Row, TypeOK
  <2> HIDE DEF row
  <2>2. RunsGoOn
    BY <1>1, <2>1, RowGoesOn
  <2> QED
    BY <1>1, <1>3, <2>2, AnswerGoesOn DEF Claimable
<1> QED
  BY <1>2, <1>3 DEF ClaimWrite

LEMMA CancelWriteGoesOn ==
  ASSUME TypeOK, AnswersAreTrue, NEW c \in Client, CancelWrite(c)
  PROVE  RunsGoOn /\ CallsGoOn
<1> DEFINE r == calls[c].run
           row == [Closed(runs[r], "CANCELLED") EXCEPT !.cancelReq = TRUE]
<1>1. calls[c].phase = "sent" /\ calls[c].op = "cancel" /\ r \in RunId /\ runs[r] \in Row
  BY DEF CancelWrite, At, TypeOK, CallsWellFormed
<1>2. CASE UNCHANGED runs /\ Answer(c, "conflict")
  BY <1>1, <1>2, RunsStay, AnswerGoesOn
<1>3. CASE runs' = [runs EXCEPT ![r] = row] /\ Answer(c, "ok")
  <2>1. row.status = "CANCELLED"
    BY <1>1 DEF Closed, Row
  <2> HIDE DEF row
  <2>2. RunsGoOn
    BY <1>1, <1>3, <2>1, RowGoesOn
  <2> QED
    BY <1>1, <1>3, <2>2, AnswerGoesOn
<1> QED
  BY <1>2, <1>3 DEF CancelWrite

LEMMA WorkerGoesOn ==
  ASSUME TypeOK, AnswersAreTrue, WorkerStep \/ TickFails \/ Environment
  PROVE  RunsGoOn /\ CallsGoOn
<1>1. calls' = calls
  BY DEF WorkerStep, MissedScan, MissedJob, TimeoutScan, TimeoutRow, DispatchScan,
         DispatchRow, CloseRow, TickEnds, TickFails, Environment, TimeLimitPasses, FireIsMissed,
         SwitchJob, CloseAlert
<1>2. ASSUME NEW r \in RunId, TimeoutRow(r) \/ DispatchRow(r) \/ TimeLimitPasses(r), runs' # runs
      PROVE  RunsGoOn
  <2>1. PICK row : /\ runs' = [runs EXCEPT ![r] = row]
                   /\ row.status \in {runs[r].status, "TIMEOUT", "STUCK"}
    <3>1. runs[r] \in Row
      BY DEF TypeOK
    <3>2. CASE TimeoutRow(r)
      <4>1. runs' = [runs EXCEPT ![r] = Closed(runs[r], "TIMEOUT")]
        BY <1>2, <3>2 DEF TimeoutRow, CloseRow
      <4>2. Closed(runs[r], "TIMEOUT").status = "TIMEOUT"
        BY <3>1 DEF Closed, Row
      <4> QED
        BY <4>1, <4>2
    <3>3. CASE DispatchRow(r)
      <4> DEFINE row == [Closed(runs[r], "STUCK") EXCEPT !.cancelReq = TRUE, !.ack = TRUE]
      <4>1. runs' = [runs EXCEPT ![r] = row]
        BY <1>2, <3>3 DEF DispatchRow, CloseRow
      <4>2. row.status = "STUCK"
        BY <3>1 DEF Closed, Row
      <4> QED
        BY <4>1, <4>2
    <3>4. CASE TimeLimitPasses(r)
      <4>1. runs' = [runs EXCEPT ![r] = [runs[r] EXCEPT !.overdue = TRUE]]
        BY <3>4 DEF TimeLimitPasses, TypeOK
      <4>2. [runs[r] EXCEPT !.overdue = TRUE].status = runs[r].status
        BY <3>1 DEF Row
      <4> QED
        BY <4>1, <4>2
    <3> QED
      BY <1>2, <3>2, <3>3, <3>4
  <2> QED
    BY <2>1, RowGoesOn
<1>3. RunsGoOn
  <2>1. runs' = runs \/ \E r \in RunId : TimeoutRow(r) \/ DispatchRow(r) \/ TimeLimitPasses(r)
    BY DEF WorkerStep, MissedScan, MissedJob, TimeoutScan, DispatchScan, TickEnds, TickFails,
           Environment, FireIsMissed, SwitchJob, CloseAlert, rowVars
  <2> QED
    BY <1>2, <2>1, RunsStay
<1> QED
  BY <1>1, <1>3, CallsStay

LEMMA BackendGoesOn ==
  ASSUME TypeOK, AnswersAreTrue, Backend
  PROVE  RunsGoOn /\ CallsGoOn
<1>1. CASE Handlers
  BY <1>1, CreateReadGoesOn, CreateInsertGoesOn, ReadRowGoesOn, RefuseFinishedGoesOn,
     PatchWriteGoesOn, CompleteWriteGoesOn, ClaimWriteGoesOn, CancelWriteGoesOn DEF Handlers
<1>2. CASE WorkerStep \/ TickFails \/ Environment
  BY <1>2, WorkerGoesOn
<1> QED
  BY <1>1, <1>2 DEF Backend

LEMMA BackendKeepsOutcome ==
  ASSUME AgentIInv, TypeOK', OutcomeIInv, Backend
  PROVE  OutcomeIInv'
<1>1. /\ TypeOK /\ AnswersAreTrue
      /\ UNCHANGED <<pipe, progress, conn, queue, cache, muted, reported>>
  BY DEF AgentIInv, OutcomeIInv, Backend
<1>2. RunsGoOn /\ CallsGoOn
  BY <1>1, BackendGoesOn
<1>3. \A r \in RunId : runs[r].dispatched => runs'[r].dispatched
  <2>1. [Next]_vars
    BY DEF Backend, Next
  <2>2. [Lifecycle!Next]_(Lifecycle!vars)
    BY <1>1, <2>1, StepRefines
  <2> QED
    BY <1>1, <2>2, DispatchedKept
<1>4. ASSUME NEW t \in Task, conn[t] # NoClient
      PROVE  /\ conn[t] \in Client /\ GoesOn(conn[t]) /\ calls'[conn[t]] = Heard(t)'
  <2>1. conn[t] \in Client
    BY <1>4 DEF AgentIInv, InHandOK, ConnOK
  <2> QED
    BY <1>1, <1>2, <2>1 DEF CallsGoOn, Heard
<1>5. Listening'
  BY <1>1, <1>4 DEF OutcomeIInv, Listening, GoesOn
<1>6. PipeListens'
  BY <1>1, <1>4 DEF OutcomeIInv, PipeListens, GoesOn, Heard, Task
<1>7. ReplayListens'
  <2>1. conn["replay"] # NoClient => Head(queue).op # "create"
    BY HeadSendable DEF AgentIInv, InHandOK, ConnOK, Sendable, QueuedEvent
  <2> QED
    BY <1>1, <1>4, <2>1 DEF OutcomeIInv, ReplayListens, GoesOn, Heard, Task
<1>8. pipe.step \in Holding => pipe.run \in ExistingRun
  BY DEF AgentIInv, InHandOK, PipeOK, Holding, Working
<1>9. HoldsWhatItTook'
  BY <1>1, <1>2, <1>3, <1>8 DEF OutcomeIInv, HoldsWhatItTook, CallsGoOn, ExistingRun
<1>10. \A r \in RunId : HasRecord(r)' <=> HasRecord(r)
  BY <1>1 DEF HasRecord, Events
<1>11. \A r \in RunId : \A status : Asked(r, status)' => Asked(r, status)
  BY <1>1, <1>2 DEF Asked, Events, CallsGoOn, GoesOn
<1>12. UntoldUntilDone'
  <2> SUFFICES ASSUME NEW r \in RunId,
                      \/ ~runs'[r].dispatched
                      \/ \E c \in Client : Granted(c, r)'
                      \/ pipe.step \in Working /\ pipe.run = r
               PROVE  Untold(r)'
    BY <1>1 DEF UntoldUntilDone
  <2>1. Untold(r)
    BY <1>2, <1>3 DEF OutcomeIInv, UntoldUntilDone, CallsGoOn
  <2>2. ~HasRecord(r)'
    BY <1>10, <2>1 DEF Untold
  <2>3. ASSUME NEW status \in {"SUCCESS", "FAILED"}
        PROVE  ~Asked(r, status)' /\ runs'[r].status # status
    BY <1>2, <1>11, <2>1 DEF Untold, RunsGoOn, Asked
  <2> QED
    BY <2>2, <2>3 DEF Untold
<1>13. AskedMatchesRecord'
  BY <1>1, <1>8, <1>10, <1>11 DEF OutcomeIInv, AskedMatchesRecord, Holding, ExistingRun
<1>14. OutcomeMatchesRecord'
  <2>1. ASSUME NEW r \in RunId
        PROVE  /\ runs'[r].status = "SUCCESS" => HasRecord(r)
               /\ runs'[r].status = "FAILED" => ~HasRecord(r)
    <3>1. /\ runs[r].status = "SUCCESS" => HasRecord(r)
          /\ runs[r].status = "FAILED" => ~HasRecord(r)
      BY DEF OutcomeIInv, OutcomeMatchesRecord, HasRecord, IsQueued, Events
    <3>2. /\ runs'[r].status = "SUCCESS" => runs[r].status = "SUCCESS" \/ Asked(r, "SUCCESS")
          /\ runs'[r].status = "FAILED" => runs[r].status = "FAILED" \/ Asked(r, "FAILED")
      BY <1>2 DEF RunsGoOn, Asked
    <3> QED
      BY <3>1, <3>2 DEF OutcomeIInv, AskedMatchesRecord
  <2> QED
    BY <1>1, <2>1 DEF OutcomeMatchesRecord, HasRecord, IsQueued, Events
<1>15. StartIsKnown'
  <2>1. ASSUME pipe.step \in {"config", "transfer", "recording"}, runs'[pipe.run].status = "PENDING"
        PROVE  runs[pipe.run].status = "PENDING"
    BY <1>2, <1>8, <2>1 DEF RunsGoOn, ExistingRun, Holding, Working
  <2> QED
    BY <1>1, <2>1 DEF OutcomeIInv, StartIsKnown
<1> QED
  BY <1>2, <1>5, <1>6, <1>7, <1>9, <1>12, <1>13, <1>14, <1>15 DEF OutcomeIInv, CallsGoOn

----
(* What the agent's steps do to the connections and the calls.              *)

(* A task that still listens listens to the same call.                      *)
Kept(t) == conn'[t] # NoClient => conn'[t] = conn[t] /\ calls'[conn[t]] = calls[conn[t]]

(* Calls end, or begin.                                                     *)
CallsCome ==
  \A c \in Client : \/ calls'[c] = calls[c]
                    \/ calls'[c].reply = "none" /\ calls'[c].phase \in {"idle", "sent"}

CompletesStay ==
  \A c \in Client : calls'[c].op = "complete" => calls'[c] = calls[c]

LEMMA RequestFields ==
  ASSUME NEW op, NEW j, NEW r, NEW arg
  PROVE  LET request == Request(op, j, r, arg) IN
         /\ request.phase = "sent" /\ request.op = op /\ request.run = r
         /\ request.arg = arg /\ request.reply = "none"
BY DEF Request, NoCall

LEMMA NoCallFields == NoCall.phase = "idle" /\ NoCall.op = "none" /\ NoCall.reply = "none"
BY DEF NoCall

LEMMA AnswersKept ==
  ASSUME AnswersAreTrue, runs' = runs, CallsCome
  PROVE  AnswersAreTrue' /\ \A c \in Client, r \in RunId : Granted(c, r)' => Granted(c, r)
BY DEF AnswersAreTrue, LeftPending, CallsCome, Granted

LEMMA QuietConn ==
  ASSUME Listening, conn' = conn, calls' = calls
  PROVE  Listening' /\ (\A t \in Task : Kept(t)) /\ CallsCome /\ CompletesStay
BY DEF Listening, Kept, CallsCome, CompletesStay

LEMMA AttemptConn ==
  ASSUME TypeOK, ConnOK, Listening, NEW t \in Task, NEW op, NEW j, NEW r, NEW arg,
         Attempt(t, Request(op, j, r, arg))
  PROVE  /\ Listening' /\ (\A u \in Task \ {t} : Kept(u)) /\ CallsCome
         /\ conn'[t] # NoClient
         /\ calls'[conn'[t]] = Request(op, j, r, arg)
         /\ \A c \in Client : calls'[c] \in {calls[c], Request(op, j, r, arg)}
<1> DEFINE request == Request(op, j, r, arg)
<1>1. request.phase = "sent" /\ request.reply = "none"
  BY RequestFields
<1> HIDE DEF request
<1>2. PICK c \in Client : /\ calls[c].phase = "idle" /\ calls' = [calls EXCEPT ![c] = request]
                          /\ conn' = [conn EXCEPT ![t] = c]
  BY DEF Attempt, Send, request
<1>3. /\ conn'[t] = c /\ \A u \in Task \ {t} : conn'[u] = conn[u]
      /\ calls'[c] = request /\ \A d \in Client \ {c} : calls'[d] = calls[d]
      /\ c # NoClient /\ conn \in [Task -> Client \cup {NoClient}]
  BY <1>2, AgentAssumption DEF ConnOK, TypeOK
<1>4. \A u \in Task : conn[u] # NoClient => conn[u] \in Client \ {c}
  BY <1>2, <1>3 DEF Listening
<1>5. \A u \in Task \ {t} : Kept(u)
  BY <1>3, <1>4 DEF Kept
<1>6. Listening'
  BY <1>1, <1>3, <1>4 DEF Listening
<1>7. CallsCome
  BY <1>1, <1>3 DEF CallsCome
<1> QED
  BY <1>3, <1>5, <1>6, <1>7 DEF request

(* One call ends, and nobody but a given task listened to it.               *)
LEMMA EndConn ==
  ASSUME TypeOK, ConnOK, Listening, NEW c \in Client, calls' = [calls EXCEPT ![c] = NoCall],
         conn' \in [Task -> Client \cup {NoClient}],
         \A t \in Task : conn'[t] \in {conn[t], NoClient} /\ conn'[t] # c
  PROVE  Listening' /\ (\A t \in Task : Kept(t)) /\ CallsCome /\ CompletesStay
<1>1. calls'[c] = NoCall /\ \A d \in Client \ {c} : calls'[d] = calls[d]
  BY DEF TypeOK
<1>2. \A t \in Task : conn[t] \in Client \cup {NoClient}
  BY DEF ConnOK
<1> QED
  BY <1>1, <1>2, NoCallFields DEF Listening, Kept, CallsCome, CompletesStay

LEMMA HearConn ==
  ASSUME TypeOK, ConnOK, Listening, NEW t \in Task, NEW reply, Hear(t, reply)
  PROVE  /\ Listening' /\ (\A u \in Task : Kept(u)) /\ CallsCome /\ CompletesStay
         /\ conn'[t] = NoClient /\ conn[t] \in Client
         /\ Heard(t).phase = "replied" /\ Heard(t).reply = reply
         /\ calls' = [calls EXCEPT ![conn[t]] = NoCall]
<1>1. /\ conn[t] \in Client /\ conn[t] # NoClient /\ conn \in [Task -> Client \cup {NoClient}]
      /\ calls' = [calls EXCEPT ![conn[t]] = NoCall]
      /\ conn' = [conn EXCEPT ![t] = NoClient]
      /\ Heard(t).phase = "replied" /\ Heard(t).reply = reply
  BY DEF Hear, ReceiveReply, Heard, ConnOK
<1>2. /\ conn'[t] = NoClient
      /\ \A u \in Task : conn'[u] \in {conn[u], NoClient} /\ conn'[u] # conn[t]
  BY <1>1 DEF Listening
<1>3. conn' \in [Task -> Client \cup {NoClient}]
  BY <1>1
<1> QED
  BY <1>1, <1>2, <1>3, EndConn

LEMMA ListensOn ==
  ASSUME PipeListens, ReplayListens, Kept("pipe"), Kept("replay"),
         conn'["pipe"] # NoClient => pipe' = pipe,
         conn'["replay"] # NoClient => Head(queue') = Head(queue)
  PROVE  PipeListens' /\ ReplayListens'
BY DEF PipeListens, ReplayListens, Kept, Heard

(* While the pipeline does not wait for the backend, it does not listen.     *)
LEMMA NotCalling ==
  ASSUME PipeListens, pipe.step \notin Calling
  PROVE  conn["pipe"] = NoClient
BY DEF PipeListens

----
(* What they do to the queue.                                               *)

LEMMA EventsGrow ==
  ASSUME QueueOK, NEW event, Enqueue(event)
  PROVE  Events' = Events \cup {event} /\ (queue # <<>> => Head(queue') = Head(queue))
<1>1. queue \in Seq(Sendable) /\ queue' = Append(queue, event)
  BY DEF QueueOK, Enqueue
<1>2. Len(queue) \in Nat /\ DOMAIN queue = 1 .. Len(queue)
  BY <1>1
<1>3. /\ DOMAIN queue' = 1 .. Len(queue) + 1
      /\ \A i \in 1 .. Len(queue) : queue'[i] = queue[i]
      /\ queue'[Len(queue) + 1] = event
  BY <1>1
<1>4. 1 .. Len(queue) + 1 = (1 .. Len(queue)) \cup {Len(queue) + 1}
  BY <1>2
<1>5. Events' = Events \cup {event}
  BY <1>2, <1>3, <1>4 DEF Events
<1>6. queue # <<>> => Head(queue') = Head(queue)
  BY <1>1
<1> QED
  BY <1>5, <1>6

LEMMA EventsShrink ==
  ASSUME QueueOK, queue # <<>>, queue' = Tail(queue)
  PROVE  Events = Events' \cup {Head(queue)}
<1>1. queue \in Seq(Sendable) /\ Len(queue) \in Nat /\ Len(queue) > 0
      /\ DOMAIN queue = 1 .. Len(queue) /\ Head(queue) = queue[1]
  BY DEF QueueOK
<1>2. /\ DOMAIN queue' = 1 .. Len(queue) - 1
      /\ \A i \in 1 .. Len(queue) - 1 : queue'[i] = queue[i + 1]
  BY <1>1
<1>3. ASSUME NEW i \in DOMAIN queue PROVE queue[i] \in Events' \cup {Head(queue)}
  <2>1. CASE i = 1
    BY <1>1, <2>1
  <2>2. CASE i # 1
    <3>1. i - 1 \in 1 .. Len(queue) - 1 /\ queue'[i - 1] = queue[i]
      <4>1. i \in Nat /\ i >= 1 /\ i <= Len(queue)
        BY <1>1
      <4>2. i - 1 \in 1 .. Len(queue) - 1 /\ (i - 1) + 1 = i
        BY <1>1, <2>2, <4>1
      <4> QED
        BY <1>2, <4>2
    <3> QED
      BY <1>2, <3>1 DEF Events
  <2> QED
    BY <2>1, <2>2
<1>4. ASSUME NEW i \in DOMAIN queue' PROVE queue'[i] \in Events
  <2>1. i + 1 \in DOMAIN queue /\ queue'[i] = queue[i + 1]
    BY <1>1, <1>2
  <2> QED
    BY <2>1 DEF Events
<1>5. Head(queue) \in Events
  BY <1>1 DEF Events
<1> QED
  BY <1>3, <1>4, <1>5 DEF Events

LEMMA EventsStay ==
  ASSUME queue' = queue
  PROVE  Events' = Events
BY DEF Events

----
(* What they do to the outcome of a run.                                    *)

OutcomeParts ==
  HoldsWhatItTook /\ UntoldUntilDone /\ AskedMatchesRecord /\ OutcomeMatchesRecord

RecordsStay == \A r \in RunId : HasRecord(r)' <=> HasRecord(r)

(* Nobody is granted a run by a step of the agent, and only the pipeline's   *)
(* outcome is asked for.                                                    *)
AsksItsOutcome ==
  /\ runs' = runs
  /\ \A c \in Client, r \in RunId : Granted(c, r)' => Granted(c, r)
  /\ \A r \in RunId, status \in {"SUCCESS", "FAILED"} : Asked(r, status)' =>
       \/ Asked(r, status)
       \/ pipe.step = "completing" /\ pipe.run = r /\ pipe.outcome = status

(* What the pipeline does with the run it holds: it lets go of it, ...       *)
LetsGo == pipe'.step \notin Holding /\ RecordsStay

(* ... or goes on with it, without a record, ...                             *)
GoesOnWith ==
  /\ pipe.step \in Holding /\ pipe'.step \in Holding /\ pipe'.run = pipe.run
  /\ pipe'.step \in Working => pipe.step \in Working
  /\ pipe'.step = "completing" =>
       \/ pipe' = pipe
       \/ pipe'.outcome # "SUCCESS" /\ (pipe.step = "completing" => pipe.outcome # "SUCCESS")
  /\ RecordsStay

(* ... or records it, ...                                                   *)
RecordsIt ==
  /\ pipe.step = "recording" /\ pipe'.step = "completing" /\ pipe'.run = pipe.run
  /\ pipe'.outcome = "SUCCESS"
  /\ \A r \in RunId : HasRecord(r)' <=> HasRecord(r) \/ r = pipe.run

(* ... or takes it, having been granted it.                                 *)
TakesIt ==
  /\ pipe.step \notin Holding /\ pipe'.step = "window"
  /\ \E c \in Client : Granted(c, pipe'.run) /\ calls'[c] = NoCall
  /\ RecordsStay

LEMMA OutcomeKept ==
  ASSUME AgentIInv, GrantIsExclusive, OutcomeParts, AsksItsOutcome,
         LetsGo \/ GoesOnWith \/ RecordsIt \/ TakesIt,
         pipe'.step \in Holding => pipe'.run \in RunId
  PROVE  OutcomeParts'
<1>1. pipe.step \in Holding => pipe.run \in RunId
  BY DEF AgentIInv, InHandOK, PipeOK, Holding, Working, ExistingRun
<1>2. Working \subseteq Holding /\ "completing" \in Holding /\ "completing" \notin Working
  BY DEF Holding, Working
<1>3. HoldsWhatItTook'
  <2> SUFFICES ASSUME pipe'.step \in Holding
               PROVE  /\ runs[pipe'.run].dispatched
                      /\ \A c \in Client : ~Granted(c, pipe.run)'
    BY DEF HoldsWhatItTook, AsksItsOutcome
  <2>1. CASE TakesIt
    <3>1. PICK c \in Client : Granted(c, pipe'.run) /\ calls'[c] = NoCall
      BY <2>1 DEF TakesIt
    <3>2. runs[pipe'.run].dispatched /\ \A d \in Client \ {c} : ~Granted(d, pipe'.run)
      BY <3>1 DEF GrantIsExclusive
    <3>3. ~Granted(c, pipe.run)'
      BY <3>1, NoCallFields DEF Granted
    <3> QED
      BY <3>2, <3>3 DEF AsksItsOutcome
  <2>2. CASE ~TakesIt
    <3>1. pipe.step \in Holding /\ pipe'.run = pipe.run
      BY <1>2, <2>2 DEF LetsGo, GoesOnWith, RecordsIt, Working
    <3> QED
      BY <3>1 DEF OutcomeParts, HoldsWhatItTook, AsksItsOutcome
  <2> QED
    BY <2>1, <2>2
<1>4. UntoldUntilDone'
  <2> SUFFICES ASSUME NEW r \in RunId,
                      \/ ~runs[r].dispatched
                      \/ \E c \in Client : Granted(c, r)'
                      \/ pipe'.step \in Working /\ pipe'.run = r
               PROVE  Untold(r)'
    BY DEF UntoldUntilDone, AsksItsOutcome
  <2>1. Untold(r)
    <3>1. CASE TakesIt /\ pipe'.step \in Working /\ pipe'.run = r
      BY <3>1 DEF TakesIt, OutcomeParts, UntoldUntilDone
    <3>2. CASE ~TakesIt /\ pipe'.step \in Working /\ pipe'.run = r
      BY <1>2, <3>2 DEF LetsGo, GoesOnWith, RecordsIt, OutcomeParts, UntoldUntilDone
    <3>3. CASE ~runs[r].dispatched \/ \E c \in Client : Granted(c, r)'
      BY <3>3 DEF AsksItsOutcome, OutcomeParts, UntoldUntilDone
    <3> QED
      BY <3>1, <3>2, <3>3
  <2>2. ~(pipe.step \in {"completing", "recording"} /\ pipe.run = r /\ pipe'.step \notin Working)
        /\ ~(pipe.step = "completing" /\ pipe.run = r)
    <3>1. CASE pipe'.step \in Working /\ pipe'.run = r
      BY <1>2, <3>1 DEF LetsGo, GoesOnWith, RecordsIt, TakesIt
    <3>2. CASE ~runs[r].dispatched \/ \E c \in Client : Granted(c, r)'
      BY <3>2 DEF AsksItsOutcome, OutcomeParts, HoldsWhatItTook, Holding, Working
    <3> QED
      BY <3>1, <3>2
  <2>3. HasRecord(r)' <=> HasRecord(r)
    BY <2>2 DEF LetsGo, GoesOnWith, RecordsIt, TakesIt, RecordsStay, Working
  <2> QED
    BY <2>1, <2>2, <2>3 DEF Untold, AsksItsOutcome
<1>5. ASSUME NEW r \in RunId
      PROVE  /\ Asked(r, "SUCCESS")' => HasRecord(r)'
             /\ Asked(r, "FAILED")' => ~HasRecord(r)'
  <2>1. CASE RecordsIt
    <3>1. pipe.step \in Working /\ pipe.step # "completing"
      BY <2>1 DEF RecordsIt, Working
    <3>2. r = pipe.run => Untold(r)
      BY <3>1 DEF OutcomeParts, UntoldUntilDone
    <3> QED
      BY <2>1, <3>1, <3>2 DEF RecordsIt, AsksItsOutcome, OutcomeParts, AskedMatchesRecord, Untold
  <2>2. CASE ~RecordsIt
    <3>1. HasRecord(r)' <=> HasRecord(r)
      BY <2>2 DEF LetsGo, GoesOnWith, TakesIt, RecordsStay
    <3> QED
      BY <3>1 DEF AsksItsOutcome, OutcomeParts, AskedMatchesRecord
  <2> QED
    BY <2>1, <2>2
<1>6. ASSUME pipe'.step = "completing"
      PROVE  pipe'.outcome = "SUCCESS" <=> HasRecord(pipe.run)'
  <2>1. CASE RecordsIt
    BY <1>1, <1>2, <2>1 DEF RecordsIt, Holding, Working
  <2>2. CASE ~RecordsIt
    <3>1. GoesOnWith /\ pipe.run \in RunId /\ pipe'.run = pipe.run
      BY <1>1, <1>2, <1>6, <2>2 DEF LetsGo, GoesOnWith, TakesIt
    <3>2. HasRecord(pipe.run)' <=> HasRecord(pipe.run)
      BY <3>1 DEF GoesOnWith, RecordsStay
    <3>3. CASE pipe' = pipe
      BY <1>6, <3>2, <3>3 DEF OutcomeParts, AskedMatchesRecord
    <3>4. CASE pipe.step \in Working /\ pipe'.outcome # "SUCCESS"
      BY <3>1, <3>2, <3>4 DEF OutcomeParts, UntoldUntilDone, Untold
    <3>5. CASE pipe.step = "completing" /\ pipe.outcome # "SUCCESS" /\ pipe'.outcome # "SUCCESS"
      BY <3>2, <3>5 DEF OutcomeParts, AskedMatchesRecord
    <3> QED
      BY <1>6, <3>1, <3>3, <3>4, <3>5 DEF GoesOnWith, Holding
  <2> QED
    BY <2>1, <2>2
<1>7. OutcomeMatchesRecord'
  <2> SUFFICES ASSUME NEW r \in RunId
               PROVE  /\ runs[r].status = "SUCCESS" => HasRecord(r)'
                      /\ runs[r].status = "FAILED" => ~HasRecord(r)'
    BY DEF OutcomeMatchesRecord, AsksItsOutcome, HasRecord, IsQueued, Events
  <2>1. /\ runs[r].status = "SUCCESS" => HasRecord(r)
        /\ runs[r].status = "FAILED" => ~HasRecord(r)
    BY DEF OutcomeParts, OutcomeMatchesRecord, HasRecord, IsQueued, Events
  <2>2. CASE RecordsIt
    <3>1. r = pipe.run => Untold(r)
      BY <2>2 DEF RecordsIt, Working, OutcomeParts, UntoldUntilDone
    <3> QED
      BY <2>1, <2>2, <3>1 DEF RecordsIt, Untold
  <2>3. CASE ~RecordsIt
    BY <2>1, <2>3 DEF LetsGo, GoesOnWith, TakesIt, RecordsStay
  <2> QED
    BY <2>2, <2>3
<1> QED
  BY <1>3, <1>4, <1>5, <1>6, <1>7 DEF OutcomeParts, AskedMatchesRecord

(* No request is added to those under way and in the queue.                 *)
LEMMA AsksNothing ==
  ASSUME AnswersAreTrue, runs' = runs, CallsCome, CompletesStay,
         \A event \in Events' : event.op = "complete" => event \in Events
  PROVE  AsksItsOutcome
<1>1. \A c \in Client, r \in RunId : Granted(c, r)' => Granted(c, r)
  BY AnswersKept
<1>2. \A r \in RunId, status \in {"SUCCESS", "FAILED"} : Asked(r, status)' => Asked(r, status)
  BY DEF Asked, CompletesStay
<1> QED
  BY <1>1, <1>2 DEF AsksItsOutcome

LEMMA RecordsSame ==
  ASSUME reported' = reported,
         \A event \in Events \cup Events' :
           event.op = "record" => (event \in Events' <=> event \in Events)
  PROVE  RecordsStay
BY DEF RecordsStay, HasRecord

StartSteps == {"config", "transfer", "recording"}

LEMMA StartKept ==
  ASSUME StartIsKnown, runs' = runs,
         pipe'.step \in StartSteps => pipe.step \in StartSteps /\ pipe'.run = pipe.run,
         \A event \in Events : event.op = "patch" /\ event.arg = "RUNNING" =>
           event \in Events' \/ runs[event.run].status # "PENDING"
  PROVE  StartIsKnown'
<1> SUFFICES ASSUME pipe'.step \in StartSteps, runs[pipe'.run].status = "PENDING"
             PROVE  Queued("patch", pipe'.run, "RUNNING") \in Events'
  BY DEF StartIsKnown, StartSteps, Events, Queued
<1> DEFINE event == Queued("patch", pipe.run, "RUNNING")
<1>1. event \in Events
  BY DEF StartIsKnown, StartSteps, Events
<1>2. event.op = "patch" /\ event.arg = "RUNNING" /\ event.run = pipe.run
  BY DEF Queued
<1> HIDE DEF event
<1>3. event \in Events'
  BY <1>1, <1>2
<1> QED
  BY <1>3 DEF event

----
(* The agent's steps, each of which leaves the runs alone.                  *)

Before == AgentIInv /\ GrantIsExclusive /\ OutcomeIInv

LEMMA BeforeFacts ==
  ASSUME Before
  PROVE  /\ TypeOK /\ GrantIsExclusive /\ PipeOK /\ QueueOK /\ ConnOK /\ AnswersAreTrue
         /\ Listening /\ PipeListens /\ ReplayListens /\ OutcomeParts /\ StartIsKnown
         /\ pipe.step \in Step /\ pipe.outcome \in Outcome \cup {"none"}
         /\ pipe = [step |-> pipe.step, run |-> pipe.run, outcome |-> pipe.outcome]
BY DEF Before, AgentIInv, InHandOK, OutcomeIInv, OutcomeParts, PipeOK, Pipe

LEMMA StepKeeps ==
  ASSUME Before, AgentIInv', CallsCome, AsksItsOutcome,
         LetsGo \/ GoesOnWith \/ RecordsIt \/ TakesIt,
         Listening', PipeListens', ReplayListens', StartIsKnown'
  PROVE  OutcomeIInv'
<1>1. pipe'.step \in Holding => pipe'.run \in RunId
  BY DEF AgentIInv, InHandOK, PipeOK, Holding, Working, ExistingRun
<1>2. OutcomeParts'
  BY <1>1, BeforeFacts, OutcomeKept DEF Before
<1>3. AnswersAreTrue'
  BY BeforeFacts, AnswersKept DEF AsksItsOutcome
<1> QED
  BY <1>2, <1>3 DEF OutcomeIInv, OutcomeParts

(* The connections, the queue and the records stay as they are.             *)
LEMMA QuietKeeps ==
  ASSUME Before, AgentIInv', UNCHANGED <<runs, calls, conn, queue, reported>>,
         \/ pipe' = pipe
         \/ /\ pipe.step \notin Calling
            /\ \/ pipe'.step \notin Holding
               \/ /\ pipe.step \in Working /\ pipe'.step \in Holding /\ pipe'.run = pipe.run
                  /\ pipe'.step = "completing" => pipe'.outcome # "SUCCESS"
            /\ pipe'.step \in StartSteps => pipe.step \in StartSteps /\ pipe'.run = pipe.run
  PROVE  OutcomeIInv'
<1>1. Listening' /\ Kept("pipe") /\ Kept("replay") /\ CallsCome /\ CompletesStay
  BY BeforeFacts, QuietConn DEF Task
<1>2. PipeListens' /\ ReplayListens'
  BY <1>1, BeforeFacts, NotCalling, ListensOn
<1>3. Events' = Events
  BY EventsStay
<1>4. AsksItsOutcome
  BY <1>1, <1>3, BeforeFacts, AsksNothing
<1>5. RecordsStay
  BY <1>3, RecordsSame
<1>6. LetsGo \/ GoesOnWith
  BY <1>5 DEF LetsGo, GoesOnWith, Holding, Working
<1>7. StartIsKnown'
  BY <1>3, BeforeFacts, StartKept
<1> QED
  BY <1>1, <1>2, <1>4, <1>6, <1>7, StepKeeps

LEMMA RecordKeeps ==
  ASSUME Before, AgentIInv', RecordSaved \/ RecordQueued
  PROVE  OutcomeIInv'
<1>1. /\ UNCHANGED <<runs, calls, conn>> /\ pipe.step = "recording"
      /\ pipe' = [pipe EXCEPT !.step = "completing", !.outcome = "SUCCESS"]
  BY DEF RecordSaved, RecordQueued, Conclude, vars
<1>2. Listening' /\ Kept("pipe") /\ Kept("replay") /\ CallsCome /\ CompletesStay
  BY <1>1, BeforeFacts, QuietConn DEF Task
<1>3. conn'["pipe"] = NoClient
  BY <1>1, BeforeFacts, NotCalling DEF Calling
<1>4. pipe'.step = "completing" /\ pipe'.run = pipe.run /\ pipe'.outcome = "SUCCESS"
  BY <1>1, BeforeFacts
<1> DEFINE record == Queued("record", pipe.run, "none")
<1>5. /\ Events \subseteq Events' /\ Events' \subseteq Events \cup {record}
      /\ queue # <<>> => Head(queue') = Head(queue)
      /\ reported \subseteq reported' /\ reported' \subseteq reported \cup {pipe.run}
      /\ pipe.run \in reported' \/ record \in Events'
  <2>1. CASE RecordSaved
    BY <2>1, EventsStay DEF RecordSaved
  <2>2. CASE RecordQueued
    <3>1. Enqueue(record) /\ reported' \in {reported, reported \cup {pipe.run}}
      BY <2>2 DEF RecordQueued, KeepRecord
    <3> QED
      BY <3>1, BeforeFacts, EventsGrow
  <2> QED
    BY <2>1, <2>2
<1>6. record.op = "record" /\ record.run = pipe.run
  BY DEF Queued
<1> HIDE DEF record
<1>7. conn'["replay"] # NoClient => Head(queue') = Head(queue)
  BY <1>1, <1>5, BeforeFacts DEF ConnOK
<1>8. PipeListens' /\ ReplayListens'
  BY <1>2, <1>3, <1>7, BeforeFacts, ListensOn
<1>9. AsksItsOutcome
  BY <1>1, <1>2, <1>5, <1>6, BeforeFacts, AsksNothing
<1>10. RecordsIt
  <2>1. ASSUME NEW r \in RunId PROVE HasRecord(r)' <=> HasRecord(r) \/ r = pipe.run
    BY <1>5, <1>6 DEF HasRecord
  <2> QED
    BY <1>1, <1>4, <2>1 DEF RecordsIt
<1>11. StartIsKnown'
  BY <1>1, <1>4, <1>5, BeforeFacts, StartKept DEF StartSteps
<1> QED
  BY <1>2, <1>8, <1>9, <1>10, <1>11, StepKeeps

(* A task sends a request.                                                  *)
LEMMA AttemptKeeps ==
  ASSUME Before, AgentIInv', UNCHANGED <<runs, pipe, queue, reported>>,
         NEW t \in Task, NEW op, NEW j, NEW r, NEW arg, Attempt(t, Request(op, j, r, arg)),
         op = "complete" =>
           \/ pipe.step = "completing" /\ pipe.run = r /\ pipe.outcome = arg
           \/ Asked(r, arg),
         t = "pipe" =>
           /\ pipe.step \in Calling
           /\ pipe.step = "creating" => op = "create" /\ arg # "manual"
           /\ pipe.step = "claiming" => op = "claim" /\ r = pipe.run
           /\ pipe.step = "starting" => op = "patch" /\ r = pipe.run /\ arg = "RUNNING"
           /\ pipe.step = "completing" =>
                op = "complete" /\ r = pipe.run /\ arg = pipe.outcome,
         t = "replay" =>
           op = Head(queue).op /\ r = Head(queue).run /\ arg = Head(queue).arg
  PROVE  OutcomeIInv'
<1> DEFINE request == Request(op, j, r, arg)
<1>1. /\ request.phase = "sent" /\ request.op = op /\ request.run = r /\ request.arg = arg
      /\ request.reply = "none"
  BY RequestFields
<1>2. /\ Listening' /\ (\A u \in Task \ {t} : Kept(u)) /\ CallsCome
      /\ calls'[conn'[t]] = request
      /\ \A c \in Client : calls'[c] \in {calls[c], request}
  BY BeforeFacts, AttemptConn
<1> HIDE DEF request
<1>3. PipeListens'
  <2>1. CASE t = "pipe"
    BY <1>1, <1>2, <2>1 DEF PipeListens, Heard
  <2>2. CASE t # "pipe"
    <3>1. Kept("pipe")
      BY <1>2, <2>2 DEF Task
    <3> QED
      BY <3>1, BeforeFacts DEF PipeListens, Kept, Heard
  <2> QED
    BY <2>1, <2>2
<1>4. ReplayListens'
  <2>1. CASE t = "replay"
    BY <1>1, <1>2, <2>1 DEF ReplayListens, Heard
  <2>2. CASE t # "replay"
    <3>1. Kept("replay")
      BY <1>2, <2>2 DEF Task
    <3> QED
      BY <3>1, BeforeFacts DEF ReplayListens, Kept, Heard
  <2> QED
    BY <2>1, <2>2
<1>5. Events' = Events
  BY EventsStay
<1>6. AsksItsOutcome
  <2>1. \A c \in Client, q \in RunId : Granted(c, q)' => Granted(c, q)
    BY <1>2, BeforeFacts, AnswersKept
  <2>2. ASSUME NEW q \in RunId, NEW status \in {"SUCCESS", "FAILED"}, Asked(q, status)'
        PROVE  \/ Asked(q, status)
               \/ pipe.step = "completing" /\ pipe.run = q /\ pipe.outcome = status
    <3>1. CASE \E event \in Events :
                 event.op = "complete" /\ event.run = q /\ event.arg = status
      BY <3>1 DEF Asked
    <3>2. CASE \E c \in Client :
                 calls'[c].op = "complete" /\ calls'[c].run = q /\ calls'[c].arg = status
      <4>1. PICK c \in Client :
              calls'[c].op = "complete" /\ calls'[c].run = q /\ calls'[c].arg = status
        BY <3>2
      <4>2. CASE calls'[c] = calls[c]
        BY <4>1, <4>2 DEF Asked
      <4>3. CASE calls'[c] = request
        <5>1. op = "complete" /\ r = q /\ arg = status
          BY <1>1, <4>1, <4>3
        <5> QED
          BY <5>1
      <4> QED
        BY <1>2, <4>2, <4>3
    <3> QED
      BY <1>5, <2>2, <3>1, <3>2 DEF Asked
  <2> QED
    BY <2>1, <2>2 DEF AsksItsOutcome
<1>7. RecordsStay
  BY <1>5, RecordsSame
<1>8. LetsGo \/ GoesOnWith
  BY <1>7 DEF LetsGo, GoesOnWith
<1>9. StartIsKnown'
  BY <1>5, BeforeFacts, StartKept
<1> QED
  BY <1>2, <1>3, <1>4, <1>6, <1>8, <1>9, StepKeeps

(* A call ends, or the queue moves on, and nothing is sent.                 *)
LEMMA EndKeeps ==
  ASSUME Before, AgentIInv', runs' = runs,
         Listening', Kept("pipe"), Kept("replay"), CallsCome, CompletesStay,
         conn'["pipe"] # NoClient => pipe' = pipe,
         conn'["replay"] # NoClient => Head(queue') = Head(queue),
         \A event \in Events' : event.op = "complete" => event \in Events,
         LetsGo \/ GoesOnWith \/ RecordsIt \/ TakesIt,
         StartIsKnown'
  PROVE  OutcomeIInv'
<1>1. PipeListens' /\ ReplayListens'
  BY BeforeFacts, ListensOn
<1>2. AsksItsOutcome
  BY BeforeFacts, AsksNothing
<1> QED
  BY <1>1, <1>2, StepKeeps

(* The pipeline hears an answer; the queue and the records stay.            *)
LEMMA PipeHearsKeeps ==
  ASSUME Before, AgentIInv', UNCHANGED <<runs, queue, reported>>,
         NEW reply, Hear("pipe", reply),
         RecordsStay => LetsGo \/ GoesOnWith \/ TakesIt,
         pipe'.step \in StartSteps => runs[pipe'.run].status # "PENDING"
  PROVE  OutcomeIInv'
<1>1. /\ Listening' /\ Kept("pipe") /\ Kept("replay") /\ CallsCome /\ CompletesStay
      /\ conn'["pipe"] = NoClient
  BY BeforeFacts, HearConn DEF Task
<1>2. Events' = Events
  BY EventsStay
<1>3. RecordsStay
  BY <1>2, RecordsSame
<1>4. StartIsKnown'
  BY DEF StartIsKnown, StartSteps
<1> QED
  BY <1>1, <1>2, <1>3, <1>4, EndKeeps

LEMMA TakesRunKeeps ==
  ASSUME Before, AgentIInv', TakesRun
  PROVE  OutcomeIInv'
<1> DEFINE c == conn["pipe"]
<1>1. /\ c \in Client /\ calls[c].phase = "replied" /\ calls[c].reply = "ok"
      /\ calls' = [calls EXCEPT ![c] = NoCall]
  BY BeforeFacts, HearConn DEF TakesRun, Heard, Task
<1>2. pipe'.step = "window" /\ pipe'.run = calls[c].run
      /\ pipe.step \in {"creating", "claiming"}
  BY BeforeFacts DEF TakesRun, Heard
<1>3. Granted(c, pipe'.run)
  BY <1>1, <1>2, BeforeFacts DEF Granted, PipeListens, TakesRun, Hear, Heard
<1>4. calls'[c] = NoCall
  BY <1>1, BeforeFacts DEF TypeOK
<1>5. RecordsStay => TakesIt
  BY <1>1, <1>2, <1>3, <1>4 DEF TakesIt, Holding, Working
<1>6. UNCHANGED <<runs, queue, reported>> /\ Hear("pipe", "ok")
  BY DEF TakesRun, backendVars, rowVars
<1>7. pipe'.step \notin StartSteps
  BY <1>2 DEF StartSteps
<1> QED
  BY <1>5, <1>6, <1>7, PipeHearsKeeps

(* The patch that starts the run was answered: the run is not PENDING.       *)
LEMMA StartedKeeps ==
  ASSUME Before, AgentIInv', Started
  PROVE  OutcomeIInv'
<1>1. /\ conn["pipe"] \in Client /\ conn["pipe"] # NoClient
      /\ Heard("pipe").reply = "ok"
      /\ UNCHANGED <<runs, queue, reported>> /\ Hear("pipe", "ok")
  BY BeforeFacts, HearConn DEF Started, Task, backendVars, rowVars, Hear
<1>2. pipe.step = "starting" /\ pipe'.step = "config" /\ pipe'.run = pipe.run
  BY BeforeFacts DEF Started, Goto
<1>3. LeftPending(Heard("pipe")) /\ Heard("pipe").run = pipe.run
  BY <1>1, <1>2, BeforeFacts DEF PipeListens, LeftPending
<1>4. runs[pipe.run].status # "PENDING"
  BY <1>1, <1>3, BeforeFacts DEF AnswersAreTrue, Heard
<1>5. RecordsStay => GoesOnWith
  BY <1>2 DEF GoesOnWith, Holding, Working
<1> QED
  BY <1>1, <1>2, <1>4, <1>5, PipeHearsKeeps

(* A refused completion is one of TIMEOUT: there is no record.              *)
LEMMA CompletionRefusedKeeps ==
  ASSUME Before, AgentIInv', CompletionRefused
  PROVE  OutcomeIInv'
<1>1. /\ conn["pipe"] \in Client /\ conn["pipe"] # NoClient
      /\ Heard("pipe").reply = "invalid"
      /\ UNCHANGED <<runs, queue, reported>> /\ Hear("pipe", "invalid")
  BY BeforeFacts, HearConn DEF CompletionRefused, Task, backendVars, rowVars, Hear
<1>2. /\ pipe.step = "completing" /\ pipe'.step = "completing" /\ pipe'.run = pipe.run
      /\ pipe'.outcome = "FAILED"
  BY BeforeFacts DEF CompletionRefused, Conclude
<1>3. pipe.outcome # "SUCCESS"
  BY <1>1, <1>2, BeforeFacts DEF PipeListens, AnswersAreTrue, Heard, CompleteStatus
<1>4. RecordsStay => GoesOnWith
  BY <1>2, <1>3 DEF GoesOnWith, Holding, Working
<1>5. pipe'.step \notin StartSteps
  BY <1>2 DEF StartSteps
<1> QED
  BY <1>1, <1>4, <1>5, PipeHearsKeeps

LEMMA IdleFields == Idle.step = "idle" /\ Idle.step \notin Holding \cup StartSteps
BY DEF Idle, Holding, Working, StartSteps

(* The pipeline hears that it is over.                                      *)
LEMMA HearsTheEndKeeps ==
  ASSUME Before, AgentIInv', SkipsFire \/ StartRefused \/ Completed, NEW reply, Hear("pipe", reply)
  PROVE  OutcomeIInv'
<1>1. UNCHANGED <<runs, queue, reported>> /\ pipe' = Idle
  BY DEF SkipsFire, StartRefused, Completed, backendVars, rowVars
<1>2. RecordsStay => LetsGo
  BY <1>1, IdleFields DEF LetsGo
<1> QED
  BY <1>1, <1>2, IdleFields, PipeHearsKeeps

(* The pipeline queues what it could not send, or skips the fire.           *)
LEMMA GivesUpKeeps ==
  ASSUME Before, AgentIInv', GivesUp("pipe"), SkipsFire \/ StartQueued \/ CompletionQueued
  PROVE  OutcomeIInv'
<1>1. UNCHANGED <<runs, calls, conn, reported>> /\ conn["pipe"] = NoClient
  BY DEF GivesUp, SkipsFire, StartQueued, CompletionQueued, backendVars, rowVars
<1>2. Listening' /\ Kept("pipe") /\ Kept("replay") /\ CallsCome /\ CompletesStay
  BY <1>1, BeforeFacts, QuietConn DEF Task
<1>3. CASE SkipsFire
  <2>1. pipe' = Idle /\ queue' = queue /\ Events' = Events
    BY <1>3, EventsStay DEF SkipsFire
  <2>2. LetsGo
    BY <1>1, <2>1, IdleFields, RecordsSame DEF LetsGo
  <2>3. StartIsKnown'
    BY <2>1, IdleFields DEF StartIsKnown, StartSteps
  <2> QED
    BY <1>1, <1>2, <2>1, <2>2, <2>3, EndKeeps
<1>4. CASE StartQueued
  <2> DEFINE start == Queued("patch", pipe.run, "RUNNING")
  <2>1. /\ Enqueue(start) /\ pipe.step = "starting" /\ pipe'.step = "config"
        /\ pipe'.run = pipe.run
    BY <1>4, BeforeFacts DEF StartQueued, KeepStart, Goto
  <2>2. Events' = Events \cup {start} /\ (queue # <<>> => Head(queue') = Head(queue))
    BY <2>1, BeforeFacts, EventsGrow
  <2>3. StartIsKnown'
    BY <2>1, <2>2 DEF StartIsKnown, Events
  <2>4. start.op = "patch"
    BY DEF Queued
  <2> HIDE DEF start
  <2>5. RecordsStay
    BY <1>1, <2>2, <2>4, RecordsSame
  <2>6. GoesOnWith
    BY <2>1, <2>5 DEF GoesOnWith, Holding, Working
  <2>7. conn'["replay"] # NoClient => Head(queue') = Head(queue)
    BY <1>1, <2>2, BeforeFacts DEF ConnOK
  <2> QED
    BY <1>1, <1>2, <2>2, <2>3, <2>4, <2>6, <2>7, EndKeeps
<1>5. CASE CompletionQueued
  <2> DEFINE end == Queued("complete", pipe.run, pipe.outcome)
  <2>1. Enqueue(end) /\ pipe.step = "completing" /\ pipe' = Idle
    BY <1>5 DEF CompletionQueued
  <2>2. Events' = Events \cup {end} /\ (queue # <<>> => Head(queue') = Head(queue))
    BY <2>1, BeforeFacts, EventsGrow
  <2>3. end.op = "complete" /\ end.run = pipe.run /\ end.arg = pipe.outcome
    BY DEF Queued
  <2> HIDE DEF end
  <2>4. RecordsStay
    BY <1>1, <2>2, <2>3, RecordsSame
  <2>5. AsksItsOutcome
    <3>1. \A c \in Client, r \in RunId : Granted(c, r)' => Granted(c, r)
      BY <1>1, <1>2, BeforeFacts, AnswersKept
    <3>2. \A r \in RunId, status \in {"SUCCESS", "FAILED"} : Asked(r, status)' =>
            Asked(r, status) \/ (pipe.run = r /\ pipe.outcome = status)
      BY <1>1, <2>2, <2>3 DEF Asked
    <3> QED
      BY <1>1, <2>1, <3>1, <3>2 DEF AsksItsOutcome
  <2>6. LetsGo
    BY <2>1, <2>4, IdleFields DEF LetsGo
  <2>7. conn'["replay"] # NoClient => Head(queue') = Head(queue)
    BY <1>1, <2>2, BeforeFacts DEF ConnOK
  <2>8. PipeListens' /\ ReplayListens'
    BY <1>1, <1>2, <2>7, BeforeFacts, ListensOn
  <2>9. StartIsKnown'
    BY <2>1, IdleFields DEF StartIsKnown, StartSteps
  <2> QED
    BY <1>2, <2>5, <2>6, <2>8, <2>9, StepKeeps
<1> QED
  BY <1>3, <1>4, <1>5

LEMMA PipelineKeepsOutcome ==
  ASSUME Before, AgentIInv', Pipeline
  PROVE  OutcomeIInv'
<1>1. CASE PipeAttempt
  <2>1. UNCHANGED <<runs, pipe, queue, reported>>
    BY <1>1 DEF PipeAttempt, backendVars, rowVars
  <2>2. PICK op, j, r, arg :
          /\ PipeRequest = Request(op, j, r, arg)
          /\ pipe.step = "creating" => op = "create" /\ arg # "manual"
          /\ pipe.step = "claiming" => op = "claim" /\ r = pipe.run
          /\ pipe.step = "starting" => op = "patch" /\ r = pipe.run /\ arg = "RUNNING"
          /\ pipe.step = "completing" => op = "complete" /\ r = pipe.run /\ arg = pipe.outcome
          /\ op = "complete" => pipe.step = "completing"
    <3>1. CASE pipe.step = "creating"
      <4> DEFINE trigger == IF TheJob \in WatchJob THEN "watch" ELSE "scheduler"
      <4>1. PipeRequest = Request("create", TheJob, 0, trigger) /\ trigger # "manual"
        BY <3>1 DEF PipeRequest
      <4> QED
        BY <3>1, <4>1
    <3>2. CASE pipe.step = "claiming"
      <4>1. PipeRequest = Request("claim", NoJob, pipe.run, "none")
        BY <3>2 DEF PipeRequest
      <4> QED
        BY <3>2, <4>1
    <3>3. CASE pipe.step = "starting"
      <4>1. PipeRequest = Request("patch", NoJob, pipe.run, "RUNNING")
        BY <3>3 DEF PipeRequest
      <4> QED
        BY <3>3, <4>1
    <3>4. CASE pipe.step = "completing"
      <4>1. PipeRequest = Request("complete", NoJob, pipe.run, pipe.outcome)
        BY <3>4 DEF PipeRequest
      <4> QED
        BY <3>4, <4>1
    <3> QED
      BY <1>1, <3>1, <3>2, <3>3, <3>4 DEF PipeAttempt, Calling
  <2>3. pipe.step \in Calling /\ Attempt("pipe", Request(op, j, r, arg))
    BY <1>1, <2>2 DEF PipeAttempt
  <2> QED
    BY <2>1, <2>2, <2>3, AttemptKeeps DEF Task
<1>2. CASE TakesRun
  BY <1>2, TakesRunKeeps
<1>3. CASE Started
  BY <1>3, StartedKeeps
<1>4. CASE CompletionRefused
  BY <1>4, CompletionRefusedKeeps
<1>5. CASE SkipsFire
  BY <1>5, HearsTheEndKeeps, GivesUpKeeps DEF SkipsFire
<1>6. CASE StartRefused \/ Completed
  BY <1>6, HearsTheEndKeeps DEF StartRefused, Completed
<1>7. CASE StartQueued \/ CompletionQueued
  BY <1>7, GivesUpKeeps DEF StartQueued, CompletionQueued
<1>8. CASE RecordSaved \/ RecordQueued
  BY <1>8, RecordKeeps
<1>9. CASE \/ CancelledWhileWaiting \/ WindowOpens \/ GotConfig \/ CancelSeen \/ TransferEnds
           \/ RecordRefused
  <2>1. UNCHANGED <<runs, calls, conn, queue, reported>>
    BY <1>9 DEF CancelledWhileWaiting, WindowOpens, GotConfig, CancelSeen, TransferEnds,
                RecordRefused, vars
  <2>2. /\ pipe.step \in Working /\ pipe.step \notin Calling /\ pipe'.step \in Holding
        /\ pipe'.run = pipe.run
        /\ pipe'.step = "completing" => pipe'.outcome # "SUCCESS"
        /\ pipe'.step \in StartSteps => pipe.step \in StartSteps
    BY <1>9, BeforeFacts
       DEF CancelledWhileWaiting, WindowOpens, GotConfig, CancelSeen, TransferEnds, RecordRefused,
           Goto, Conclude, Working, Holding, Calling, StartSteps
  <2> QED
    BY <2>1, <2>2, QuietKeeps
<1> QED
  BY <1>1, <1>2, <1>3, <1>4, <1>5, <1>6, <1>7, <1>8, <1>9 DEF Pipeline

(* The fire and the pickup, the job poll, and what becomes of a callback.    *)
LEMMA LocalKeepsOutcome ==
  ASSUME Before, AgentIInv', Fire \/ PickUp \/ JobPoll \/ Callback \/ ProgressDropped
  PROVE  OutcomeIInv'
<1>1. UNCHANGED <<runs, calls, conn, queue, reported>>
  BY DEF Fire, PickUp, JobPoll, Callback, ProgressDropped, vars
<1>2. CASE pipe' = pipe
  BY <1>1, <1>2, QuietKeeps
<1>3. CASE Fire \/ PickUp
  <2>1. pipe.step \notin Calling /\ pipe'.step \notin Holding \cup StartSteps
    BY <1>3 DEF Fire, PickUp, Idle, Calling, Holding, Working, StartSteps
  <2> QED
    BY <1>1, <2>1, QuietKeeps
<1> QED
  BY <1>2, <1>3 DEF JobPoll, Callback, ProgressDropped

LEMMA ProgressKeepsOutcome ==
  ASSUME Before, AgentIInv', Progress
  PROVE  OutcomeIInv'
<1>1. CASE Callback \/ ProgressDropped
  BY <1>1, LocalKeepsOutcome
<1>2. CASE ProgressAttempt
  <2>1. /\ UNCHANGED <<runs, pipe, queue, reported>>
        /\ Attempt("progress", Request("patch", NoJob, progress, "progress"))
    BY <1>2 DEF ProgressAttempt, backendVars, rowVars
  <2> QED
    BY <2>1, AttemptKeeps DEF Task
<1>3. CASE ProgressHeard
  <2>1. /\ UNCHANGED <<runs, pipe, queue, reported>>
        /\ Hear("progress", "ok") \/ Hear("progress", "conflict")
    BY <1>3 DEF ProgressHeard, backendVars, rowVars
  <2>2. Listening' /\ Kept("pipe") /\ Kept("replay") /\ CallsCome /\ CompletesStay
    BY <2>1, BeforeFacts, HearConn DEF Task
  <2>3. Events' = Events
    BY <2>1, EventsStay
  <2>4. LetsGo \/ GoesOnWith
    BY <2>1, <2>3, RecordsSame DEF LetsGo, GoesOnWith
  <2>5. StartIsKnown'
    BY <2>1, <2>3, BeforeFacts, StartKept
  <2> QED
    BY <2>1, <2>2, <2>3, <2>4, <2>5, EndKeeps
<1>4. CASE ProgressQueued
  <2> DEFINE patch == Queued("patch", progress, "progress")
  <2>1. UNCHANGED <<runs, calls, conn, pipe, reported>> /\ Enqueue(patch)
    BY <1>4 DEF ProgressQueued, GivesUp, backendVars, rowVars
  <2>2. Listening' /\ Kept("pipe") /\ Kept("replay") /\ CallsCome /\ CompletesStay
    BY <2>1, BeforeFacts, QuietConn DEF Task
  <2>3. Events' = Events \cup {patch} /\ (queue # <<>> => Head(queue') = Head(queue))
    BY <2>1, BeforeFacts, EventsGrow
  <2>4. patch.op = "patch"
    BY DEF Queued
  <2> HIDE DEF patch
  <2>5. LetsGo \/ GoesOnWith
    BY <2>1, <2>3, <2>4, RecordsSame DEF LetsGo, GoesOnWith
  <2>6. StartIsKnown'
    BY <2>1, <2>3, BeforeFacts, StartKept
  <2>7. conn'["replay"] # NoClient => Head(queue') = Head(queue)
    BY <2>1, <2>3, BeforeFacts DEF ConnOK
  <2> QED
    BY <2>1, <2>2, <2>3, <2>4, <2>5, <2>6, <2>7, EndKeeps
<1> QED
  BY <1>1, <1>2, <1>3, <1>4 DEF Progress

(* The process stops: its calls go on unheard, and the queue is kept.        *)
LEMMA ForgetsKeepsOutcome ==
  ASSUME Before, AgentIInv', AgentForgets, runs' = runs, CallsCome, CompletesStay, Listening'
  PROVE  OutcomeIInv'
<1>1. /\ pipe' = Idle /\ UNCHANGED <<queue, reported>>
      /\ conn'["pipe"] = NoClient /\ conn'["replay"] = NoClient
  BY DEF AgentForgets, Task
<1>2. Events' = Events
  BY <1>1, EventsStay
<1>3. LetsGo
  BY <1>1, <1>2, IdleFields, RecordsSame DEF LetsGo
<1>4. StartIsKnown'
  BY <1>1, IdleFields DEF StartIsKnown, StartSteps
<1>5. Kept("pipe") /\ Kept("replay")
  BY <1>1 DEF Kept
<1> QED
  BY <1>1, <1>2, <1>3, <1>4, <1>5, EndKeeps

LEMMA ReplayKeepsOutcome ==
  ASSUME Before, AgentIInv', Replay
  PROVE  OutcomeIInv'
<1>1. CASE ReplayAttempt
  <2> DEFINE head == Head(queue)
  <2>1. /\ UNCHANGED <<runs, pipe, queue, reported>>
        /\ Attempt("replay", Request(head.op, NoJob, head.run, head.arg))
        /\ queue # <<>>
    BY <1>1 DEF ReplayAttempt, backendVars, rowVars
  <2>2. head \in Events
    BY <2>1, BeforeFacts DEF Events, QueueOK
  <2>3. head.op = "complete" => Asked(head.run, head.arg)
    BY <2>2 DEF Asked
  <2> QED
    BY <2>1, <2>3, AttemptKeeps DEF Task
<1>2. CASE ReplayRecord
  <2> DEFINE head == Head(queue)
  <2>1. /\ UNCHANGED <<runs, calls, conn, pipe>> /\ conn["replay"] = NoClient
        /\ reported' = reported \cup {head.run} /\ queue # <<>> /\ head.op = "record"
        /\ queue' \in {queue, Tail(queue)}
    BY <1>2, BeforeFacts DEF ReplayRecord, ConnOK, vars
  <2>2. Listening' /\ Kept("pipe") /\ Kept("replay") /\ CallsCome /\ CompletesStay
    BY <2>1, BeforeFacts, QuietConn DEF Task
  <2>3. head \in Events
    BY <2>1, BeforeFacts DEF Events, QueueOK
  <2>4. Events' \subseteq Events /\ Events \subseteq Events' \cup {head}
    <3>1. CASE queue' = queue
      BY <3>1, EventsStay
    <3>2. CASE queue' = Tail(queue)
      BY <2>1, <3>2, BeforeFacts, EventsShrink
    <3> QED
      BY <2>1, <3>1, <3>2
  <2> HIDE DEF head
  <2>5. RecordsStay
    BY <2>1, <2>3, <2>4 DEF RecordsStay, HasRecord
  <2>6. LetsGo \/ GoesOnWith
    BY <2>1, <2>5 DEF LetsGo, GoesOnWith
  <2>7. StartIsKnown'
    BY <2>1, <2>4, BeforeFacts, StartKept
  <2> QED
    BY <2>1, <2>2, <2>4, <2>6, <2>7, EndKeeps
<1>3. CASE ReplayDone
  <2> DEFINE head == Head(queue)
  <2>1. /\ UNCHANGED <<runs, pipe, reported>> /\ queue' = Tail(queue)
        /\ Hear("replay", "ok") \/ Hear("replay", "conflict")
    BY <1>3 DEF ReplayDone, backendVars, rowVars
  <2>2. /\ Listening' /\ Kept("pipe") /\ Kept("replay") /\ CallsCome /\ CompletesStay
        /\ conn'["replay"] = NoClient /\ conn["replay"] \in Client
        /\ Heard("replay").reply \in {"ok", "conflict"}
    BY <2>1, BeforeFacts, HearConn DEF Task
  <2>3. conn["replay"] # NoClient
    BY <2>1 DEF Hear
  <2>4. queue # <<>> /\ head.op # "record"
    BY <2>3, BeforeFacts DEF ConnOK
  <2>5. Events = Events' \cup {head}
    BY <2>1, <2>4, BeforeFacts, EventsShrink
  <2>6. head.op = "patch" /\ head.arg = "RUNNING" => runs[head.run].status # "PENDING"
    BY <2>2, <2>3, BeforeFacts DEF ReplayListens, AnswersAreTrue, LeftPending, Heard
  <2> HIDE DEF head
  <2>7. LetsGo \/ GoesOnWith
    BY <2>1, <2>4, <2>5, RecordsSame DEF LetsGo, GoesOnWith
  <2>8. StartIsKnown'
    BY <2>1, <2>5, <2>6, BeforeFacts, StartKept
  <2> QED
    BY <2>1, <2>2, <2>5, <2>7, <2>8, EndKeeps
<1>4. CASE ReplayRefused
  <2>1. /\ runs' = runs /\ AgentForgets /\ conn["replay"] \in Client
        /\ calls' = [calls EXCEPT ![conn["replay"]] = NoCall]
        /\ conn' = [t \in Task |-> NoClient]
    BY <1>4, BeforeFacts
       DEF ReplayRefused, AgentForgets, ReceiveReply, ConnOK, Task, backendVars, rowVars
  <2>2. /\ conn' \in [Task -> Client \cup {NoClient}]
        /\ \A t \in Task : conn'[t] \in {conn[t], NoClient} /\ conn'[t] # conn["replay"]
    BY <2>1, AgentAssumption
  <2>3. Listening' /\ CallsCome /\ CompletesStay
    BY <2>1, <2>2, BeforeFacts, EndConn
  <2> QED
    BY <2>1, <2>3, ForgetsKeepsOutcome
<1> QED
  BY <1>1, <1>2, <1>3, <1>4 DEF Replay

(* A restart, a call that nobody listens to any more, and the operator.      *)
LEMMA UnheardKeepsOutcome ==
  ASSUME Before, AgentIInv',
         \/ AgentRestarts \/ Operator
         \/ \E t \in Task : AttemptLost(t)
         \/ \E c \in Client : Unheard(c)
  PROVE  OutcomeIInv'
<1>1. CASE AgentRestarts
  <2>1. /\ UNCHANGED <<runs, calls>> /\ AgentForgets
        /\ conn' = [t \in Task |-> NoClient]
    BY <1>1 DEF AgentRestarts, AgentForgets, vars
  <2>2. Listening' /\ CallsCome /\ CompletesStay
    BY <2>1 DEF Listening, CallsCome, CompletesStay
  <2> QED
    BY <2>1, <2>2, ForgetsKeepsOutcome
<1>2. ASSUME UNCHANGED <<runs, pipe, queue, reported>>,
             Listening', Kept("pipe"), Kept("replay"), CallsCome, CompletesStay
      PROVE  OutcomeIInv'
  <2>1. Events' = Events
    BY <1>2, EventsStay
  <2>2. LetsGo \/ GoesOnWith
    BY <1>2, <2>1, RecordsSame DEF LetsGo, GoesOnWith
  <2>3. StartIsKnown'
    BY <1>2, <2>1, BeforeFacts, StartKept
  <2> QED
    BY <1>2, <2>1, <2>2, <2>3, EndKeeps
<1>3. ASSUME NEW t \in Task, AttemptLost(t)
      PROVE  OutcomeIInv'
  <2>1. /\ UNCHANGED <<runs, calls, pipe, queue, reported>>
        /\ conn' = [conn EXCEPT ![t] = NoClient]
        /\ conn \in [Task -> Client \cup {NoClient}]
    BY <1>3, BeforeFacts DEF AttemptLost, vars, ConnOK
  <2>2. /\ \A u \in Task : conn'[u] \in {conn[u], NoClient}
        /\ CallsCome /\ CompletesStay
    BY <2>1 DEF CallsCome, CompletesStay
  <2>3. Listening' /\ Kept("pipe") /\ Kept("replay")
    BY <2>1, <2>2, BeforeFacts DEF Listening, Kept, Task
  <2> QED
    BY <1>2, <2>1, <2>2, <2>3
<1>4. ASSUME NEW c \in Client, Unheard(c)
      PROVE  OutcomeIInv'
  <2>1. /\ UNCHANGED <<runs, conn, pipe, queue, reported>>
        /\ calls' = [calls EXCEPT ![c] = NoCall]
        /\ \A t \in Task : conn'[t] \in {conn[t], NoClient} /\ conn'[t] # c
        /\ conn' \in [Task -> Client \cup {NoClient}]
    BY <1>4, BeforeFacts DEF Unheard, Disconnect, ConnOK, backendVars, rowVars
  <2>2. Listening' /\ Kept("pipe") /\ Kept("replay") /\ CallsCome /\ CompletesStay
    BY <2>1, BeforeFacts, EndConn DEF Task
  <2> QED
    BY <1>2, <2>1, <2>2
<1>5. CASE Operator
  <2>1. PICK request \in {Request("create", TheJob, 0, "manual")}
                          \cup {Request("cancel", NoJob, r, "none") : r \in ExistingRun},
             c \in Client : Send(c, request)
    BY <1>5 DEF Operator
  <2>2. request.phase = "sent" /\ request.reply = "none" /\ request.op # "complete"
    BY <2>1, RequestFields
  <2>3. UNCHANGED <<runs, conn, pipe, queue, reported>>
    BY <1>5 DEF Operator, backendVars, rowVars
  <2>4. /\ calls[c].phase = "idle" /\ calls'[c] = request
        /\ \A d \in Client \ {c} : calls'[d] = calls[d]
    BY <2>1, BeforeFacts DEF Send, TypeOK
  <2>5. \A t \in Task : conn[t] # NoClient => conn[t] \in Client \ {c}
    BY <2>4, BeforeFacts DEF Listening, ConnOK
  <2>6. Listening' /\ Kept("pipe") /\ Kept("replay") /\ CallsCome /\ CompletesStay
    BY <2>2, <2>3, <2>4, <2>5, BeforeFacts
       DEF Listening, Kept, CallsCome, CompletesStay, Task
  <2> QED
    BY <1>2, <2>3, <2>6
<1> QED
  BY <1>1, <1>3, <1>4, <1>5

----
LEMMA OutcomeIInvInit == AgentInit => GrantIsExclusive /\ OutcomeIInv
<1> SUFFICES ASSUME AgentInit PROVE GrantIsExclusive /\ OutcomeIInv
  OBVIOUS
<1>1. /\ \A c \in Client : calls[c] = NoCall
      /\ \A r \in RunId : runs[r] = NoRow
      /\ \A t \in Task : conn[t] = NoClient
      /\ queue = <<>> /\ pipe.step = "idle" /\ reported = {}
  BY DEF AgentInit, Init, Idle
<1>2. Events = {}
  BY <1>1 DEF Events
<1>3. \A c \in Client, r \in RunId : ~Granted(c, r)
  BY <1>1 DEF Granted, NoCall
<1>4. \A r \in RunId : runs[r].status = "ABSENT" /\ ~HasRecord(r)
  BY <1>1, <1>2 DEF HasRecord, NoRow
<1>5. \A r \in RunId, status \in {"SUCCESS", "FAILED"} : ~Asked(r, status)
  BY <1>1, <1>2, NoCallFields DEF Asked
<1>6. Listening /\ PipeListens /\ ReplayListens
  BY <1>1 DEF Listening, PipeListens, ReplayListens, Task
<1>7. AnswersAreTrue
  BY <1>1, NoCallFields DEF AnswersAreTrue, LeftPending
<1>8. HoldsWhatItTook /\ UntoldUntilDone /\ AskedMatchesRecord
  BY <1>1, <1>4, <1>5
     DEF HoldsWhatItTook, UntoldUntilDone, AskedMatchesRecord, Untold, Holding, Working
<1>9. OutcomeMatchesRecord /\ StartIsKnown
  BY <1>1, <1>4 DEF OutcomeMatchesRecord, StartIsKnown
<1> QED
  BY <1>3, <1>6, <1>7, <1>8, <1>9 DEF GrantIsExclusive, OutcomeIInv

LEMMA BeforeStep == Before /\ [AgentNext]_agentVars => Before'
<1> SUFFICES ASSUME Before, [AgentNext]_agentVars PROVE Before'
  OBVIOUS
<1>1. AgentIInv /\ AgentIInv' /\ TypeOK /\ TypeOK'
  BY AgentIInvStep DEF Before, AgentIInv
<1>2. [Next]_vars
  BY <1>1, AgentStepIsStep
<1>3. GrantIsExclusive'
  BY <1>1, <1>2, BeforeFacts, GrantStep
<1>4. OutcomeIInv'
  <2>1. CASE Fire \/ PickUp \/ JobPoll
    BY <1>1, <2>1, LocalKeepsOutcome
  <2>2. CASE Pipeline
    BY <1>1, <2>2, PipelineKeepsOutcome
  <2>3. CASE Progress
    BY <1>1, <2>3, ProgressKeepsOutcome
  <2>4. CASE Replay
    BY <1>1, <2>4, ReplayKeepsOutcome
  <2>5. CASE AgentRestarts \/ Operator \/ (\E t \in Task : AttemptLost(t))
             \/ \E c \in Client : Unheard(c)
    BY <1>1, <2>5, UnheardKeepsOutcome
  <2>6. CASE Backend
    BY <1>1, <2>6, BackendKeepsOutcome DEF Before
  <2>7. CASE UNCHANGED agentVars
    <3>1. UNCHANGED <<runs, calls, conn, queue, reported, pipe>>
      BY <2>7 DEF agentVars, vars
    <3> QED
      BY <1>1, <3>1, QuietKeeps
  <2> QED
    BY <2>1, <2>2, <2>3, <2>4, <2>5, <2>6, <2>7 DEF AgentNext
<1> QED
  BY <1>1, <1>3, <1>4 DEF Before

LEMMA OutcomeInvariant == AgentSpec => []Before
<1>1. AgentInit => Before
  BY AgentIInvInit, OutcomeIInvInit DEF Before
<1> QED
  BY <1>1, BeforeStep, PTL DEF AgentSpec

----
(* With any number of runs, connections and queued events, and whatever is    *)
(* lost, late, repeated or restarted: while BackupRunPipeline.cs transfers a  *)
(* run that the backend still shows as PENDING, the patch that starts it is   *)
(* in the offline queue, so the backend will hear of the transfer.            *)
THEOREM StartKnown == AgentSpec => []StartIsKnown
<1>1. Before => StartIsKnown
  BY DEF Before, OutcomeIInv
<1> QED
  BY <1>1, OutcomeInvariant, PTL

(* Whatever is lost, late, repeated or restarted between the record's request *)
(* and the completion's (BackupRunPipeline.cs), a run that the backend shows  *)
(* as SUCCESS has its backup record stored or still queued, and one that it   *)
(* shows as FAILED has none.                                                 *)
THEOREM OutcomeRecorded == AgentSpec => []OutcomeMatchesRecord
<1>1. Before => OutcomeMatchesRecord
  BY DEF Before, OutcomeIInv
<1> QED
  BY <1>1, OutcomeInvariant, PTL

----
(* The pipeline takes a run that is handed over to it, and no later answer    *)
(* hands it over again: the run BackupRunPipeline.cs works on is nobody       *)
(* else's.                                                                  *)
THEOREM Alone == AgentSpec => []WorksAlone
<1>1. Before => WorksAlone
  BY BeforeFacts DEF Before, OutcomeIInv, HoldsWhatItTook, WorksAlone, Holding, Working, Step,
                     Calling
<1> QED
  BY <1>1, OutcomeInvariant, PTL

(* The dispatch watchdog never gives up a run that the agent works on:        *)
(* check_stuck_pending_dispatch and the claim exclude each other up to the   *)
(* end of the pipeline, lost answers and restarts included.                  *)
THEOREM WorkedOnIsNotStuck ==
  AgentSpec => [](pipe.step \notin {"idle", "creating", "claiming"}
                    => runs[pipe.run].status # "STUCK")
<1>1. AgentTypeOK /\ WorksAlone /\ StuckWasNeverTaken =>
        (pipe.step \notin {"idle", "creating", "claiming"} => runs[pipe.run].status # "STUCK")
  BY DEF AgentTypeOK, Pipe, WorksAlone, StuckWasNeverTaken
<1> QED
  BY <1>1, AgentTypeCorrect, Alone, BackendSafe, PTL

----
(* The record of a success is replayed before the success is.                *)

(* An event that is put last has everything else before it.                  *)
LEMMA RecordFirstPut ==
  ASSUME QueueOK, RecordBeforeOutcome, NEW event, Enqueue(event), reported \subseteq reported',
         event.op = "complete" /\ event.arg = "SUCCESS" => HasRecord(event.run)
  PROVE  RecordBeforeOutcome'
<1>1. /\ Len(queue) \in Nat /\ DOMAIN queue = 1 .. Len(queue)
      /\ DOMAIN queue' = 1 .. Len(queue) + 1
      /\ \A i \in 1 .. Len(queue) : queue'[i] = queue[i]
      /\ queue'[Len(queue) + 1] = event
  <2>1. queue \in Seq(Sendable) /\ queue' = Append(queue, event)
    BY DEF QueueOK, Enqueue
  <2> QED
    BY <2>1
<1> SUFFICES ASSUME NEW i \in DOMAIN queue', queue'[i].op = "complete", queue'[i].arg = "SUCCESS"
             PROVE  \/ queue'[i].run \in reported'
                    \/ \E k \in 1 .. i - 1 : queue'[k].op = "record" /\ queue'[k].run = queue'[i].run
  BY DEF RecordBeforeOutcome
<1>2. CASE i \in DOMAIN queue
  <2>1. queue'[i] = queue[i] /\ \A k \in 1 .. i - 1 : queue'[k] = queue[k]
    BY <1>1, <1>2
  <2> QED
    BY <1>2, <2>1 DEF RecordBeforeOutcome
<1>3. CASE i = Len(queue) + 1
  <2>1. queue'[i] = event /\ HasRecord(event.run)
    BY <1>1, <1>3
  <2>2. CASE event.run \in reported
    BY <2>1, <2>2
  <2>3. ASSUME NEW k \in DOMAIN queue, queue[k].op = "record", queue[k].run = event.run
        PROVE  \E q \in 1 .. i - 1 : queue'[q].op = "record" /\ queue'[q].run = queue'[i].run
    <3>1. k \in 1 .. i - 1 /\ queue'[k] = queue[k]
      BY <1>1, <1>3, <2>3
    <3> QED
      BY <2>1, <2>3, <3>1
  <2> QED
    BY <2>1, <2>2, <2>3 DEF HasRecord, Events
<1> QED
  BY <1>1, <1>2, <1>3

(* When the first event is deleted, it is no record or the record is stored. *)
LEMMA RecordFirstDelete ==
  ASSUME QueueOK, RecordBeforeOutcome, queue # <<>>, queue' = Tail(queue),
         reported \subseteq reported',
         Head(queue).op = "record" => Head(queue).run \in reported'
  PROVE  RecordBeforeOutcome'
<1>1. /\ Len(queue) \in Nat /\ Len(queue) > 0 /\ DOMAIN queue = 1 .. Len(queue)
      /\ Head(queue) = queue[1]
      /\ DOMAIN queue' = 1 .. Len(queue) - 1
      /\ \A i \in 1 .. Len(queue) - 1 : queue'[i] = queue[i + 1]
  <2>1. queue \in Seq(Sendable)
    BY DEF QueueOK
  <2> QED
    BY <2>1
<1> SUFFICES ASSUME NEW i \in DOMAIN queue', queue'[i].op = "complete", queue'[i].arg = "SUCCESS"
             PROVE  \/ queue'[i].run \in reported'
                    \/ \E k \in 1 .. i - 1 : queue'[k].op = "record" /\ queue'[k].run = queue'[i].run
  BY DEF RecordBeforeOutcome
<1>2. i \in Nat /\ i + 1 \in DOMAIN queue /\ queue'[i] = queue[i + 1] /\ (i + 1) - 1 = i
  BY <1>1
<1>3. CASE queue[i + 1].run \in reported
  BY <1>2, <1>3
<1>4. ASSUME NEW k \in 1 .. i, queue[k].op = "record", queue[k].run = queue[i + 1].run
      PROVE  \/ queue'[i].run \in reported'
             \/ \E q \in 1 .. i - 1 : queue'[q].op = "record" /\ queue'[q].run = queue'[i].run
  <2>1. CASE k = 1
    BY <1>1, <1>2, <1>4, <2>1
  <2>2. CASE k # 1
    <3>1. k - 1 \in 1 .. i - 1 /\ (k - 1) + 1 = k
      BY <1>2, <1>4, <2>2
    <3>2. k - 1 \in 1 .. Len(queue) - 1
      BY <1>1, <1>2, <3>1
    <3>3. queue'[k - 1] = queue[k]
      BY <1>1, <3>1, <3>2
    <3> QED
      BY <1>2, <1>4, <3>1, <3>3
  <2> QED
    BY <2>1, <2>2
<1>5. queue[i + 1].run \in reported \/
      \E k \in 1 .. i : queue[k].op = "record" /\ queue[k].run = queue[i + 1].run
  BY <1>2 DEF RecordBeforeOutcome
<1> QED
  BY <1>3, <1>4, <1>5

LEMMA RecordFirstKept ==
  ASSUME RecordBeforeOutcome, queue' = queue, reported \subseteq reported'
  PROVE  RecordBeforeOutcome'
BY DEF RecordBeforeOutcome

LEMMA RecordFirstPipeline ==
  ASSUME Before, RecordBeforeOutcome, Pipeline
  PROVE  RecordBeforeOutcome'
<1>1. CASE /\ queue' = queue /\ reported \subseteq reported'
  BY <1>1, RecordFirstKept
<1>2. CASE StartQueued
  <2>1. Enqueue(Queued("patch", pipe.run, "RUNNING")) /\ reported' = reported
    BY <1>2 DEF StartQueued, KeepStart
  <2> QED
    BY <2>1, BeforeFacts, RecordFirstPut DEF Queued
<1>3. CASE RecordQueued
  <2>1. Enqueue(Queued("record", pipe.run, "none")) /\ reported \subseteq reported'
    BY <1>3 DEF RecordQueued, KeepRecord
  <2> QED
    BY <2>1, BeforeFacts, RecordFirstPut DEF Queued
<1>4. CASE CompletionQueued
  <2>1. Enqueue(Queued("complete", pipe.run, pipe.outcome)) /\ reported' = reported
    BY <1>4 DEF CompletionQueued
  <2>2. pipe.outcome = "SUCCESS" => HasRecord(pipe.run)
    BY <1>4, BeforeFacts DEF CompletionQueued, OutcomeParts, AskedMatchesRecord
  <2> QED
    BY <2>1, <2>2, BeforeFacts, RecordFirstPut DEF Queued
<1> QED
  BY <1>1, <1>2, <1>3, <1>4
     DEF Pipeline, PipeAttempt, TakesRun, SkipsFire, CancelledWhileWaiting, WindowOpens, Started,
         StartRefused, GotConfig, CancelSeen, TransferEnds, RecordRefused, RecordSaved, Completed,
         CompletionRefused

LEMMA RecordFirstReplay ==
  ASSUME Before, RecordBeforeOutcome, Replay
  PROVE  RecordBeforeOutcome'
<1>1. CASE ReplayAttempt \/ ReplayRefused
  BY <1>1, RecordFirstKept DEF ReplayAttempt, ReplayRefused, AgentForgets
<1>2. CASE ReplayRecord
  BY <1>2, BeforeFacts, RecordFirstKept, RecordFirstDelete DEF ReplayRecord
<1>3. CASE ReplayDone
  <2>1. conn["replay"] # NoClient
    BY <1>3 DEF ReplayDone, Hear
  <2>2. queue # <<>> /\ Head(queue).op # "record"
    BY <2>1, BeforeFacts DEF ConnOK
  <2> QED
    BY <1>3, <2>2, BeforeFacts, RecordFirstDelete DEF ReplayDone
<1> QED
  BY <1>1, <1>2, <1>3 DEF Replay

LEMMA RecordFirstStep ==
  ASSUME Before, RecordBeforeOutcome, [AgentNext]_agentVars
  PROVE  RecordBeforeOutcome'
<1>1. CASE Progress
  <2>1. CASE ProgressQueued
    <3>1. Enqueue(Queued("patch", progress, "progress")) /\ reported' = reported
      BY <2>1 DEF ProgressQueued
    <3> QED
      BY <3>1, BeforeFacts, RecordFirstPut DEF Queued
  <2>2. CASE Callback \/ ProgressAttempt \/ ProgressDropped \/ ProgressHeard
    BY <2>2, RecordFirstKept DEF Callback, ProgressAttempt, ProgressDropped, ProgressHeard
  <2> QED
    BY <1>1, <2>1, <2>2 DEF Progress
<1>2. CASE \/ Fire \/ PickUp \/ JobPoll \/ AgentRestarts \/ Operator \/ Backend
           \/ \E t \in Task : AttemptLost(t)
           \/ \E c \in Client : Unheard(c)
           \/ UNCHANGED agentVars
  BY <1>2, RecordFirstKept
     DEF Fire, PickUp, JobPoll, AgentRestarts, AgentForgets, Operator, Backend, AttemptLost,
         Unheard, agentVars
<1> QED
  BY <1>1, <1>2, RecordFirstPipeline, RecordFirstReplay DEF AgentNext

(* With any number of runs and queued events, whatever is lost, late,        *)
(* repeated or restarted: a SUCCESS that OfflineReplayHostedService.cs sends  *)
(* from the queue comes after the record of its run.  (One that CompleteAsync *)
(* of the pipeline sends itself may arrive while the record is still queued.) *)
THEOREM RecordFirst == AgentSpec => []RecordBeforeOutcome
<1>1. AgentInit => RecordBeforeOutcome
  BY DEF AgentInit, RecordBeforeOutcome
<1>2. Before /\ RecordBeforeOutcome /\ [AgentNext]_agentVars => RecordBeforeOutcome'
  BY RecordFirstStep
<1> QED
  BY <1>1, <1>2, OutcomeInvariant, PTL DEF AgentSpec

====
