---- MODULE RestoresProofs ----
(***************************************************************************)
(* Proofs about Restores.tla, for any number of instances, restores and     *)
(* requests.                                                                *)
(***************************************************************************)
EXTENDS Restores, TLAPS

(* What the handlers in progress know about the tables: a request names     *)
(* rows that exist.                                                         *)
RequestsMakeSense ==
  \A c \in Client : request[c].kind = "patch" => restores[request[c].id] # NoRow

(* The bot is either between its re-check and its POST or being served, it  *)
(* is served at most once at a time, and the instance it goes for was the   *)
(* job's at some time since the re-check.                                   *)
BotKnows ==
  /\ bot.pc = "checked" => ~BotIsServed /\ bot.instance \in current
  /\ \A c \in Client : request[c].kind = "bot create" => request[c].instance \in current
  /\ \A c, d \in Client :
       request[c].kind = "bot create" /\ request[d].kind = "bot create" => c = d

(* The inductive invariant.                                                 *)
IInv == TypeOK /\ RequestsMakeSense /\ BotKnows

----
(* Rows and requests are records of known fields.                           *)
LEMMA RowFields ==
  ASSUME NEW x \in Row
  PROVE  /\ x.status \in {"ABSENT"} \cup Active \cup Terminal
         /\ x.instance \in Instance \cup {NoInstance}
         /\ x = NoRow <=> x.status = "ABSENT"
         /\ x = NoRow <=> x.instance = NoInstance
  BY RestoresAssumption DEF Row, NoRow, Active, Terminal

LEMMA RequestFields ==
  ASSUME NEW x \in Request
  PROVE  /\ x = Idle <=> x.kind = "idle"
         /\ x.kind \in {"idle", "create", "bot create", "delete", "patch"}
         /\ x.kind \in {"create", "bot create", "delete"} => x.instance \in Instance
         /\ x.kind = "patch" => x.id \in RestoreId /\ x.expected \in Active
<1>0. Idle.kind = "idle"
  BY DEF Idle
<1>1. CASE x = Idle
  BY <1>0, <1>1
<1>2. CASE x \in [kind : {"create", "bot create", "delete"}, instance : Instance]
  BY <1>0, <1>2
<1>3. CASE x \in [kind : {"patch"}, id : RestoreId, expected : Active]
  BY <1>0, <1>3
<1>4. QED
  BY <1>1, <1>2, <1>3 DEF Request

(* A new request.                                                           *)
LEMMA NewRequest ==
  /\ \A k \in {"create", "bot create", "delete"}, i \in Instance :
       [kind |-> k, instance |-> i] \in Request
  /\ \A r \in RestoreId, e \in Active :
       [kind |-> "patch", id |-> r, expected |-> e] \in Request
  /\ Idle \in Request
  BY DEF Request

(* Rows, updated.                                                           *)
LEMMA NewRow ==
  /\ \A s \in Active \cup Terminal, i \in Instance :
       /\ [status |-> s, instance |-> i] \in Row
       /\ [status |-> s, instance |-> i] # NoRow
  /\ \A x \in Row, s \in Active \cup Terminal :
       x # NoRow => /\ [x EXCEPT !.status = s] \in Row
                    /\ [x EXCEPT !.status = s] # NoRow
                    /\ [x EXCEPT !.status = s].status = s
                    /\ [x EXCEPT !.status = s].instance = x.instance
  BY RestoresAssumption DEF Row, NoRow, Active, Terminal


----
(* Init.                                                                    *)
LEMMA InitIInv == Init => IInv
<1> SUFFICES ASSUME Init PROVE IInv
  OBVIOUS
<1>1. TypeOK
  BY RowFields DEF Init, TypeOK, Row, NoRow, Job, AlertState, Request, Dialogue
<1>2. \A c \in Client : request[c].kind = "idle"
  BY DEF Init, Idle
<1>3. QED
  BY <1>1, <1>2 DEF Init, IInv, RequestsMakeSense, BotKnows, BotIsServed, Silent

(* What a step that touches neither the requests nor the bot has to keep.   *)
LEMMA BotUndisturbed ==
  ASSUME BotKnows, UNCHANGED <<request, bot>>,
         bot.pc = "checked" \/ BotIsServed => current \subseteq current'
  PROVE  BotKnows'
  BY DEF BotKnows, BotIsServed

(* A request is accepted: by a client that was idle, for rows that exist.   *)
LEMMA AcceptKeeps ==
  ASSUME TypeOK, RequestsMakeSense, NEW c \in Client, NEW x \in Request, Accept(c, x),
         bot' \in Dialogue, current' \subseteq Instance \cup {NoInstance},
         x.kind = "patch" => restores[x.id] # NoRow
  PROVE  /\ TypeOK'
         /\ RequestsMakeSense'
         /\ request'[c] = x
         /\ \A d \in Client \ {c} : request'[d] = request[d]
<1>1. /\ request'[c] = x
      /\ \A d \in Client \ {c} : request'[d] = request[d]
  BY DEF Accept, TypeOK
<1>2. TypeOK'
  BY DEF Accept, TypeOK
<1>3. RequestsMakeSense'
  BY <1>1 DEF Accept, RequestsMakeSense
<1>4. QED
  BY <1>1, <1>2, <1>3

(* ... and one that is not the bot's leaves the bot's matters alone.        *)
LEMMA AcceptOther ==
  ASSUME IInv, NEW c \in Client, NEW x \in Request, Accept(c, x), UNCHANGED <<bot, current>>,
         x.kind # "bot create", x.kind = "patch" => restores[x.id] # NoRow
  PROVE  IInv'
<1>1. /\ TypeOK' /\ RequestsMakeSense'
      /\ request'[c] = x
      /\ \A d \in Client \ {c} : request'[d] = request[d]
  BY AcceptKeeps DEF IInv, TypeOK
<1>2. BotKnows'
  BY <1>1 DEF IInv, BotKnows, BotIsServed
<1>3. QED
  BY <1>1, <1>2 DEF IInv

(* A reply: the client is idle again.                                       *)
LEMMA ReplyKeeps ==
  ASSUME request \in [Client -> Request], NEW c \in Client, Reply(c)
  PROVE  /\ request' \in [Client -> Request]
         /\ request'[c].kind = "idle"
         /\ \A d \in Client \ {c} : request'[d] = request[d]
  BY NewRequest DEF Reply, Idle

----
(* One lemma per action.                                                    *)
LEMMA CreateKeeps ==
  ASSUME IInv, NEW c \in Client, Create(c)
  PROVE  IInv'
<1> DEFINE i == request[c].instance
<1>1. i \in Instance /\ request[c].kind \in {"create", "bot create"}
  BY RequestFields DEF IInv, TypeOK, Create, Creating
<1>2. /\ request' \in [Client -> Request]
      /\ request'[c].kind = "idle"
      /\ \A d \in Client \ {c} : request'[d] = request[d]
  BY ReplyKeeps DEF IInv, TypeOK, Create
<1>3. /\ restores' \in [RestoreId -> Row]
      /\ \A r \in RestoreId : restores[r] # NoRow => restores'[r] = restores[r]
      /\ \A r \in RestoreId : restores'[r].status = "FAILED" <=> restores[r].status = "FAILED"
      /\ (\E r \in RestoreId : restores'[r] # NoRow) => recorded
  <2>1. CASE ~InsertAllowed(i)
    BY <2>1 DEF IInv, TypeOK, Create
  <2>2. CASE InsertAllowed(i)
    <3> DEFINE n == [status |-> "PENDING", instance |-> i]
    <3>1. PICK r \in RestoreId : IsNext(r) /\ restores' = [restores EXCEPT ![r] = n]
      BY <2>2 DEF Create
    <3>2. n \in Row /\ n.status = "PENDING"
      BY <1>1, NewRow DEF Active
    <3>3. restores[r] = NoRow /\ NoRow.status = "ABSENT" /\ recorded
      BY <2>2, <3>1 DEF IsNext, NoRow, InsertAllowed
    <3>4. QED
      BY <3>1, <3>2, <3>3 DEF IInv, TypeOK
  <2>3. QED
    BY <2>1, <2>2
<1>4. TypeOK'
  BY <1>2, <1>3 DEF IInv, TypeOK, Create
<1>5. RequestsMakeSense'
  <2> SUFFICES ASSUME NEW d \in Client, request'[d].kind = "patch"
               PROVE  restores'[request'[d].id] # NoRow
    BY DEF RequestsMakeSense
  <2>1. request'[d] = request[d] /\ request[d].id \in RestoreId
    BY <1>2, RequestFields DEF IInv, TypeOK
  <2>2. QED
    BY <1>3, <2>1 DEF IInv, RequestsMakeSense
<1>6. BotKnows'
  <2>1. CASE request[c].kind = "bot create"
    <3>1. bot.pc # "checked"
      BY <2>1 DEF IInv, BotKnows, BotIsServed
    <3>2. \A d \in Client : request'[d].kind # "bot create"
      BY <1>2, <2>1 DEF IInv, BotKnows
    <3>3. QED
      BY <3>1, <3>2 DEF Create, BotKnows
  <2>2. CASE request[c].kind # "bot create"
    BY <1>2, <2>2 DEF IInv, BotKnows, BotIsServed, Create
  <2>3. QED
    BY <2>1, <2>2
<1>7. QED
  BY <1>4, <1>5, <1>6 DEF IInv

LEMMA PatchKeeps ==
  ASSUME IInv, NEW c \in Client, NEW new \in Active \cup Terminal, Patch(c, new)
  PROVE  IInv'
<1> DEFINE r == request[c].id
<1>1. /\ r \in RestoreId /\ restores[r] # NoRow
      /\ request[c].kind = "patch" /\ request[c].expected \in Active
  BY RequestFields DEF IInv, TypeOK, RequestsMakeSense, Patch
<1>2. /\ request' \in [Client -> Request]
      /\ request'[c].kind = "idle"
      /\ \A d \in Client \ {c} : request'[d] = request[d]
  BY ReplyKeeps DEF IInv, TypeOK, Patch
<1>3. /\ restores' \in [RestoreId -> Row]
      /\ alert' \in [RestoreId -> AlertState]
      /\ \A q \in RestoreId : restores'[q] # NoRow <=> restores[q] # NoRow
      /\ \A q \in RestoreId : restores'[q].status = "FAILED" <=> alert'[q] # "none"
  <2>1. CASE ~Unchanged(c)
    BY <2>1 DEF IInv, TypeOK, Patch
  <2>2. CASE Unchanged(c)
    <3>1. /\ restores' = [restores EXCEPT ![r] = [@ EXCEPT !.status = new]]
          /\ alert' = IF new = "FAILED" THEN [alert EXCEPT ![r] = "ACTIVE"] ELSE alert
      BY <2>2 DEF Patch
    <3>2. restores[r].status \in Active
      BY <1>1, <2>2 DEF Unchanged
    <3>3. /\ [restores[r] EXCEPT !.status = new] \in Row
          /\ [restores[r] EXCEPT !.status = new] # NoRow
          /\ [restores[r] EXCEPT !.status = new].status = new
      BY <1>1, NewRow DEF IInv, TypeOK
    <3>4. alert[r] = "none"
      BY <1>1, <3>2 DEF IInv, TypeOK, Active
    <3>5. QED
      BY <1>1, <3>1, <3>3, <3>4 DEF IInv, TypeOK, AlertState
  <2>3. QED
    BY <2>1, <2>2
<1>4. TypeOK'
  BY <1>2, <1>3 DEF IInv, TypeOK, Patch
<1>5. RequestsMakeSense'
  <2> SUFFICES ASSUME NEW d \in Client, request'[d].kind = "patch"
               PROVE  restores'[request'[d].id] # NoRow
    BY DEF RequestsMakeSense
  <2>1. request'[d] = request[d] /\ request[d].id \in RestoreId
    BY <1>2, RequestFields DEF IInv, TypeOK
  <2>2. QED
    BY <1>3, <2>1 DEF IInv, RequestsMakeSense
<1>6. BotKnows'
  <2>1. \A d \in Client : request'[d].kind = "bot create" => request'[d] = request[d]
    BY <1>2
  <2>2. UNCHANGED <<bot, current>> /\ BotKnows
    BY DEF Patch, IInv
  <2>3. QED
    BY <2>1, <2>2 DEF BotKnows, BotIsServed
<1>7. QED
  BY <1>4, <1>5, <1>6 DEF IInv

LEMMA StepKeeps ==
  ASSUME IInv, NEW c \in Client, Step(c)
  PROVE  IInv'
<1>1. CASE \E i \in Instance : AskCreate(c, i)
  <2>1. PICK i \in Instance : AskCreate(c, i)
    BY <1>1
  <2>2. [kind |-> "create", instance |-> i] \in Request
    BY NewRequest
  <2>3. QED
    BY <2>1, <2>2, AcceptOther DEF AskCreate
<1>2. CASE \E i \in Instance : AskDelete(c, i)
  <2>1. PICK i \in Instance : AskDelete(c, i)
    BY <1>2
  <2>2. [kind |-> "delete", instance |-> i] \in Request
    BY NewRequest
  <2>3. QED
    BY <2>1, <2>2, AcceptOther DEF AskDelete
<1>3. CASE \E r \in RestoreId : AskPatch(c, r)
  <2>1. PICK r \in RestoreId : AskPatch(c, r)
    BY <1>3
  <2> DEFINE x == [kind |-> "patch", id |-> r, expected |-> restores[r].status]
  <2>2. x \in Request /\ x.kind = "patch" /\ x.id = r
    BY <2>1, NewRequest DEF AskPatch
  <2>3. restores[r] # NoRow
    BY <2>1 DEF AskPatch, NoRow, Active
  <2>4. Accept(c, x) /\ UNCHANGED <<bot, current>>
    BY <2>1 DEF AskPatch
  <2>5. QED
    BY <2>2, <2>3, <2>4, AcceptOther
<1>4. CASE \E new \in Active \cup Terminal : Patch(c, new)
  BY <1>4, PatchKeeps
<1>5. CASE Create(c)
  BY <1>5, CreateKeeps
<1>6. CASE DeleteInstance(c)
  <2>1. request[c].instance \in Instance /\ request[c].kind = "delete"
    BY <1>6, RequestFields DEF IInv, TypeOK, DeleteInstance
  <2>2. /\ request' \in [Client -> Request]
        /\ request'[c].kind = "idle"
        /\ \A d \in Client \ {c} : request'[d] = request[d]
    BY <1>6, ReplyKeeps DEF IInv, TypeOK, DeleteInstance
  <2>3. TypeOK'
    BY <1>6, <2>1, <2>2 DEF IInv, TypeOK, DeleteInstance
  <2>4. RequestsMakeSense' /\ BotKnows'
    BY <1>6, <2>1, <2>2 DEF IInv, RequestsMakeSense, BotKnows, BotIsServed, DeleteInstance
  <2>5. QED
    BY <2>3, <2>4 DEF IInv
<1>7. QED
  BY <1>1, <1>2, <1>3, <1>4, <1>5, <1>6 DEF Step

LEMMA AdministrationKeeps ==
  ASSUME IInv, Administration
  PROVE  IInv'
<1>1. CASE \E i \in Instance \cup {NoInstance}, s \in {"on", "off"} : PatchJob(i, s)
  <2>1. PICK i \in Instance \cup {NoInstance}, s \in {"on", "off"} : PatchJob(i, s)
    BY <1>1
  <2>2. TypeOK'
    BY <2>1 DEF IInv, TypeOK, PatchJob, Job
  <2>3. RequestsMakeSense'
    BY <2>1 DEF IInv, RequestsMakeSense, PatchJob
  <2>4. BotKnows'
    BY <2>1, BotUndisturbed DEF IInv, PatchJob
  <2>5. QED
    BY <2>2, <2>3, <2>4 DEF IInv
<1>2. CASE DeleteJob
  BY <1>2, BotUndisturbed DEF IInv, TypeOK, RequestsMakeSense, DeleteJob, Job
<1>3. CASE UpsertRecord
  BY <1>3, BotUndisturbed DEF IInv, TypeOK, RequestsMakeSense, UpsertRecord
<1>4. CASE \E r \in RestoreId : OperatorCloses(r)
  <2>1. PICK r \in RestoreId : OperatorCloses(r)
    BY <1>4
  <2>2. TypeOK'
    BY <2>1 DEF IInv, TypeOK, OperatorCloses, AlertState
  <2>3. QED
    BY <2>1, <2>2, BotUndisturbed DEF IInv, RequestsMakeSense, OperatorCloses
<1>5. QED
  BY <1>1, <1>2, <1>3, <1>4 DEF Administration

LEMMA BotKeeps ==
  ASSUME IInv, BotStep
  PROVE  IInv'
<1>1. CASE BotAsks
  <2>1. job.instance \in Instance
    BY <1>1 DEF BotAsks, IInv, TypeOK, Job
  <2>2. TypeOK'
    BY <1>1, <2>1 DEF BotAsks, IInv, TypeOK, Dialogue
  <2>3. QED
    BY <1>1, <2>2 DEF BotAsks, IInv, RequestsMakeSense, BotKnows, BotIsServed
<1>2. CASE BotConfirms
  <2>1. bot.instance \in Instance
    BY <1>2 DEF BotConfirms, IInv, TypeOK, Dialogue, Silent
  <2>2. CASE StillTheJobs /\ bot' = [bot EXCEPT !.pc = "checked"] /\ current' = {job.instance}
    <3>1. bot' = [pc |-> "checked", instance |-> bot.instance]
      BY <2>2 DEF IInv, TypeOK, Dialogue, Silent
    <3>2. TypeOK'
      <4>1. bot' \in Dialogue
        BY <2>1, <3>1 DEF Dialogue
      <4>2. current' \subseteq Instance \cup {NoInstance}
        BY <2>1, <2>2 DEF StillTheJobs
      <4>3. UNCHANGED <<restores, deleted, job, recorded, alert, request>> /\ TypeOK
        BY <1>2 DEF BotConfirms, IInv
      <4>4. QED
        BY <4>1, <4>2, <4>3 DEF TypeOK
    <3>3. BotKnows'
      <4>1. ~BotIsServed /\ UNCHANGED request
        BY <1>2 DEF BotConfirms
      <4>2. bot'.pc = "checked" /\ bot'.instance \in current'
        BY <2>2, <3>1 DEF StillTheJobs
      <4>3. QED
        BY <4>1, <4>2 DEF BotKnows, BotIsServed
    <3>4. QED
      BY <1>2, <3>2, <3>3 DEF BotConfirms, IInv, RequestsMakeSense
  <2>3. CASE bot' = Silent /\ UNCHANGED current
    <3>1. TypeOK'
      BY <1>2, <2>3 DEF BotConfirms, IInv, TypeOK, Dialogue
    <3>2. QED
      BY <1>2, <2>3, <3>1
      DEF BotConfirms, IInv, RequestsMakeSense, BotKnows, BotIsServed, Silent
  <2>4. QED
    BY <1>2, <2>2, <2>3 DEF BotConfirms
<1>3. CASE BotPosts
  <2>0. /\ bot.pc = "checked" /\ bot' = Silent /\ Silent.pc = "idle"
        /\ Silent \in Dialogue
    BY <1>3 DEF BotPosts, Silent, Dialogue
  <2>1. /\ bot.instance \in Instance \cap current
        /\ \A c \in Client : request[c].kind # "bot create"
    <3>1. bot \in Dialogue /\ bot # Silent
      BY <2>0 DEF IInv, TypeOK
    <3>2. bot.instance \in Instance
      BY <3>1 DEF Dialogue
    <3>3. QED
      BY <2>0, <3>2 DEF IInv, BotKnows, BotIsServed
  <2>2. CASE CreateChecks(bot.instance)
    <3> DEFINE x == [kind |-> "bot create", instance |-> bot.instance]
    <3>1. PICK c \in Client : Accept(c, x)
      BY <1>3, <2>2 DEF BotPosts
    <3>2. x \in Request /\ x.kind = "bot create" /\ x.instance = bot.instance
      BY <2>1, NewRequest
    <3>3. bot' = Silent /\ bot' \in Dialogue /\ current' = current
      BY <1>3, <2>2 DEF BotPosts, Dialogue
    <3>4. /\ TypeOK' /\ RequestsMakeSense'
          /\ request'[c] = x
          /\ \A d \in Client \ {c} : request'[d] = request[d]
      BY <3>1, <3>2, <3>3, AcceptKeeps DEF IInv, TypeOK
    <3>5. BotKnows'
      BY <2>1, <3>2, <3>3, <3>4 DEF BotKnows, Silent
    <3>6. QED
      BY <3>4, <3>5 DEF IInv
  <2>3. CASE ~CreateChecks(bot.instance)
    <3>0. current' = {} /\ UNCHANGED <<restores, deleted, job, recorded, alert, request>>
      BY <1>3, <2>3 DEF BotPosts
    <3>1. TypeOK'
      BY <2>0, <3>0 DEF IInv, TypeOK
    <3>2. QED
      BY <2>0, <2>1, <3>0, <3>1 DEF IInv, RequestsMakeSense, BotKnows
  <2>4. QED
    BY <2>2, <2>3
<1>4. CASE BotGivesUp
  <2>1. TypeOK'
    BY <1>4 DEF BotGivesUp, IInv, TypeOK, Dialogue
  <2>2. QED
    BY <1>4, <2>1 DEF BotGivesUp, IInv, RequestsMakeSense, BotKnows, BotIsServed, Silent
<1>5. QED
  BY <1>1, <1>2, <1>3, <1>4 DEF BotStep

LEMMA NextIInv == IInv /\ [Next]_vars => IInv'
<1> SUFFICES ASSUME IInv, [Next]_vars PROVE IInv'
  OBVIOUS
<1>1. CASE \E c \in Client : Step(c)
  BY <1>1, StepKeeps
<1>2. CASE Administration
  BY <1>2, AdministrationKeeps
<1>3. CASE BotStep
  BY <1>3, BotKeeps
<1>4. CASE Restart
  <2>1. \A c \in Client : request'[c] = Idle /\ Idle.kind = "idle"
    BY <1>4 DEF Restart, Idle
  <2>2. TypeOK'
    BY <1>4, NewRequest DEF Restart, IInv, TypeOK
  <2>3. BotKnows'
    BY <1>4, <2>1 DEF Restart, IInv, BotKnows, BotIsServed
  <2>4. QED
    BY <2>1, <2>2, <2>3 DEF IInv, RequestsMakeSense
<1>5. CASE UNCHANGED vars
  BY <1>5 DEF vars, IInv, TypeOK, RequestsMakeSense, BotKnows, BotIsServed
<1>6. QED
  BY <1>1, <1>2, <1>3, <1>4, <1>5 DEF Next

(* The inductive invariant holds in every reachable state.                  *)
THEOREM Inductive == Spec => []IInv
  BY InitIInv, NextIInv, PTL DEF Spec

(* Rows, requests and the bot's dialogue are well formed; a restore keeps   *)
(* its record, and FAILED restores, and only they, have had an alert.       *)
THEOREM TypeCorrect == Spec => []TypeOK
<1>1. IInv => TypeOK
  BY DEF IInv
<1>2. QED
  BY <1>1, Inductive, PTL

----
(* What a step does to the rows: it appends one, it moves an open one on,   *)
(* or it leaves them alone.                                                 *)
Append(c, r) ==
  /\ Create(c)
  /\ IsNext(r)
  /\ InsertAllowed(request[c].instance)
  /\ restores' = [restores EXCEPT
       ![r] = [status |-> "PENDING", instance |-> request[c].instance]]

MoveOn(c, r, new) ==
  /\ Patch(c, new)
  /\ r = request[c].id
  /\ restores[r].status = request[c].expected
  /\ request[c].expected \in Active
  /\ ValidTransition(request[c].expected, new)
  /\ restores' = [restores EXCEPT ![r] = [@ EXCEPT !.status = new]]

LEMMA RowStep ==
  ASSUME IInv, [Next]_vars
  PROVE  \/ \E c \in Client, r \in RestoreId : Append(c, r)
         \/ \E c \in Client, r \in RestoreId, new \in Active \cup Terminal : MoveOn(c, r, new)
         \/ UNCHANGED restores
<1>1. CASE \E c \in Client : Create(c)
  BY <1>1 DEF Create, Append
<1>2. CASE \E c \in Client, new \in Active \cup Terminal : Patch(c, new)
  <2>1. PICK c \in Client, new \in Active \cup Terminal : Patch(c, new)
    BY <1>2
  <2>2. request[c].id \in RestoreId /\ request[c].expected \in Active
    BY <2>1, RequestFields DEF IInv, TypeOK, Patch
  <2>3. CASE Unchanged(c)
    <3>1. MoveOn(c, request[c].id, new)
      BY <2>1, <2>2, <2>3 DEF Patch, MoveOn, Unchanged
    <3>2. QED
      BY <2>2, <3>1
  <2>4. CASE ~Unchanged(c)
    BY <2>1, <2>4 DEF Patch
  <2>5. QED
    BY <2>3, <2>4
<1>3. CASE BotStep
  BY <1>3 DEF BotStep, BotAsks, BotConfirms, BotPosts, BotGivesUp, Accept
<1>4. CASE Administration
  BY <1>4 DEF Administration, PatchJob, DeleteJob, UpsertRecord, OperatorCloses
<1>5. CASE \E c \in Client : \/ \E i \in Instance : AskCreate(c, i) \/ AskDelete(c, i)
                             \/ \E r \in RestoreId : AskPatch(c, r)
                             \/ DeleteInstance(c)
  BY <1>5 DEF AskCreate, AskDelete, AskPatch, DeleteInstance, Accept
<1>6. CASE Restart \/ UNCHANGED vars
  BY <1>6 DEF Restart, vars
<1>7. QED
  BY <1>1, <1>2, <1>3, <1>4, <1>5, <1>6 DEF Next, Step

(* A restore that is RUNNING is never cancelled, however PATCHes overlap.   *)
THEOREM RunningIsNotCancelled == Spec => NoCancelWhileRunning
<1>1. IInv /\ [Next]_vars =>
        [\A r \in RestoreId :
           restores[r].status = "RUNNING" => restores'[r].status # "CANCELLED"]_vars
  <2> SUFFICES ASSUME IInv, [Next]_vars, NEW q \in RestoreId, restores[q].status = "RUNNING"
               PROVE  restores'[q].status # "CANCELLED"
    OBVIOUS
  <2>1. ASSUME NEW c \in Client, NEW r \in RestoreId, Append(c, r)
        PROVE  restores'[q].status # "CANCELLED"
    BY <2>1 DEF Append, IsNext, IInv, TypeOK, NoRow
  <2>2. ASSUME NEW c \in Client, NEW r \in RestoreId, NEW new \in Active \cup Terminal,
               MoveOn(c, r, new)
        PROVE  restores'[q].status # "CANCELLED"
    <3>1. restores[q] \in Row /\ restores[q] # NoRow
      BY DEF IInv, TypeOK, NoRow
    <3>2. [restores[q] EXCEPT !.status = new].status = new
      BY <3>1, NewRow
    <3>3. QED
      BY <2>2, <3>2 DEF MoveOn, ValidTransition, IInv, TypeOK
  <2>3. QED
    BY <2>1, <2>2, RowStep
<1>2. QED
  BY <1>1, Inductive, PTL DEF Spec, NoCancelWhileRunning

(* What the bot creates goes to an instance that was the job's at some time *)
(* after the confirmation.                                                  *)
THEOREM BotIsCurrent == Spec => BotRestoresCurrentInstance
<1>1. IInv /\ [Next]_vars =>
        [\A r \in RestoreId :
           restores[r] = NoRow /\ restores'[r] # NoRow /\ BotIsServed /\ ~BotIsServed'
             => restores'[r].instance \in current]_vars
  <2> SUFFICES ASSUME IInv, [Next]_vars, NEW q \in RestoreId,
                      restores[q] = NoRow, restores'[q] # NoRow, BotIsServed, ~BotIsServed'
               PROVE  restores'[q].instance \in current
    OBVIOUS
  <2>1. ASSUME NEW c \in Client, NEW r \in RestoreId, Append(c, r)
        PROVE  restores'[q].instance \in current
    <3>1. q = r /\ restores'[q].instance = request[c].instance
      BY <2>1 DEF Append, IInv, TypeOK
    <3>2. \A d \in Client \ {c} : request'[d] = request[d]
      BY <2>1, ReplyKeeps DEF Append, Create, IInv, TypeOK
    <3>3. request[c].kind = "bot create"
      BY <3>2 DEF BotIsServed
    <3>4. QED
      BY <3>1, <3>3 DEF IInv, BotKnows
  <2>2. ASSUME NEW c \in Client, NEW r \in RestoreId, NEW new \in Active \cup Terminal,
               MoveOn(c, r, new)
        PROVE  FALSE
    BY <2>2 DEF MoveOn, IInv, TypeOK, NoRow, Active
  <2>3. QED
    BY <2>1, <2>2, RowStep
<1>2. QED
  BY <1>1, Inductive, PTL DEF Spec, BotRestoresCurrentInstance

(* Restores implement RunLifecycle.                                         *)
THEOREM Implements == Spec => ImplementsLifecycle
<1>1. Init => Lifecycle!Init
  <2> SUFFICES ASSUME Init
               PROVE  \A r \in RestoreId : Phase(r) = "absent" /\ restores[r].instance = NoInstance
    BY DEF Lifecycle!Init
  <2>1. \A r \in RestoreId : restores[r].status = "ABSENT" /\ restores[r].instance = NoInstance
    BY DEF Init, NoRow
  <2>2. QED
    BY <2>1 DEF Phase, Active
<1>2. IInv /\ IInv' /\ [Next]_vars => [Lifecycle!Next]_(Lifecycle!vars)
  <2> SUFFICES ASSUME IInv, IInv', [Next]_vars
               PROVE  Lifecycle!Next \/ UNCHANGED Lifecycle!vars
    BY DEF Lifecycle!vars
  <2> DEFINE phases == [r \in RestoreId |-> Phase(r)]
             owners == [r \in RestoreId |-> restores[r].instance]
  <2>0. \A r \in RestoreId : restores[r] \in Row /\ restores'[r] \in Row
    BY DEF IInv, TypeOK
  <2>1. ASSUME NEW c \in Client, NEW r \in RestoreId, Append(c, r)
        PROVE  Lifecycle!Next
    <3>1. PICK i \in Instance : i = request[c].instance
      BY <2>1, RequestFields DEF Append, Create, Creating, IInv, TypeOK
    <3>2. restores[r] = NoRow /\ restores'[r] = [status |-> "PENDING", instance |-> i]
      BY <2>1, <3>1 DEF Append, IsNext, IInv, TypeOK
    <3>3. Phase(r) = "absent" /\ Phase(r)' = "waiting" /\ restores'[r].instance = i
      BY <3>2 DEF Phase, NoRow, Active
    <3>4. \A q \in RestoreId \ {r} : restores'[q] = restores[q]
      BY <2>1 DEF Append, IInv, TypeOK
    <3>5. \A q \in RestoreId \ {r} : Phase(q)' = Phase(q)
      BY <3>4 DEF Phase
    <3>6. \A q \in RestoreId : owners[q] = i => phases[q] \notin Lifecycle!Open
      <4> SUFFICES ASSUME NEW q \in RestoreId, restores[q].instance = i
                   PROVE  Phase(q) \notin {"waiting", "started"}
        BY DEF Lifecycle!Open
      <4>1. restores[q].status \notin Active
        BY <2>1, <3>1 DEF Append, InsertAllowed
      <4>2. restores[q].status \in {"ABSENT"} \cup Terminal
        BY <2>0, <4>1, RowFields
      <4>3. QED
        BY <2>0, <4>1, <4>2 DEF Phase, Terminal
    <3>7. phases' = [phases EXCEPT ![r] = "waiting"]
      BY <3>3, <3>5
    <3>8. owners' = [owners EXCEPT ![r] = i]
      BY <3>3, <3>4
    <3>9. Lifecycle!OpenRun(r, i)
      BY <3>3, <3>6, <3>7, <3>8 DEF Lifecycle!OpenRun
    <3>10. QED
      BY <3>1, <3>9 DEF Lifecycle!Next
  <2>2. ASSUME NEW c \in Client, NEW r \in RestoreId, NEW new \in Active \cup Terminal,
               MoveOn(c, r, new)
        PROVE  Lifecycle!Next \/ UNCHANGED Lifecycle!vars
    <3>1. restores[r].status \in Active /\ restores[r] # NoRow
      BY <2>2 DEF MoveOn, NoRow, Active
    <3>2. restores'[r] = [restores[r] EXCEPT !.status = new]
      BY <2>2 DEF MoveOn, IInv, TypeOK
    <3>3. restores'[r].status = new /\ restores'[r].instance = restores[r].instance
      BY <2>0, <3>1, <3>2, NewRow
    <3>4. \A q \in RestoreId \ {r} : restores'[q] = restores[q]
      BY <2>2 DEF MoveOn, IInv, TypeOK
    <3>5. \A q \in RestoreId \ {r} : Phase(q)' = Phase(q)
      BY <3>4 DEF Phase
    <3>6. owners' = owners
      BY <3>3, <3>4
    <3>7. Phase(r) = "waiting"
      BY <3>1 DEF Phase, Active
    <3>8. CASE new \in Active
      <4>1. Phase(r)' = "waiting"
        BY <3>3, <3>8 DEF Phase, Active
      <4>2. phases' = phases
        BY <3>5, <3>7, <4>1
      <4>3. QED
        BY <3>6, <4>2 DEF Lifecycle!vars
    <3>9. CASE new \in Terminal
      <4>1. Phase(r)' = new
        BY <3>3, <3>9 DEF Phase, Active, Terminal
      <4>2. phases' = [phases EXCEPT ![r] = new]
        BY <3>5, <4>1
      <4>3. new # "STUCK"
        BY <3>9 DEF Terminal
      <4>4. Lifecycle!Close(r, new)
        BY <3>6, <3>7, <4>2, <4>3 DEF Lifecycle!Close, Lifecycle!Open
      <4>5. QED
        BY <3>9, <4>4 DEF Lifecycle!Next
    <3>10. QED
      BY <3>8, <3>9
  <2>3. ASSUME UNCHANGED restores
        PROVE  UNCHANGED Lifecycle!vars
    BY <2>3 DEF Lifecycle!vars, Phase
  <2>4. QED
    BY <2>1, <2>2, <2>3, RowStep
<1>3. QED
  BY <1>1, <1>2, Inductive, PTL DEF Spec, ImplementsLifecycle, Lifecycle!Spec

----
(* What the table itself promises, whoever PATCHes: the partial unique      *)
(* index keeps one open restore per instance although the check that        *)
(* answers 409 and the INSERT are apart, and the compare-and-set keeps      *)
(* finished restores as they are.                                           *)
OneOpenPerInstance ==
  \A r, q \in RestoreId :
    /\ restores[r].status \in Active /\ restores[q].status \in Active
    /\ restores[r].instance = restores[q].instance
    => r = q

LEMMA OneOpenKept == IInv /\ OneOpenPerInstance /\ [Next]_vars => OneOpenPerInstance'
<1> SUFFICES ASSUME IInv, OneOpenPerInstance, [Next]_vars PROVE OneOpenPerInstance'
  OBVIOUS
<1>0. restores \in [RestoreId -> Row]
  BY DEF IInv, TypeOK
<1>1. ASSUME NEW c \in Client, NEW r \in RestoreId, Append(c, r)
      PROVE  OneOpenPerInstance'
  <2>1. /\ restores'[r].instance = request[c].instance
        /\ \A q \in RestoreId \ {r} : restores'[q] = restores[q]
        /\ \A q \in RestoreId :
             restores[q].instance = request[c].instance => restores[q].status \notin Active
    BY <1>0, <1>1 DEF Append, InsertAllowed
  <2>2. QED
    BY <2>1 DEF OneOpenPerInstance
<1>2. ASSUME NEW c \in Client, NEW r \in RestoreId, NEW new \in Active \cup Terminal,
             MoveOn(c, r, new)
      PROVE  OneOpenPerInstance'
  <2>1. restores[r] # NoRow /\ restores[r].status \in Active
    BY <1>2 DEF MoveOn, NoRow, Active
  <2>2. restores'[r] = [restores[r] EXCEPT !.status = new]
    BY <1>0, <1>2 DEF MoveOn
  <2>3. restores'[r].instance = restores[r].instance
    BY <1>0, <2>1, <2>2, NewRow
  <2>4. \A q \in RestoreId \ {r} : restores'[q] = restores[q]
    BY <1>0, <1>2 DEF MoveOn
  <2>5. QED
    BY <2>1, <2>3, <2>4 DEF OneOpenPerInstance
<1>3. CASE UNCHANGED restores
  BY <1>3 DEF OneOpenPerInstance
<1>4. QED
  BY <1>1, <1>2, <1>3, RowStep

(* An instance never has two open restores.                                 *)
THEOREM OneOpen == Spec => []OneOpenPerInstance
<1>1. Init => OneOpenPerInstance
  BY DEF Init, OneOpenPerInstance, NoRow, Active
<1>2. QED
  BY <1>1, OneOpenKept, Inductive, PTL DEF Spec

(* A finished restore keeps its outcome and its instance, and a failure is  *)
(* told once: no PATCH, however late, brings back an alert that was         *)
(* resolved, or acknowledged, by an operator.                               *)
FinishedStaysFinished ==
  [][\A r \in RestoreId :
       /\ restores[r].status \in Terminal => restores'[r] = restores[r]
       /\ alert[r] = "closed" => alert'[r] = "closed"]_vars

THEOREM Finished == Spec => FinishedStaysFinished
<1>1. IInv /\ [Next]_vars =>
        [\A r \in RestoreId :
           /\ restores[r].status \in Terminal => restores'[r] = restores[r]
           /\ alert[r] = "closed" => alert'[r] = "closed"]_vars
  <2> SUFFICES ASSUME IInv, [Next]_vars, NEW r \in RestoreId
               PROVE  /\ restores[r].status \in Terminal => restores'[r] = restores[r]
                      /\ alert[r] = "closed" => alert'[r] = "closed"
    OBVIOUS
  <2>0. /\ restores \in [RestoreId -> Row] /\ alert \in [RestoreId -> AlertState]
        /\ Active \cap Terminal = {}
        /\ alert[r] = "closed" => restores[r].status \notin Active
    BY DEF IInv, TypeOK, Active, Terminal
  <2>1. ASSUME NEW c \in Client, NEW q \in RestoreId, Append(c, q)
        PROVE  restores[r].status \in Terminal => restores'[r] = restores[r]
    BY <2>0, <2>1 DEF Append, IsNext, NoRow, Terminal
  <2>2. ASSUME NEW c \in Client, NEW q \in RestoreId, NEW new \in Active \cup Terminal,
               MoveOn(c, q, new)
        PROVE  restores[r].status \in Terminal => restores'[r] = restores[r]
    BY <2>0, <2>2 DEF MoveOn
  <2>3. restores[r].status \in Terminal => restores'[r] = restores[r]
    BY <2>1, <2>2, RowStep
  <2>4. alert[r] = "closed" => alert'[r] = "closed"
    <3>1. CASE \E c \in Client, new \in Active \cup Terminal : Patch(c, new)
      <4>1. PICK c \in Client, new \in Active \cup Terminal : Patch(c, new)
        BY <3>1
      <4>2. request[c].id \in RestoreId /\ request[c].expected \in Active
        BY <4>1, RequestFields DEF IInv, TypeOK, Patch
      <4>3. CASE UNCHANGED alert
        BY <4>3
      <4>4. CASE Unchanged(c) /\ alert' = [alert EXCEPT ![request[c].id] = "ACTIVE"]
        BY <2>0, <4>2, <4>4 DEF Unchanged
      <4>5. QED
        BY <4>1, <4>3, <4>4 DEF Patch
    <3>2. CASE \E q \in RestoreId : OperatorCloses(q)
      BY <2>0, <3>2 DEF OperatorCloses
    <3>3. CASE UNCHANGED alert
      BY <3>3
    <3>4. QED
      BY <3>1, <3>2, <3>3
      DEF Next, vars, Step, AskCreate, AskDelete, AskPatch, Create, DeleteInstance, Accept,
          Administration, PatchJob, DeleteJob, UpsertRecord, BotStep, BotAsks, BotConfirms,
          BotPosts, BotGivesUp, Restart
  <2>5. QED
    BY <2>3, <2>4
<1>2. QED
  BY <1>1, Inductive, PTL DEF Spec, FinishedStaysFinished

====
