---- MODULE Restores ----
(***************************************************************************)
(* Restore operations: routers/restore_operations.py, the SQL instances     *)
(* they go to (routers/sql_instances.py), the backup record they start from *)
(* (routers/backup_records.py) and the Telegram bot's confirmation dialogue *)
(* (bot/handlers/restore.py).                                               *)
(*                                                                          *)
(* One backup job with one record, one database name: others do not meet.   *)
(* Nothing in the repository carries a restore out; PATCH reports progress. *)
(* A request is two steps: its reads and checks, and the transaction that   *)
(* holds SQLite's write lock from its first INSERT or UPDATE to the commit. *)
(***************************************************************************)
EXTENDS Naturals

CONSTANTS
  Instance,     \* rows of sql_instances
  NoInstance,   \* sql_instance_id IS NULL
  MaxRestore,   \* bound: how many restore operations the table can hold
  Client        \* requests in progress (bound: at a time)

ASSUME RestoresAssumption ==
  /\ NoInstance \notin Instance
  /\ MaxRestore \in Nat

RestoreId == 1 .. MaxRestore

VARIABLES
  restores,   \* the restore_operations table
  deleted,    \* the SQL instances with is_deleted
  job,        \* the backup job: sql_instance_id, is_enabled, or gone
  recorded,   \* the backup record exists
  alert,      \* alert[r]: the RESTORE_FAILED alert of restore r
  request,    \* request[c]: a request between its checks and its write
  bot,        \* the bot's dialogue and the instance it showed the user
  current     \* the job's instances since the bot's re-check (history)

vars == <<restores, deleted, job, recorded, alert, request, bot, current>>

Active == {"PENDING", "RUNNING"}
Terminal == {"DONE", "FAILED", "CANCELLED"}

NoRow == [status |-> "ABSENT", instance |-> NoInstance]
Row == [status : Active \cup Terminal, instance : Instance] \cup {NoRow}

(* The job is deleted with status "gone".                                   *)
Job == [status : {"on", "off", "gone"}, instance : Instance \cup {NoInstance}]

Idle == [kind |-> "idle"]
Request ==
  {Idle}
  \cup [kind : {"create", "bot create", "delete"}, instance : Instance]
  \cup [kind : {"patch"}, id : RestoreId, expected : Active]

Creating == {"create", "bot create"}

Silent == [pc |-> "idle", instance |-> NoInstance]
Dialogue == {Silent} \cup [pc : {"asked", "checked"}, instance : Instance]

(* An alert is ACTIVE until it is resolved, or acknowledged by an operator. *)
AlertState == {"none", "ACTIVE", "closed"}

Init ==
  /\ restores = [r \in RestoreId |-> NoRow]
  /\ deleted = {}
  /\ job \in {j \in Job : j.status = "on"}
  /\ recorded = FALSE
  /\ alert = [r \in RestoreId |-> "none"]
  /\ request = [c \in Client |-> Idle]
  /\ bot = Silent
  /\ current = {}

----
(* The rows.                                                                *)

(* Variant: without the partial unique index.                               *)
InsertAllowedTwice(i) == recorded

(* uq_restore_operations_active_per_instance_db and the foreign key.        *)
InsertAllowed(i) ==
  /\ recorded
  /\ \A r \in RestoreId : restores[r].instance = i => restores[r].status \notin Active

(* Rows are appended: autoincrement.                                        *)
IsNext(r) == restores[r] = NoRow /\ \A q \in RestoreId : q < r => restores[q] # NoRow

(* Variant: without the rule on CANCELLED.                                  *)
AnyTransition(old, new) == TRUE

(* is_valid_transition, for an old status that is not terminal.             *)
ValidTransition(old, new) == new = "CANCELLED" => old = "PENDING"

----
(* The handlers that check first and write later.                           *)

Accept(c, r) ==
  /\ request[c] = Idle
  /\ request' = [request EXCEPT ![c] = r]
  /\ UNCHANGED <<restores, deleted, job, recorded, alert>>

(* A request of the bot's is being served; it outlives a restart of the bot.*)
BotIsServed == \E c \in Client : request[c].kind = "bot create"

Reply(c) == request' = [request EXCEPT ![c] = Idle]

(* create_restore_operation: the record and a live instance, or 404 / 409.  *)
CreateChecks(i) == recorded /\ i \notin deleted

AskCreate(c, i) ==
  /\ CreateChecks(i)
  /\ Accept(c, [kind |-> "create", instance |-> i])
  /\ UNCHANGED <<bot, current>>

(* The INSERT, or an IntegrityError that becomes 409.                       *)
Create(c) ==
  /\ request[c].kind \in Creating
  /\ \/ /\ ~InsertAllowed(request[c].instance)
        /\ UNCHANGED restores
     \/ /\ InsertAllowed(request[c].instance)
        /\ \E r \in RestoreId :
             /\ IsNext(r)
             /\ restores' = [restores EXCEPT
                  ![r] = [status |-> "PENDING", instance |-> request[c].instance]]
  /\ Reply(c)
  /\ current' = IF request[c].kind = "bot create" THEN {} ELSE current
  /\ UNCHANGED <<deleted, job, recorded, alert, bot>>

(* update_restore_operation: a finished restore is refused.                 *)
AskPatch(c, r) ==
  /\ restores[r].status \in Active
  /\ Accept(c, [kind |-> "patch", id |-> r, expected |-> restores[r].status])
  /\ UNCHANGED <<bot, current>>

(* Variant: an UPDATE by id only.                                           *)
StillThere(c) == restores[request[c].id] # NoRow

(* The compare-and-set: the UPDATE finds the status the checks saw.         *)
Unchanged(c) == restores[request[c].id].status = request[c].expected

Patch(c, new) ==
  /\ request[c].kind = "patch"
  /\ ValidTransition(request[c].expected, new)
  /\ \/ /\ ~Unchanged(c)
        /\ UNCHANGED <<restores, alert>>
     \/ /\ Unchanged(c)
        /\ restores' = [restores EXCEPT ![request[c].id].status = new]
        /\ alert' = IF new = "FAILED" THEN [alert EXCEPT ![request[c].id] = "ACTIVE"]
                  ELSE alert
  /\ Reply(c)
  /\ UNCHANGED <<deleted, job, recorded, bot, current>>

(* delete_sql_instance: refused while an enabled job or an open restore     *)
(* uses the instance (or a verification: Verification.tla has those).       *)
AskDelete(c, i) ==
  /\ i \notin deleted
  /\ ~(job.status = "on" /\ job.instance = i)
  /\ \A r \in RestoreId : restores[r].instance = i => restores[r].status \notin Active
  /\ Accept(c, [kind |-> "delete", instance |-> i])
  /\ UNCHANGED <<bot, current>>

DeleteInstance(c) ==
  /\ request[c].kind = "delete"
  /\ deleted' = deleted \cup {request[c].instance}
  /\ Reply(c)
  /\ UNCHANGED <<restores, job, recorded, alert, bot, current>>

----
(* The handlers whose transaction does not depend on an earlier read.       *)

(* update_backup_job: any existing instance, also a deleted one.            *)
PatchJob(i, s) ==
  /\ job.status # "gone"
  /\ [status |-> s, instance |-> i] # job
  /\ job' = [status |-> s, instance |-> i]
  /\ current' = IF bot.pc = "checked" \/ BotIsServed
                THEN current \cup {i} ELSE current
  /\ UNCHANGED <<restores, deleted, recorded, alert, request, bot>>

(* delete_backup_job: the record goes too (CASCADE) unless a restore, even  *)
(* a finished one, refers to it (RESTRICT).  Job runs are not in this model.*)
DeleteJob ==
  /\ job.status # "gone"
  /\ \A r \in RestoreId : restores[r] = NoRow
  /\ job' = [job EXCEPT !.status = "gone"]
  /\ recorded' = FALSE
  /\ UNCHANGED <<restores, deleted, alert, request, bot, current>>

(* upsert_backup_record: an existing record stays the same record.          *)
UpsertRecord ==
  /\ job.status # "gone"
  /\ ~recorded
  /\ recorded' = TRUE
  /\ UNCHANGED <<restores, deleted, job, alert, request, bot, current>>

(* acknowledge_alert and resolve_alert; nothing else closes this alert.     *)
OperatorCloses(r) ==
  /\ alert[r] = "ACTIVE"
  /\ alert' = [alert EXCEPT ![r] = "closed"]
  /\ UNCHANGED <<restores, deleted, job, recorded, request, bot, current>>

(* A restart of the backend drops the requests it had accepted.             *)
Restart ==
  /\ request' = [c \in Client |-> Idle]
  /\ current' = IF bot.pc = "checked" THEN current ELSE {}
  /\ UNCHANGED <<restores, deleted, job, recorded, alert, bot>>

----
(* The bot, in one chat.  It handles one update after the other.            *)

(* /restore: names the job's instance and asks for a confirmation.          *)
BotAsks ==
  /\ bot = Silent
  /\ recorded
  /\ job.instance # NoInstance
  /\ bot' = [pc |-> "asked", instance |-> job.instance]
  /\ UNCHANGED <<restores, deleted, job, recorded, alert, request, current>>

(* Variant: the instance of the job is not resolved again.                  *)
StillRecorded == recorded

(* confirm_restore: the pending entry is cleared whatever follows, and the  *)
(* job is read again; a record that is gone or a moved job ends the matter. *)
StillTheJobs == recorded /\ job.instance = bot.instance

BotConfirms ==
  /\ bot.pc = "asked"
  /\ ~BotIsServed
  /\ \/ /\ ~StillTheJobs
        /\ bot' = Silent
        /\ UNCHANGED current
     \/ /\ StillTheJobs
        /\ bot' = [bot EXCEPT !.pc = "checked"]
        /\ current' = {job.instance}
  /\ UNCHANGED <<restores, deleted, job, recorded, alert, request>>

(* POST /api/restore-operations for the instance of the pending entry.      *)
BotPosts ==
  /\ bot.pc = "checked"
  /\ bot' = Silent
  /\ \/ /\ ~CreateChecks(bot.instance)
        /\ current' = {}
        /\ UNCHANGED <<restores, deleted, job, recorded, alert, request>>
     \/ /\ CreateChecks(bot.instance)
        /\ \E c \in Client : Accept(c, [kind |-> "bot create", instance |-> bot.instance])
        /\ UNCHANGED current

(* /cancel, an expired or too often mistyped confirmation, an API error, a  *)
(* restart of the bot: nothing is kept.                                     *)
BotGivesUp ==
  /\ bot # Silent
  /\ bot' = Silent
  /\ current' = IF BotIsServed THEN current ELSE {}
  /\ UNCHANGED <<restores, deleted, job, recorded, alert, request>>

BotStep == BotAsks \/ BotConfirms \/ BotPosts \/ BotGivesUp

----
Step(c) ==
  \/ \E i \in Instance : AskCreate(c, i) \/ AskDelete(c, i)
  \/ \E r \in RestoreId : AskPatch(c, r)
  \/ \E new \in Active \cup Terminal : Patch(c, new)
  \/ Create(c)
  \/ DeleteInstance(c)

Administration ==
  \/ \E i \in Instance \cup {NoInstance}, s \in {"on", "off"} : PatchJob(i, s)
  \/ DeleteJob
  \/ UpsertRecord
  \/ \E r \in RestoreId : OperatorCloses(r)

Next ==
  \/ \E c \in Client : Step(c)
  \/ Administration
  \/ BotStep
  \/ Restart

Spec == Init /\ [][Next]_vars

----
(* Properties.                                                              *)

(* The type invariant, with what ties the tables together: a restore keeps  *)
(* its record and the record its job, and FAILED restores, and only they,   *)
(* have had an alert.                                                       *)
TypeOK ==
  /\ restores \in [RestoreId -> Row]
  /\ deleted \subseteq Instance
  /\ job \in Job
  /\ recorded \in BOOLEAN
  /\ alert \in [RestoreId -> AlertState]
  /\ request \in [Client -> Request]
  /\ bot \in Dialogue
  /\ current \subseteq Instance \cup {NoInstance}
  /\ (\E r \in RestoreId : restores[r] # NoRow) => recorded
  /\ recorded => job.status # "gone"
  /\ \A r \in RestoreId : restores[r].status = "FAILED" <=> alert[r] # "none"

(* schemas/restore_operation.py: "RUNNING can never transition to           *)
(* CANCELLED".  Two PATCHes of one restore may overlap: the one that read   *)
(* PENDING must not cancel what the other has put to RUNNING.               *)
NoCancelWhileRunning ==
  [][\A r \in RestoreId :
       restores[r].status = "RUNNING" => restores'[r].status # "CANCELLED"]_vars

(* What the bot has created goes to an instance that was the job's at some  *)
(* time after the user confirmed it, and never to one that the job had left *)
(* before: the comment in confirm_restore on a "frozen, possibly-wrong      *)
(* sql_instance_id".                                                        *)
BotRestoresCurrentInstance ==
  [][\A r \in RestoreId :
       restores[r] = NoRow /\ restores'[r] # NoRow /\ BotIsServed /\ ~BotIsServed'
         => restores'[r].instance \in current]_vars

(* Restores have the life cycle of RunLifecycle, an instance in the place   *)
(* of the job: one open restore per instance and database, and an outcome   *)
(* that is final.  A RUNNING restore may be put back to PENDING, so both    *)
(* count as waiting.                                                        *)
Phase(r) ==
  CASE restores[r].status = "ABSENT" -> "absent"
    [] restores[r].status \in Active -> "waiting"
    [] OTHER -> restores[r].status

Lifecycle == INSTANCE RunLifecycle WITH
  Job <- Instance,
  NoJob <- NoInstance,
  RunId <- RestoreId,
  Outcome <- Terminal,
  phase <- [r \in RestoreId |-> Phase(r)],
  owner <- [r \in RestoreId |-> restores[r].instance],
  taken <- {}

ImplementsLifecycle == Lifecycle!Spec

====
