---- MODULE Fleet ----
(***************************************************************************)
(* One server as the backend sees it: heartbeats (routers/agents.py), the   *)
(* worker's check_agent_offline (workers/alert_worker.py), administrators   *)
(* (routers/servers.py, routers/disks.py) and the alerts they raise and     *)
(* resolve.  Servers do not influence each other, so one is enough; of its  *)
(* disks one is modelled.                                                   *)
(*                                                                          *)
(* A handler reads the server row without a lock, and holds the write lock  *)
(* from its first UPDATE to the commit.  So a request is two steps: a read, *)
(* and one transaction that writes the columns whose new value differs from *)
(* the value READ; everything else it looks at is read inside the lock.     *)
(***************************************************************************)
EXTENDS Naturals

CONSTANTS
  Client,       \* requests in progress (bound: at a time)
  MaxStamp,     \* last_seen_at is one of 1 .. MaxStamp, 0 stands for NULL
  Assignable,   \* the statuses administrators assign
  FaultLimit    \* bound: restarts of the backend

ASSUME FleetAssumption ==
  /\ MaxStamp \in Nat
  /\ FaultLimit \in Nat
  /\ Assignable \subseteq {"ACTIVE", "DISABLED", "UNREACHABLE", "OFFLINE"}

VARIABLES
  server,     \* the servers row
  disk,       \* the disks row of the mount path: "absent" or its is_active
  alerts,     \* the ACTIVE alerts of the server and the disk
  request,    \* request[c]: a request between its read and its write
  checked,    \* last_seen_at as check_agent_offline read it, or NotChecking
  told,       \* what the last heartbeat, and its last judged disk level, said
  restarts

vars == <<server, disk, alerts, request, checked, told, restarts>>

Status == {"ACTIVE", "DISABLED", "UNREACHABLE", "OFFLINE"}
Stamp == 0 .. MaxStamp
NotChecking == MaxStamp + 1

(* stale: last_seen_at is NULL or older than the offline threshold.         *)
Server == [status : Status, seen : Stamp, stale : BOOLEAN, deleted : BOOLEAN]

DiskState == {"absent", "inactive", "active"}
AlertType == {"AGENT_OFFLINE", "SERVER_UNREACHABLE", "DISK_SPACE_LOW", "DISK_SPACE_CRITICAL"}

(* used_pct against the two thresholds; "unknown": no total size.           *)
Level == {"unknown", "normal", "warning", "critical"}

Idle == [kind |-> "idle", status |-> "ACTIVE"]
Request == [kind : {"heartbeat", "patch"}, status : Status] \cup {Idle}

Init ==
  /\ server = [status |-> "ACTIVE", seen |-> 0, stale |-> TRUE, deleted |-> FALSE]
  /\ disk = "absent"
  /\ alerts = {}
  /\ request = [c \in Client |-> Idle]
  /\ checked = NotChecking
  /\ told = [reachable |-> TRUE, level |-> "unknown"]
  /\ restarts = 0

(* A heartbeat's `now`.  Only whether last_seen_at still is what the worker *)
(* read matters, so a stamp that nobody holds is used again.                *)
IsNow(s) ==
  LET held == {0, server.seen, checked} IN
  s \notin held /\ \A q \in Stamp : q < s => q \in held

Receive(c, kind) ==
  /\ request[c] = Idle
  /\ request' = [request EXCEPT ![c] = [kind |-> kind, status |-> server.status]]
  /\ UNCHANGED <<server, disk, alerts, checked, told, restarts>>

Reply(c) == request' = [request EXCEPT ![c] = Idle]

(* The ORM writes a column only when its new value is not the one it read.  *)
Written(read, new) == IF new # read THEN new ELSE server.status

----
(* agent_heartbeat.                                                         *)

HeartbeatArrives(c) == Receive(c, "heartbeat")

(* A DISABLED server is not brought back; it is only marked as seen.        *)
StatusAfter(read, reachable) ==
  IF read = "DISABLED" THEN server.status
  ELSE Written(read, IF reachable THEN "ACTIVE" ELSE "UNREACHABLE")

(* Variant: raising one of the two alerts forgets the other.                *)
DiskAlertsKept(level, before) ==
  CASE level = "critical" -> before \cup {"DISK_SPACE_CRITICAL"}
    [] level = "warning"  -> before \cup {"DISK_SPACE_LOW"}
    [] OTHER              -> before \ {"DISK_SPACE_LOW", "DISK_SPACE_CRITICAL"}

(* Each level raises its alert and resolves the other one.                  *)
DiskAlerts(level, before) ==
  (before \ {"DISK_SPACE_LOW", "DISK_SPACE_CRITICAL"}) \cup
    CASE level = "critical" -> {"DISK_SPACE_CRITICAL"}
      [] level = "warning"  -> {"DISK_SPACE_LOW"}
      [] OTHER              -> {}

(* Any heartbeat proves the agent alive; `reachable` decides the other      *)
(* alert of the server.                                                     *)
ServerAlerts(reachable, before) ==
  (before \ {"AGENT_OFFLINE", "SERVER_UNREACHABLE"}) \cup
    (IF reachable THEN {} ELSE {"SERVER_UNREACHABLE"})

(* The transaction of a heartbeat; `level` is the reported usage of the     *)
(* disk, or "none" when the payload does not list it.  A disk nobody knew   *)
(* is created inactive, and only an active one with a size is judged.       *)
Heartbeat(c, reachable, level) ==
  LET judged == disk = "active" /\ level \in Level \ {"unknown"}
      after == ServerAlerts(reachable, alerts) IN
  /\ request[c].kind = "heartbeat"
  /\ \E now \in Stamp :
       /\ IsNow(now)
       /\ server' = [server EXCEPT !.seen = now, !.stale = FALSE,
                       !.status = StatusAfter(request[c].status, reachable)]
  /\ disk' = IF disk = "absent" /\ level # "none" THEN "inactive" ELSE disk
  /\ alerts' = IF judged THEN DiskAlerts(level, after) ELSE after
  /\ told' = [reachable |-> reachable, level |-> IF judged THEN level ELSE told.level]
  /\ Reply(c)
  /\ UNCHANGED <<checked, restarts>>

----
(* check_agent_offline.                                                     *)

(* Variants: servers reported unreachable are left out, or servers that     *)
(* were never seen are not.                                                 *)
LooksAtActive == ~server.deleted /\ server.status = "ACTIVE" /\ server.seen # 0
LooksAtNeverSeen == ~server.deleted /\ server.status \notin {"DISABLED", "OFFLINE"}

(* A server that is deleted, DISABLED, OFFLINE already, or was never seen   *)
(* is left out.                                                             *)
LooksAt == ~server.deleted /\ server.status \notin {"DISABLED", "OFFLINE"} /\ server.seen # 0

(* The worker reads the row and finds last_seen_at too old.                 *)
FindsStale ==
  /\ checked = NotChecking
  /\ LooksAt /\ server.stale
  /\ checked' = server.seen
  /\ UNCHANGED <<server, disk, alerts, request, told, restarts>>

(* Variants: the UPDATE forgets one of its conditions.                      *)
StillSilentUnlessDisabled == server.status # "DISABLED"
StillSilentWhateverStatus == server.seen = checked

(* The WHERE clause of the worker's UPDATE; is_deleted is not in it.        *)
StillSilent == server.seen = checked /\ server.status # "DISABLED"

(* OFFLINE and its alert, in one transaction, or nothing.                   *)
MarkOffline ==
  /\ checked # NotChecking
  /\ IF StillSilent
     THEN /\ server' = [server EXCEPT !.status = "OFFLINE"]
          /\ alerts' = alerts \cup {"AGENT_OFFLINE"}
     ELSE UNCHANGED <<server, alerts>>
  /\ checked' = NotChecking
  /\ UNCHANGED <<disk, request, told, restarts>>

----
(* Administrators.                                                          *)

(* PATCH of a server: 409 when the row read is deleted ...                  *)
PatchArrives(c) == ~server.deleted /\ Receive(c, "patch")

(* ... and then the new status, by then perhaps to a deleted server.        *)
PatchServer(c, status) ==
  /\ request[c].kind = "patch"
  /\ server' = [server EXCEPT !.status = Written(request[c].status, status)]
  /\ Reply(c)
  /\ UNCHANGED <<disk, alerts, checked, told, restarts>>

(* Soft delete; refused while an enabled job refers to the server (jobs are *)
(* not in this model).                                                      *)
DeleteServer ==
  /\ ~server.deleted
  /\ server' = [server EXCEPT !.deleted = TRUE]
  /\ UNCHANGED <<disk, alerts, request, checked, told, restarts>>

(* A disk is created active, refused for a deleted server and for a mount   *)
(* path that exists.                                                        *)
CreateDisk ==
  /\ disk = "absent" /\ ~server.deleted
  /\ disk' = "active"
  /\ UNCHANGED <<server, alerts, request, checked, told, restarts>>

(* is_active of a disk; its alerts stay as they are.                        *)
PatchDisk(state) ==
  /\ disk # "absent"
  /\ disk' = state
  /\ UNCHANGED <<server, alerts, request, checked, told, restarts>>

(* The foreign key of the disk's alerts becomes NULL: nothing finds them    *)
(* again.  (A disk that a backup job refers to cannot be deleted.)          *)
DeleteDisk ==
  /\ disk # "absent"
  /\ disk' = "absent"
  /\ alerts' = alerts \ {"DISK_SPACE_LOW", "DISK_SPACE_CRITICAL"}
  /\ told' = [told EXCEPT !.level = "unknown"]
  /\ UNCHANGED <<server, request, checked, restarts>>

(* An administrator acknowledges or resolves an alert: no handler counts it *)
(* as ACTIVE from then on.                                                  *)
OperatorClears(type) ==
  /\ type \in alerts
  /\ alerts' = alerts \ {type}
  /\ UNCHANGED <<server, disk, request, checked, told, restarts>>

----
(* Time, and the end of the process.                                        *)

Silence ==
  /\ ~server.stale
  /\ server' = [server EXCEPT !.stale = TRUE]
  /\ UNCHANGED <<disk, alerts, request, checked, told, restarts>>

Restart ==
  /\ restarts < FaultLimit
  /\ restarts' = restarts + 1
  /\ request' = [c \in Client |-> Idle]
  /\ checked' = NotChecking
  /\ UNCHANGED <<server, disk, alerts, told>>

Requests ==
  \E c \in Client :
    \/ HeartbeatArrives(c)
    \/ \E reachable \in BOOLEAN, level \in Level \cup {"none"} : Heartbeat(c, reachable, level)
    \/ PatchArrives(c)
    \/ \E status \in Assignable : PatchServer(c, status)

Administration ==
  \/ DeleteServer
  \/ CreateDisk
  \/ \E state \in DiskState \ {"absent"} : PatchDisk(state)
  \/ DeleteDisk
  \/ \E type \in AlertType : OperatorClears(type)

Next ==
  \/ Requests
  \/ FindsStale
  \/ MarkOffline
  \/ Administration
  \/ Silence
  \/ Restart

Spec == Init /\ [][Next]_vars

(* The worker ticks for as long as the backend runs.  That every tick ends  *)
(* is taken for granted: a tick also awaits the sweep of the verifications, *)
(* which may hang in a query for good (Verification).                       *)
FairSpec == Spec /\ WF_vars(FindsStale) /\ WF_vars(MarkOffline)

----
(* Properties.                                                              *)

(* The type invariant; the worker never decides about a server that was     *)
(* never seen.                                                              *)
TypeOK ==
  /\ server \in Server
  /\ disk \in DiskState
  /\ alerts \subseteq AlertType
  /\ request \in [Client -> Request]
  /\ checked \in (Stamp \cup {NotChecking}) \ {0}
  /\ told \in [reachable : BOOLEAN, level : Level]
  /\ restarts \in 0 .. FaultLimit

(* An agent is reported offline only while it is silent: whatever overlaps, *)
(* no ACTIVE AGENT_OFFLINE alert outlives a heartbeat, and none is raised   *)
(* for a server that sent one since the worker looked.                      *)
OfflineAlertMeansSilence == "AGENT_OFFLINE" \in alerts => server.stale

(* What is ACTIVE is what the last heartbeat said: SERVER_UNREACHABLE only  *)
(* if it was unreachable, and of the two disk alerts at most the one of the *)
(* last level judged, across escalation, recovery and periods in which the  *)
(* disk is inactive or not reported.                                        *)
AlertsFollowHeartbeats ==
  /\ "SERVER_UNREACHABLE" \in alerts => ~told.reachable
  /\ "DISK_SPACE_LOW" \in alerts => told.level = "warning"
  /\ "DISK_SPACE_CRITICAL" \in alerts => told.level = "critical"

(* A DISABLED server stays so until an administrator changes it, or until a *)
(* request that read the row before it was disabled writes: neither the     *)
(* worker nor a heartbeat that arrives later brings it back.                *)
DisabledIsRespected ==
  [][server.status = "DISABLED" /\ server'.status # "DISABLED" =>
       \E c \in Client : /\ request'[c] # request[c]
                         /\ request[c].kind = "patch" \/ request[c].status # "DISABLED"]_vars

(* An agent that falls silent is reported: the alert is raised unless the   *)
(* agent is heard again, or the server is disabled or deleted (statuses set *)
(* to OFFLINE by hand aside, see Assignable).  It must not be OFFLINE yet:  *)
(* a heartbeat that read ACTIVE and overlaps the worker resolves the alert  *)
(* and leaves OFFLINE alone, and such a server is never looked at again.    *)
(* (Given that the ticks before end, see FairSpec.)                         *)
SilenceIsReported ==
  /\ server.stale /\ server.seen # 0 /\ ~server.deleted
  /\ server.status \in {"ACTIVE", "UNREACHABLE"}
  ~> \/ "AGENT_OFFLINE" \in alerts
     \/ ~server.stale \/ server.deleted
     \/ server.status = "DISABLED"

====
