---- MODULE FleetProofs ----
(***************************************************************************)
(* Proofs about Fleet.tla, for any number of overlapping requests and       *)
(* restarts and any assignable statuses.                                    *)
(***************************************************************************)
EXTENDS Fleet, TLAPS

(* What the worker saw is old as long as nobody was heard since: this is    *)
(* what the comparison of last_seen_at in its UPDATE buys.                  *)
UnheardIsStale == checked # NotChecking /\ server.seen = checked => server.stale

(* The inductive invariant.                                                 *)
IInv == TypeOK /\ UnheardIsStale /\ OfflineAlertMeansSilence /\ AlertsFollowHeartbeats

----
LEMMA StampFacts ==
  /\ 0 \in Stamp
  /\ NotChecking \notin Stamp
  /\ NotChecking # 0
  BY FleetAssumption DEF Stamp, NotChecking

LEMMA StatusFacts ==
  /\ Assignable \subseteq Status
  /\ "OFFLINE" \in Status /\ "ACTIVE" \in Status /\ "UNREACHABLE" \in Status
  BY FleetAssumption DEF Status

LEMMA WrittenFacts ==
  ASSUME server \in Server, NEW read, NEW new \in Status
  PROVE  Written(read, new) \in Status
  BY DEF Written, Server

LEMMA ReplyKeeps ==
  ASSUME request \in [Client -> Request], NEW c \in Client, Reply(c)
  PROVE  request' \in [Client -> Request]
  BY DEF Reply, Request

LEMMA ReceiveKeeps ==
  ASSUME IInv, NEW c \in Client, NEW kind \in {"heartbeat", "patch"}, Receive(c, kind)
  PROVE  IInv'
<1>1. [kind |-> kind, status |-> server.status] \in Request
  BY DEF IInv, TypeOK, Server, Request
<1>2. request' \in [Client -> Request]
  BY <1>1 DEF Receive, IInv, TypeOK
<1>3. QED
  BY <1>2 DEF Receive, IInv, TypeOK, UnheardIsStale, OfflineAlertMeansSilence,
              AlertsFollowHeartbeats

LEMMA HeartbeatKeeps ==
  ASSUME IInv, NEW c \in Client, NEW reachable \in BOOLEAN, NEW level \in Level \cup {"none"},
         Heartbeat(c, reachable, level)
  PROVE  IInv'
<1> DEFINE judged == disk = "active" /\ level \in Level \ {"unknown"}
           after == ServerAlerts(reachable, alerts)
<1>1. PICK now \in Stamp :
        /\ IsNow(now)
        /\ server' = [server EXCEPT !.seen = now, !.stale = FALSE,
                        !.status = StatusAfter(request[c].status, reachable)]
  BY DEF Heartbeat
<1>2. StatusAfter(request[c].status, reachable) \in Status
  BY WrittenFacts, StatusFacts DEF StatusAfter, IInv, TypeOK, Server
<1>3. server' \in Server /\ server'.seen = now /\ server'.stale = FALSE
  BY <1>1, <1>2 DEF IInv, TypeOK, Server
<1>4. now # checked
  BY <1>1 DEF IsNow
<1>5. /\ alerts' = IF judged THEN DiskAlerts(level, after) ELSE after
      /\ told' = [reachable |-> reachable, level |-> IF judged THEN level ELSE told.level]
      /\ UNCHANGED checked
  BY DEF Heartbeat
<1>6. /\ after \subseteq AlertType
      /\ "AGENT_OFFLINE" \notin after
      /\ "SERVER_UNREACHABLE" \in after => ~reachable
      /\ \A t \in {"DISK_SPACE_LOW", "DISK_SPACE_CRITICAL"} : t \in after <=> t \in alerts
  BY DEF ServerAlerts, IInv, TypeOK, AlertType
<1>7. /\ told'.reachable = reachable
      /\ told'.level = IF judged THEN level ELSE told.level
      /\ told' \in [reachable : BOOLEAN, level : Level]
  BY <1>5 DEF IInv, TypeOK, Level
<1>8. /\ alerts' \subseteq AlertType
      /\ "AGENT_OFFLINE" \notin alerts'
      /\ AlertsFollowHeartbeats'
  <2>1. CASE ~judged
    BY <2>1, <1>5, <1>6, <1>7 DEF IInv, AlertsFollowHeartbeats
  <2>2. CASE judged
    <3>1. alerts' = DiskAlerts(level, after) /\ told'.level = level
      BY <2>2, <1>5, <1>7
    <3>2. /\ \A t \in {"AGENT_OFFLINE", "SERVER_UNREACHABLE"} :
               t \in DiskAlerts(level, after) <=> t \in after
          /\ "DISK_SPACE_LOW" \in DiskAlerts(level, after) => level = "warning"
          /\ "DISK_SPACE_CRITICAL" \in DiskAlerts(level, after) => level = "critical"
          /\ DiskAlerts(level, after) \subseteq AlertType
      BY <1>6 DEF DiskAlerts, AlertType
    <3>3. QED
      BY <3>1, <3>2, <1>6, <1>7 DEF AlertsFollowHeartbeats
  <2>3. QED
    BY <2>1, <2>2
<1>9. disk' \in DiskState /\ request' \in [Client -> Request]
  BY ReplyKeeps DEF Heartbeat, IInv, TypeOK, DiskState
<1>10. TypeOK'
  BY <1>3, <1>7, <1>8, <1>9 DEF Heartbeat, IInv, TypeOK
<1>11. UnheardIsStale' /\ OfflineAlertMeansSilence'
  BY <1>3, <1>4, <1>5, <1>8 DEF UnheardIsStale, OfflineAlertMeansSilence
<1>12. QED
  BY <1>8, <1>10, <1>11 DEF IInv

LEMMA PatchServerKeeps ==
  ASSUME IInv, NEW c \in Client, NEW status \in Assignable, PatchServer(c, status)
  PROVE  IInv'
<1>1. Written(request[c].status, status) \in Status
  BY WrittenFacts, StatusFacts DEF IInv, TypeOK
<1>2. server' \in Server /\ server'.seen = server.seen /\ server'.stale = server.stale
  BY <1>1 DEF PatchServer, IInv, TypeOK, Server
<1>3. request' \in [Client -> Request]
  BY ReplyKeeps DEF PatchServer, IInv, TypeOK
<1>4. QED
  BY <1>2, <1>3 DEF PatchServer, IInv, TypeOK, UnheardIsStale, OfflineAlertMeansSilence,
                    AlertsFollowHeartbeats

LEMMA AdministrationKeeps ==
  ASSUME IInv, Administration
  PROVE  IInv'
<1>1. CASE DeleteServer
  <2>1. server' \in Server /\ server'.seen = server.seen /\ server'.stale = server.stale
    BY <1>1 DEF DeleteServer, IInv, TypeOK, Server
  <2>2. QED
    BY <1>1, <2>1 DEF DeleteServer, IInv, TypeOK, UnheardIsStale, OfflineAlertMeansSilence,
                      AlertsFollowHeartbeats
<1>2. CASE CreateDisk \/ \E state \in DiskState \ {"absent"} : PatchDisk(state)
  BY <1>2 DEF CreateDisk, PatchDisk, IInv, TypeOK, DiskState, UnheardIsStale,
              OfflineAlertMeansSilence, AlertsFollowHeartbeats
<1>3. CASE DeleteDisk
  <2>1. /\ told' \in [reachable : BOOLEAN, level : Level]
        /\ told'.reachable = told.reachable
    BY <1>3 DEF DeleteDisk, IInv, TypeOK, Level
  <2>2. QED
    BY <1>3, <2>1 DEF DeleteDisk, IInv, TypeOK, DiskState, UnheardIsStale,
                      OfflineAlertMeansSilence, AlertsFollowHeartbeats
<1>4. CASE \E type \in AlertType : OperatorClears(type)
  BY <1>4 DEF OperatorClears, IInv, TypeOK, UnheardIsStale, OfflineAlertMeansSilence,
              AlertsFollowHeartbeats
<1>5. QED
  BY <1>1, <1>2, <1>3, <1>4 DEF Administration

LEMMA NextIInv == IInv /\ [Next]_vars => IInv'
<1> SUFFICES ASSUME IInv, [Next]_vars PROVE IInv'
  OBVIOUS
<1>1. CASE Requests
  BY <1>1, ReceiveKeeps, HeartbeatKeeps, PatchServerKeeps
  DEF Requests, HeartbeatArrives, PatchArrives
<1>2. CASE FindsStale
  <2>1. checked' \in (Stamp \cup {NotChecking}) \ {0}
    BY <1>2 DEF FindsStale, LooksAt, IInv, TypeOK, Server
  <2>2. QED
    BY <1>2, <2>1 DEF FindsStale, IInv, TypeOK, UnheardIsStale, OfflineAlertMeansSilence,
                      AlertsFollowHeartbeats
<1>3. CASE MarkOffline
  <2>1. CASE StillSilent
    <3>1. server' = [server EXCEPT !.status = "OFFLINE"] /\ server.stale
      BY <1>3, <2>1 DEF MarkOffline, StillSilent, IInv, UnheardIsStale
    <3>2. server' \in Server /\ server'.stale
      BY <3>1, StatusFacts DEF IInv, TypeOK, Server
    <3>3. QED
      BY <1>3, <2>1, <3>2, StampFacts DEF MarkOffline, IInv, TypeOK, UnheardIsStale,
         OfflineAlertMeansSilence, AlertsFollowHeartbeats, AlertType
  <2>2. CASE ~StillSilent
    BY <1>3, <2>2, StampFacts DEF MarkOffline, IInv, TypeOK, UnheardIsStale,
       OfflineAlertMeansSilence, AlertsFollowHeartbeats
  <2>3. QED
    BY <2>1, <2>2
<1>4. CASE Administration
  BY <1>4, AdministrationKeeps
<1>5. CASE Silence
  <2>1. server' \in Server /\ server'.stale
    BY <1>5 DEF Silence, IInv, TypeOK, Server
  <2>2. QED
    BY <1>5, <2>1 DEF Silence, IInv, TypeOK, UnheardIsStale, OfflineAlertMeansSilence,
                      AlertsFollowHeartbeats
<1>6. CASE Restart
  <2>1. request' \in [Client -> Request] /\ restarts' \in 0 .. FaultLimit
    BY <1>6, FleetAssumption DEF Restart, Request, IInv, TypeOK
  <2>2. QED
    BY <1>6, <2>1, StampFacts DEF Restart, IInv, TypeOK, UnheardIsStale,
       OfflineAlertMeansSilence, AlertsFollowHeartbeats
<1>7. CASE UNCHANGED vars
  BY <1>7 DEF vars, IInv, TypeOK, UnheardIsStale, OfflineAlertMeansSilence,
              AlertsFollowHeartbeats
<1>8. QED
  BY <1>1, <1>2, <1>3, <1>4, <1>5, <1>6, <1>7 DEF Next

LEMMA InitIInv == Init => IInv
<1> SUFFICES ASSUME Init PROVE IInv
  OBVIOUS
<1>1. server \in Server /\ server.seen = 0 /\ server.stale
  BY StampFacts, StatusFacts DEF Init, Server
<1>2. /\ request \in [Client -> Request]
      /\ told \in [reachable : BOOLEAN, level : Level]
      /\ restarts \in 0 .. FaultLimit
  BY FleetAssumption DEF Init, Request, Level
<1>3. QED
  BY <1>1, <1>2, StampFacts DEF Init, IInv, TypeOK, DiskState, UnheardIsStale,
     OfflineAlertMeansSilence, AlertsFollowHeartbeats

(* The inductive invariant holds in every reachable state.                  *)
THEOREM Inductive == Spec => []IInv
  BY InitIInv, NextIInv, PTL DEF Spec

(* The rows are well formed, and the worker never decides about a server    *)
(* that was never seen.                                                     *)
THEOREM TypeCorrect == Spec => []TypeOK
<1>1. IInv => TypeOK
  BY DEF IInv
<1>2. QED
  BY <1>1, Inductive, PTL

(* No ACTIVE AGENT_OFFLINE alert for an agent that is heard, however the    *)
(* worker and heartbeats overlap.                                           *)
THEOREM OfflineMeansSilence == Spec => []OfflineAlertMeansSilence
<1>1. IInv => OfflineAlertMeansSilence
  BY DEF IInv
<1>2. QED
  BY <1>1, Inductive, PTL

(* The other alerts repeat what the last heartbeat said.                    *)
THEOREM AlertsFollow == Spec => []AlertsFollowHeartbeats
<1>1. IInv => AlertsFollowHeartbeats
  BY DEF IInv
<1>2. QED
  BY <1>1, Inductive, PTL

----
(* Only an administrator, or a request older than the DISABLED, makes a     *)
(* DISABLED server anything else.                                           *)
THEOREM DisabledRespected == Spec => DisabledIsRespected
<1>1. IInv /\ [Next]_vars =>
        [server.status = "DISABLED" /\ server'.status # "DISABLED" =>
           \E c \in Client : /\ request'[c] # request[c]
                             /\ request[c].kind = "patch" \/ request[c].status # "DISABLED"]_vars
  <2> SUFFICES ASSUME IInv, Next, server.status = "DISABLED", server'.status # "DISABLED"
               PROVE  \E c \in Client :
                        /\ request'[c] # request[c]
                        /\ request[c].kind = "patch" \/ request[c].status # "DISABLED"
    BY DEF vars
  <2>1. server \in Server /\ request \in [Client -> Request]
    BY DEF IInv, TypeOK
  <2>2. ASSUME NEW c \in Client, Reply(c), request[c].kind # "idle"
        PROVE  request'[c] # request[c]
    BY <2>1, <2>2 DEF Reply, Idle
  <2>3. CASE \E c \in Client, reachable \in BOOLEAN, level \in Level \cup {"none"} :
               Heartbeat(c, reachable, level)
    <3>1. PICK c \in Client, reachable \in BOOLEAN, level \in Level \cup {"none"} :
            Heartbeat(c, reachable, level)
      BY <2>3
    <3>2. request[c].status # "DISABLED"
      BY <2>1, <3>1 DEF Heartbeat, StatusAfter, Server
    <3>3. QED
      BY <2>2, <3>1, <3>2 DEF Heartbeat
  <2>4. CASE \E c \in Client, status \in Assignable : PatchServer(c, status)
    BY <2>2, <2>4 DEF PatchServer
  <2>5. CASE \E c \in Client : HeartbeatArrives(c) \/ PatchArrives(c)
    BY <2>5 DEF HeartbeatArrives, PatchArrives, Receive
  <2>6. CASE FindsStale \/ MarkOffline
    BY <2>1, <2>6 DEF FindsStale, MarkOffline, StillSilent
  <2>7. CASE Administration
    BY <2>1, <2>7 DEF Administration, DeleteServer, CreateDisk, PatchDisk, DeleteDisk,
                      OperatorClears, Server
  <2>8. CASE Silence \/ Restart
    BY <2>1, <2>8 DEF Silence, Restart, Server
  <2>9. QED
    BY <2>3, <2>4, <2>5, <2>6, <2>7, <2>8 DEF Next, Requests
<1>2. QED
  BY <1>1, Inductive, PTL DEF Spec, DisabledIsRespected

====
