---- MODULE OfflineQueue ----
(***************************************************************************)
(* The agent's offline queue: the SQLite table that pipelines append to     *)
(* while the backend is unreachable (SqliteOfflineEventQueue.cs), and the   *)
(* hosted service that replays it (OfflineReplayHostedService.cs).          *)
(*                                                                          *)
(* The table survives the process; what the replay service knows of its     *)
(* pass does not.  Requests may be lost, may be executed without the agent  *)
(* learning it, and may be executed after the agent has given them up.      *)
(***************************************************************************)
EXTENDS Naturals

CONSTANTS
  Id,        \* row ids, AUTOINCREMENT (bounds the events put)
  Event,     \* the queued requests that are told apart
  NoEvent,   \* the event of a row id not given out yet
  Durable,   \* JobRunComplete and BackupRecordUpsert events
  Refused    \* requests the backend answers with a 4xx other than 409

ASSUME EventAssumption ==
  /\ NoEvent \notin Event
  /\ Durable \subseteq Event
  /\ Refused \subseteq Event

ASSUME IdAssumption == Id \subseteq Nat

VARIABLES
  event,     \* event[i]: type and payload of row i (what was inserted)
  table,     \* the rows in queued_events
  old,       \* the rows whose enqueued_at is before the eviction cutoff
  replay,    \* the replay service: its step, and the rows of this pass
  late,      \* rows whose request the agent gave up and the backend has not
             \* executed yet
  delivered  \* rows whose request the backend has executed

vars == <<event, table, old, replay, late, delivered>>

Step == {"down", "resting", "evicting", "sending", "sent", "handled", "acked"}

(* The row ids given out so far.                                            *)
Used == {i \in Id : event[i] # NoEvent}

(* The type invariant: rows that were given out, and a pass that works on     *)
(* rows that are there: nothing but the pass itself deletes them.            *)
TypeOK ==
  /\ event \in [Id -> Event \cup {NoEvent}]
  /\ table \subseteq Used
  /\ old \subseteq Used
  /\ replay \in [step: Step, rows: SUBSET table]
  /\ late \subseteq Used
  /\ delivered \subseteq Used

Init ==
  /\ event = [i \in Id |-> NoEvent]
  /\ table = {}
  /\ old = {}
  /\ replay = [step |-> "resting", rows |-> {}]
  /\ late = {}
  /\ delivered = {}

Running == replay.step # "down"
At(step) == replay.step = step
Goto(step, rows) == replay' = [step |-> step, rows |-> rows]

----
(* The table.                                                               *)

(* A pipeline or the heartbeat service found the backend unavailable.        *)
Enqueue(i, e) ==
  /\ Running
  /\ event[i] = NoEvent
  /\ \A j \in Id : j < i => event[j] # NoEvent
  /\ event' = [event EXCEPT ![i] = e]
  /\ table' = table \cup {i}
  /\ UNCHANGED <<old, replay, late, delivered>>

Ages(i) ==
  /\ i \in table \ old
  /\ old' = old \cup {i}
  /\ UNCHANGED <<event, table, replay, late, delivered>>

(* Variant: the age alone decides.                                          *)
ExpiredByAge == table \cap old

Expired == {i \in table \cap old : event[i] \notin Durable}

(* Variant: the rows come in no particular order.                           *)
FirstInAnyOrder(rows, i) == i \in rows

(* ORDER BY id ASC.                                                         *)
First(rows, i) == i \in rows /\ \A j \in rows : i <= j

----
(* A pass of the replay service: evict, read the pending rows, replay them   *)
(* in order and delete each one that is done.                               *)

SelectExpired ==
  /\ At("resting")
  /\ Goto("evicting", Expired)
  /\ UNCHANGED <<event, table, old, late, delivered>>

Evict(i) ==
  /\ At("evicting")
  /\ i \in replay.rows
  /\ table' = table \ {i}
  /\ Goto("evicting", replay.rows \ {i})
  /\ UNCHANGED <<event, old, late, delivered>>

GetPending ==
  /\ At("evicting") /\ replay.rows = {}
  /\ Goto("sending", table)
  /\ UNCHANGED <<event, table, old, late, delivered>>

Send(i) ==
  /\ At("sending")
  /\ First(replay.rows, i)
  /\ Goto("sent", replay.rows)
  /\ UNCHANGED <<event, table, old, late, delivered>>

(* Variant: the event is acknowledged before its answer is there.           *)
HandledWhenSent == {"sent", "handled"}

(* The backend answered; with 409 the run is taken to be over already.       *)
HandledSteps == {"handled"}

Receive(i) ==
  /\ replay.step \in HandledSteps
  /\ First(replay.rows, i)
  /\ event[i] \notin Refused
  /\ Goto("acked", replay.rows)
  /\ UNCHANGED <<event, table, old, late, delivered>>

(* Variant: the pass does not advance past the row it deleted.              *)
Unadvanced(rows, i) == rows

Rest(rows, i) == rows \ {i}

Delete(i) ==
  /\ At("acked")
  /\ First(replay.rows, i)
  /\ table' = table \ {i}
  /\ Goto("sending", Rest(replay.rows, i))
  /\ UNCHANGED <<event, old, late, delivered>>

EndPass ==
  /\ At("sending") /\ replay.rows = {}
  /\ Goto("resting", {})
  /\ UNCHANGED <<event, table, old, late, delivered>>

(* Variant: after an outage the pass goes on with the next row.             *)
SkipsAhead(i) == Goto("sending", replay.rows \ {i})

(* The retries are exhausted (BackendUnavailableException): the pass stops.  *)
StopsPass(i) == Goto("resting", {})

(* The request or its answer is lost, times out or is a 5xx: it is tried     *)
(* again, or given up for this pass.  The backend may still have it.         *)
AttemptFails(i) ==
  /\ replay.step \in {"sent", "handled"}
  /\ First(replay.rows, i)
  /\ Goto("sending", replay.rows) \/ StopsPass(i)
  /\ late' \in IF At("sent") THEN {late, late \cup {i}} ELSE {late}
  /\ UNCHANGED <<event, table, old, delivered>>

(* A 4xx other than 409 is an exception nobody catches: the host stops.      *)
HostStops(i) ==
  /\ At("handled")
  /\ First(replay.rows, i)
  /\ event[i] \in Refused
  /\ Goto("down", {})
  /\ UNCHANGED <<event, table, old, late, delivered>>

Crash ==
  /\ Running
  /\ Goto("down", {})
  /\ UNCHANGED <<event, table, old, late, delivered>>

Restart ==
  /\ At("down")
  /\ Goto("resting", {})
  /\ UNCHANGED <<event, table, old, late, delivered>>

----
(* The backend executes requests; one it refuses changes nothing there.      *)

Executed(i) == IF event[i] \in Refused THEN delivered ELSE delivered \cup {i}

Handle(i) ==
  /\ At("sent")
  /\ First(replay.rows, i)
  /\ delivered' = Executed(i)
  /\ Goto("handled", replay.rows)
  /\ UNCHANGED <<event, table, old, late>>

HandleLate(i) ==
  /\ i \in late
  /\ late' = late \ {i}
  /\ delivered' = Executed(i)
  /\ UNCHANGED <<event, table, old, replay>>

----
Next ==
  \/ \E i \in Id :
       \/ \E e \in Event : Enqueue(i, e)
       \/ Ages(i) \/ Evict(i) \/ Send(i) \/ Receive(i) \/ Delete(i) \/ AttemptFails(i)
       \/ HostStops(i) \/ Handle(i) \/ HandleLate(i)
  \/ SelectExpired \/ GetPending \/ EndPass \/ Crash \/ Restart

(* The service loops for as long as the process runs, the process is         *)
(* restarted, and neither crashes nor outages come in every time at the same *)
(* step.                                                                    *)
ReplayFairness ==
  /\ SF_vars(SelectExpired) /\ SF_vars(GetPending)
  /\ SF_vars(\E i \in Id : Evict(i)) /\ SF_vars(\E i \in Id : Send(i))
  /\ SF_vars(\E i \in Id : Handle(i)) /\ SF_vars(\E i \in Id : Receive(i) \/ HostStops(i))
  /\ SF_vars(\E i \in Id : Delete(i))
  /\ WF_vars(EndPass) /\ WF_vars(Restart)

Spec == Init /\ [][Next]_vars
FairSpec == Spec /\ ReplayFairness

----
(* Properties.                                                              *)

(* Neither eviction, nor a lost answer, nor a crash between the request and  *)
(* the DELETE loses a completion or a backup record: until the backend has   *)
(* executed it, its row is there.                                           *)
NothingLost ==
  \A i \in Id : event[i] \in Durable => i \in table \cup delivered

(* A row leaves the table only if no row before it is stuck there, unless it  *)
(* is evicted: a later event is never acknowledged before an earlier one.    *)
AcknowledgedInOrder ==
  [][\A i \in table \ table' :
       \/ event[i] \notin Durable /\ i \in old
       \/ \A j \in table : i <= j]_vars

(* Although requests that were given up may be executed later, an event is    *)
(* never executed before every durable event that was queued before it was.  *)
FirstDeliveryInOrder ==
  [][\A i \in delivered' \ delivered, j \in Id :
       j < i /\ event[j] \in Durable => j \in delivered]_vars

(* A durable event with no refused event before it gets through, whatever     *)
(* crashes and outages intervene.                                           *)
DeliveredUnlessBlocked ==
  \A i \in Id :
    (/\ i \in table /\ event[i] \in Durable
     /\ \A j \in table : j <= i => event[j] \notin Refused) ~> i \in delivered

(* What the README promises of completions and backup records: they are      *)
(* delivered once the backend is reachable again.  (Only those that the      *)
(* backend would accept are asked for.)                                     *)
DurableEventsGetThrough ==
  \A i \in Id : (i \in table /\ event[i] \in Durable \ Refused) ~> i \in delivered

Promise == INSTANCE DurableQueue

(* OfflineQueue keeps the promise of DurableQueue.                          *)
ImplementsDurableQueue == Promise!Spec

====
