---- MODULE DurableQueue ----
(***************************************************************************)
(* What the agent's offline queue promises about the events put into it:    *)
(* a durable event stays until the backend has executed it, and the backend *)
(* executes an event for the first time only after every durable event that *)
(* was put before it.  Events that are not durable may be given up.         *)
(***************************************************************************)
EXTENDS Naturals

CONSTANTS
  Id,        \* the order in which events are put
  Event,     \* what an event may be
  NoEvent,   \* the event of an id that is not in use yet
  Durable    \* the events that must survive until they are executed

VARIABLES
  event,     \* event[i]: the event put with id i
  table,     \* the ids whose events are stored
  delivered  \* the ids whose events the backend has executed at least once

vars == <<event, table, delivered>>

Init ==
  /\ event = [i \in Id |-> NoEvent]
  /\ table = {}
  /\ delivered = {}

Put(i, e) ==
  /\ event[i] = NoEvent
  /\ \A j \in Id : j < i => event[j] # NoEvent
  /\ event' = [event EXCEPT ![i] = e]
  /\ table' = table \cup {i}
  /\ UNCHANGED delivered

Deliver(i) ==
  /\ event[i] # NoEvent
  /\ \A j \in Id : j < i /\ event[j] \in Durable => j \in delivered
  /\ delivered' = delivered \cup {i}
  /\ UNCHANGED <<event, table>>

Drop(i) ==
  /\ i \in table
  /\ event[i] \in Durable => i \in delivered
  /\ table' = table \ {i}
  /\ UNCHANGED <<event, delivered>>

Next == \E i \in Id : (\E e \in Event : Put(i, e)) \/ Deliver(i) \/ Drop(i)

Spec == Init /\ [][Next]_vars

====
