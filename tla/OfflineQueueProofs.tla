---- MODULE OfflineQueueProofs ----
(***************************************************************************)
(* Theorems about OfflineQueue, for any number of rows and whatever the      *)
(* events are.  NothingLost and the order of first deliveries are not        *)
(* inductive: they rest on what the replay service and the requests it gave  *)
(* up imply about the rows before the one being sent.                        *)
(***************************************************************************)
EXTENDS OfflineQueue, TLAPS

(* Every durable event before row i was executed.                           *)
PriorDelivered(i) == \A j \in Id : j < i /\ event[j] \in Durable => j \in delivered

(* In the replaying part of a pass, what comes before a row of the pass is    *)
(* itself in the pass or was executed.                                      *)
PassIsComplete ==
  replay.step \in {"sending", "sent", "handled", "acked"} =>
    \A i \in replay.rows, j \in Id :
      j < i /\ event[j] \in Durable => j \in replay.rows \cup delivered

(* A row is acknowledged only after it was executed.                        *)
AckedWasDelivered ==
  \A i \in Id : First(replay.rows, i) =>
    /\ At("acked") => i \in delivered
    /\ At("handled") => i \in delivered \/ event[i] \in Refused

(* Eviction only selects rows that may be lost.                             *)
EvictedMayBeLost == At("evicting") => \A i \in replay.rows : event[i] \notin Durable

(* A request that was given up was the first of its pass.                   *)
LateWasFirst == \A i \in late : PriorDelivered(i)

(* Ids are given out in increasing order.                                   *)
IdsInOrder == \A i \in Used, j \in Id : j < i => j \in Used

IInv ==
  /\ TypeOK
  /\ IdsInOrder
  /\ NothingLost
  /\ PassIsComplete
  /\ AckedWasDelivered
  /\ EvictedMayBeLost
  /\ LateWasFirst

LEMMA InitIInv == Init => IInv
<1> SUFFICES ASSUME Init PROVE IInv
  OBVIOUS
<1>1. TypeOK
  BY DEF Init, TypeOK, Step, Used
<1>2. NothingLost /\ IdsInOrder
  BY EventAssumption DEF Init, NothingLost, IdsInOrder, Used
<1>3. PassIsComplete /\ AckedWasDelivered /\ EvictedMayBeLost /\ LateWasFirst
  BY DEF Init, PassIsComplete, AckedWasDelivered, First, At, EvictedMayBeLost, LateWasFirst
<1> QED
  BY <1>1, <1>2, <1>3 DEF IInv

(* The first row of a pass has nothing undelivered before it, and it is the  *)
(* only first row.                                                          *)
LEMMA FirstHasPrior ==
  ASSUME IInv, NEW i \in Id, First(replay.rows, i),
         replay.step \in {"sending", "sent", "handled", "acked"}
  PROVE  PriorDelivered(i) /\ i \in replay.rows
<1>1. i \in replay.rows /\ \A j \in replay.rows : i <= j
  BY DEF First
<1>2. \A j \in Id : j < i => j \notin replay.rows
  BY <1>1, IdAssumption
<1> QED
  BY <1>1, <1>2 DEF IInv, PassIsComplete, PriorDelivered

LEMMA FirstIsOne ==
  ASSUME NEW rows, NEW i \in Id, NEW j \in Id, First(rows, i), First(rows, j)
  PROVE  i = j
BY IdAssumption DEF First

(* A new row comes after all others.                                        *)
LEMMA EnqueueKeeps ==
  ASSUME IInv, NEW i \in Id, NEW e \in Event, Enqueue(i, e)
  PROVE  IInv'
<1>1. event \in [Id -> Event \cup {NoEvent}] /\ i \notin Used /\ e # NoEvent
  BY EventAssumption DEF IInv, TypeOK, Enqueue, Used
<1>2. event'[i] = e /\ \A j \in Id : j # i => event'[j] = event[j]
  BY <1>1 DEF Enqueue
<1>3. Used' = Used \cup {i}
  BY <1>1, <1>2 DEF Used
<1>4. TypeOK'
  <2>1. event' \in [Id -> Event \cup {NoEvent}]
    BY <1>1 DEF Enqueue
  <2>2. replay' \in [step: Step, rows: SUBSET table']
    BY DEF IInv, TypeOK, Enqueue
  <2> QED
    BY <1>3, <2>1, <2>2 DEF IInv, TypeOK, Enqueue
<1>5. NothingLost'
  BY <1>2 DEF IInv, NothingLost, Enqueue
<1>6. \A j \in Used : j < i
  BY <1>1, IdAssumption DEF IInv, IdsInOrder, Used
<1>7. IdsInOrder'
  BY <1>3 DEF IInv, IdsInOrder, Enqueue, Used
<1>8. \A j \in Used, k \in Id : k < j /\ event'[k] \in Durable => event[k] \in Durable
  BY <1>2, <1>6, IdAssumption DEF Used
<1>9. /\ replay' = replay /\ late' = late /\ delivered' = delivered
      /\ replay.rows \subseteq Used /\ late \subseteq Used
  BY DEF Enqueue, IInv, TypeOK
<1>10. PassIsComplete'
  BY <1>8, <1>9 DEF IInv, PassIsComplete
<1>11. AckedWasDelivered'
  <2> SUFFICES ASSUME NEW j \in Id, First(replay.rows, j)
               PROVE  /\ At("acked") => j \in delivered
                      /\ At("handled") => j \in delivered \/ event'[j] \in Refused
    BY <1>9 DEF AckedWasDelivered, First, At
  <2>1. event'[j] = event[j]
    BY <1>1, <1>2, <1>9 DEF Used, First
  <2> QED
    BY <2>1 DEF IInv, AckedWasDelivered
<1>12. EvictedMayBeLost'
  <2>1. \A j \in replay.rows : event'[j] = event[j]
    BY <1>1, <1>2, <1>9 DEF Used
  <2> QED
    BY <1>9, <2>1 DEF IInv, EvictedMayBeLost, At
<1>13. LateWasFirst'
  BY <1>8, <1>9 DEF IInv, LateWasFirst, PriorDelivered
<1> QED
  BY <1>4, <1>5, <1>7, <1>10, <1>11, <1>12, <1>13 DEF IInv

(* Steps that put no row leave the ids alone.                               *)
LEMMA UsedKept ==
  ASSUME IInv, event' = event
  PROVE  Used' = Used /\ IdsInOrder'
BY DEF IInv, IdsInOrder, Used

LEMMA AgesKeeps ==
  ASSUME IInv, NEW i \in Id, Ages(i)
  PROVE  IInv'
BY UsedKept DEF Ages, IInv, TypeOK, NothingLost, PassIsComplete, AckedWasDelivered, First, At,
                EvictedMayBeLost, LateWasFirst, PriorDelivered

LEMMA SelectExpiredKeeps ==
  ASSUME IInv, SelectExpired
  PROVE  IInv'
BY UsedKept DEF SelectExpired, Expired, Goto, Step, IInv, TypeOK, NothingLost, PassIsComplete,
                AckedWasDelivered, First, At, EvictedMayBeLost, LateWasFirst, PriorDelivered

LEMMA EvictKeeps ==
  ASSUME IInv, NEW i \in Id, Evict(i)
  PROVE  IInv'
BY UsedKept DEF Evict, Goto, Step, IInv, TypeOK, NothingLost, PassIsComplete,
                AckedWasDelivered, First, At, EvictedMayBeLost, LateWasFirst, PriorDelivered

LEMMA GetPendingKeeps ==
  ASSUME IInv, GetPending
  PROVE  IInv'
BY UsedKept DEF GetPending, Goto, Step, IInv, TypeOK, NothingLost, PassIsComplete,
                AckedWasDelivered, First, At, EvictedMayBeLost, LateWasFirst, PriorDelivered

LEMMA SendKeeps ==
  ASSUME IInv, NEW i \in Id, Send(i)
  PROVE  IInv'
BY UsedKept DEF Send, Goto, Step, IInv, TypeOK, NothingLost, PassIsComplete,
                AckedWasDelivered, First, At, EvictedMayBeLost, LateWasFirst, PriorDelivered

LEMMA ReceiveKeeps ==
  ASSUME IInv, NEW i \in Id, Receive(i)
  PROVE  IInv'
<1>1. i \in delivered
  BY DEF Receive, HandledSteps, IInv, AckedWasDelivered, At
<1> QED
  BY <1>1, UsedKept, FirstIsOne
     DEF Receive, HandledSteps, Goto, Step, IInv, TypeOK, NothingLost, PassIsComplete,
         AckedWasDelivered, At, EvictedMayBeLost, LateWasFirst, PriorDelivered

(* The row that is deleted was executed.                                    *)
LEMMA DeleteKeeps ==
  ASSUME IInv, NEW i \in Id, Delete(i)
  PROVE  IInv'
<1>1. i \in delivered /\ At("acked") /\ replay \in [step: Step, rows: SUBSET table]
  BY DEF Delete, IInv, AckedWasDelivered, TypeOK
<1> QED
  BY <1>1, UsedKept
     DEF Delete, Rest, Goto, Step, IInv, TypeOK, NothingLost, PassIsComplete,
         AckedWasDelivered, At, EvictedMayBeLost, LateWasFirst, PriorDelivered

(* A pass that stops leaves no claims behind.                               *)
LEMMA StopKeeps ==
  ASSUME IInv, NEW step \in {"down", "resting"}, Goto(step, {}),
         event' = event, table' = table, old' = old, delivered' = delivered,
         late' \subseteq Used, \A i \in late' : PriorDelivered(i)
  PROVE  IInv'
BY UsedKept DEF Goto, Step, IInv, TypeOK, NothingLost, PassIsComplete,
                AckedWasDelivered, First, At, EvictedMayBeLost, LateWasFirst, PriorDelivered

LEMMA AttemptFailsKeeps ==
  ASSUME IInv, NEW i \in Id, AttemptFails(i)
  PROVE  IInv'
<1>1. PriorDelivered(i) /\ i \in replay.rows
  BY FirstHasPrior DEF AttemptFails
<1>2. late' \subseteq Used /\ \A j \in late' : PriorDelivered(j)
  BY <1>1 DEF AttemptFails, IInv, LateWasFirst, TypeOK
<1>3. CASE StopsPass(i)
  BY <1>2, <1>3, StopKeeps DEF AttemptFails, StopsPass
<1>4. CASE Goto("sending", replay.rows)
  BY <1>2, <1>4, UsedKept
     DEF AttemptFails, Goto, Step, IInv, TypeOK, NothingLost, PassIsComplete,
         AckedWasDelivered, First, At, EvictedMayBeLost, LateWasFirst, PriorDelivered
<1> QED
  BY <1>3, <1>4 DEF AttemptFails

LEMMA StopsKeep ==
  ASSUME IInv, EndPass \/ Crash \/ Restart \/ \E i \in Id : HostStops(i)
  PROVE  IInv'
BY StopKeeps DEF EndPass, Crash, Restart, HostStops, IInv, TypeOK, LateWasFirst

LEMMA HandleKeeps ==
  ASSUME IInv, NEW i \in Id, Handle(i)
  PROVE  IInv'
<1>1. delivered \subseteq delivered' /\ (i \in delivered' \/ event[i] \in Refused)
  BY DEF Handle, Executed
<1>2. delivered' \subseteq Used
  BY DEF Handle, Executed, First, IInv, TypeOK
<1> QED
  BY <1>1, <1>2, UsedKept, FirstIsOne
     DEF Handle, Goto, Step, IInv, TypeOK, NothingLost, PassIsComplete,
         AckedWasDelivered, At, EvictedMayBeLost, LateWasFirst, PriorDelivered

LEMMA HandleLateKeeps ==
  ASSUME IInv, NEW i \in Id, HandleLate(i)
  PROVE  IInv'
<1>1. delivered \subseteq delivered' /\ delivered' \subseteq Used
  BY DEF HandleLate, Executed, IInv, TypeOK
<1> QED
  BY <1>1, UsedKept
     DEF HandleLate, IInv, TypeOK, NothingLost, PassIsComplete,
         AckedWasDelivered, First, At, EvictedMayBeLost, LateWasFirst, PriorDelivered

LEMMA StepIInv ==
  ASSUME IInv, [Next]_vars
  PROVE  IInv'
<1>1. CASE UNCHANGED vars
  BY <1>1 DEF vars, IInv, TypeOK, Used, IdsInOrder, NothingLost, PassIsComplete,
         AckedWasDelivered, First, At, EvictedMayBeLost, LateWasFirst, PriorDelivered
<1>2. CASE Next
  BY <1>2, EnqueueKeeps, AgesKeeps, SelectExpiredKeeps, EvictKeeps, GetPendingKeeps, SendKeeps,
     ReceiveKeeps, DeleteKeeps, AttemptFailsKeeps, StopsKeep, HandleKeeps, HandleLateKeeps
     DEF Next
<1> QED
  BY <1>1, <1>2

----
(* The theorems.                                                            *)

LEMMA Invariance == Spec => []IInv
<1>1. Init => IInv
  BY InitIInv
<1>2. IInv /\ [Next]_vars => IInv'
  BY StepIInv
<1> QED
  BY <1>1, <1>2, PTL DEF Spec

(* A pass only ever works on rows that are in the table.                    *)
THEOREM TypeCorrect == Spec => []TypeOK
<1>1. IInv => TypeOK
  BY DEF IInv
<1> QED
  BY <1>1, Invariance, PTL

(* No completion and no backup record is lost before the backend executed    *)
(* it, wherever the process crashes and whichever requests are lost.        *)
THEOREM NoneIsLost == Spec => []NothingLost
<1>1. IInv => NothingLost
  BY DEF IInv
<1> QED
  BY <1>1, Invariance, PTL

LEMMA FirstDeliveryStep ==
  ASSUME IInv, [Next]_vars, NEW i \in delivered' \ delivered
  PROVE  i \in Id /\ PriorDelivered(i)
<1>1. PICK k \in Id : Handle(k) \/ HandleLate(k)
  BY DEF Next, vars, Enqueue, Ages, SelectExpired, Evict, GetPending, Send, Receive, Delete,
         EndPass, AttemptFails, HostStops, Crash, Restart
<1>2. i = k
  BY <1>1 DEF Handle, HandleLate, Executed
<1>3. CASE Handle(k)
  BY <1>2, <1>3, FirstHasPrior DEF Handle, At
<1>4. CASE HandleLate(k)
  BY <1>2, <1>4 DEF HandleLate, IInv, LateWasFirst
<1> QED
  BY <1>1, <1>3, <1>4

(* Completions, records and patches reach the backend for the first time in   *)
(* the order they were queued in, as far as durable events go.               *)
THEOREM DeliveryOrder == Spec => FirstDeliveryInOrder
<1>1. IInv /\ [Next]_vars =>
        [\A i \in delivered' \ delivered, j \in Id :
           j < i /\ event[j] \in Durable => j \in delivered]_vars
  BY FirstDeliveryStep DEF PriorDelivered
<1> QED
  BY <1>1, Invariance, PTL DEF Spec, FirstDeliveryInOrder

----
(* The order of acknowledgement needs more: what the pass read is the oldest  *)
(* part of the table, and eviction never selects a row that is not old.       *)

(* Rows that were put after the pass began come after the rows of the pass.   *)
PassIsOldest ==
  replay.step \in {"sending", "sent", "handled", "acked"} =>
    \A i \in replay.rows, j \in table \ replay.rows : i < j

(* Eviction only selects rows that were enqueued before the cutoff.          *)
EvictedIsOld == At("evicting") => replay.rows \subseteq old

OrderInv == PassIsOldest /\ EvictedIsOld

LEMMA InitOrder == Init => OrderInv
BY DEF Init, OrderInv, PassIsOldest, EvictedIsOld, At

LEMMA EnqueueKeepsOrder ==
  ASSUME IInv, OrderInv, NEW i \in Id, NEW e \in Event, Enqueue(i, e)
  PROVE  OrderInv'
<1>1. i \notin Used /\ \A j \in Used : j < i
  BY IdAssumption DEF Enqueue, IInv, IdsInOrder, Used
<1>2. replay' = replay /\ old' = old /\ table' = table \cup {i} /\ replay.rows \subseteq Used
  BY DEF Enqueue, IInv, TypeOK
<1> QED
  BY <1>1, <1>2 DEF OrderInv, PassIsOldest, EvictedIsOld, At

(* A pass reads the whole table, and from then on rows only leave both.       *)
LEMMA PassKeepsOrder ==
  ASSUME IInv, OrderInv,
         \/ SelectExpired \/ GetPending
         \/ \E i \in Id : Evict(i) \/ Send(i) \/ Handle(i) \/ Receive(i) \/ Delete(i)
  PROVE  OrderInv'
<1>1. replay \in [step: Step, rows: SUBSET table]
  BY DEF IInv, TypeOK
<1>2. CASE SelectExpired \/ GetPending \/ \E i \in Id : Evict(i)
  BY <1>1, <1>2 DEF SelectExpired, Expired, GetPending, Evict, Goto, At, OrderInv, PassIsOldest,
                    EvictedIsOld
<1>3. CASE \E i \in Id : Send(i) \/ Handle(i) \/ Receive(i)
  BY <1>1, <1>3 DEF Send, Handle, Receive, HandledSteps, Goto, At, OrderInv, PassIsOldest, EvictedIsOld
<1>4. CASE \E i \in Id : Delete(i)
  BY <1>1, <1>4 DEF Delete, Rest, Goto, At, OrderInv, PassIsOldest, EvictedIsOld
<1> QED
  BY <1>2, <1>3, <1>4

LEMMA RestKeepsOrder ==
  ASSUME IInv, OrderInv,
         \/ EndPass \/ Crash \/ Restart \/ UNCHANGED vars
         \/ \E i \in Id : Ages(i) \/ HandleLate(i) \/ AttemptFails(i) \/ HostStops(i)
  PROVE  OrderInv'
<1>1. CASE \E i \in Id : AttemptFails(i)
  BY <1>1 DEF AttemptFails, StopsPass, Goto, At, OrderInv, PassIsOldest, EvictedIsOld
<1>2. CASE \/ EndPass \/ Crash \/ Restart \/ UNCHANGED vars
           \/ \E i \in Id : Ages(i) \/ HandleLate(i) \/ HostStops(i)
  BY <1>2 DEF EndPass, Crash, Restart, vars, Ages, HandleLate, HostStops, Goto, At, OrderInv,
              PassIsOldest, EvictedIsOld
<1> QED
  BY <1>1, <1>2

LEMMA OrderInvariance == Spec => [](IInv /\ OrderInv)
<1>1. Init => IInv /\ OrderInv
  BY InitIInv, InitOrder
<1>2. IInv /\ OrderInv /\ [Next]_vars => (IInv /\ OrderInv)'
  BY StepIInv, EnqueueKeepsOrder, PassKeepsOrder, RestKeepsOrder DEF Next
<1> QED
  BY <1>1, <1>2, PTL DEF Spec

(* Only eviction and the DELETE of an answered row shrink the table.          *)
LEMMA LeavesInOrder ==
  ASSUME IInv, OrderInv, [Next]_vars, NEW i \in table \ table'
  PROVE  \/ event[i] \notin Durable /\ i \in old
         \/ \A j \in table : i <= j
<1>1. PICK k \in Id : Evict(k) \/ Delete(k)
  BY DEF Next, vars, Enqueue, Ages, SelectExpired, GetPending, Send, Receive, EndPass,
         AttemptFails, HostStops, Crash, Restart, Handle, HandleLate
<1>2. i = k
  BY <1>1 DEF Evict, Delete
<1>3. CASE Evict(k)
  BY <1>2, <1>3 DEF Evict, IInv, EvictedMayBeLost, OrderInv, EvictedIsOld
<1>4. CASE Delete(k)
  <2>1. \A j \in table : j \in Nat /\ i \in Nat
    BY <1>2, IdAssumption DEF IInv, TypeOK, Used
  <2> QED
    BY <1>2, <1>4, <2>1 DEF Delete, First, At, OrderInv, PassIsOldest
<1> QED
  BY <1>1, <1>3, <1>4

(* However passes are cut short by outages and crashes, no event is           *)
(* acknowledged while one that was queued before it is still there.          *)
THEOREM AcknowledgementOrder == Spec => AcknowledgedInOrder
<1>1. IInv /\ OrderInv /\ [Next]_vars =>
        [\A i \in table \ table' :
           \/ event[i] \notin Durable /\ i \in old
           \/ \A j \in table : i <= j]_vars
  BY LeavesInOrder
<1> QED
  BY <1>1, OrderInvariance, PTL DEF Spec, AcknowledgedInOrder

LEMMA StepPromise ==
  ASSUME IInv, IInv', [Next]_vars
  PROVE  [Promise!Next]_(Promise!vars)
<1>1. ASSUME NEW i \in Id, NEW e \in Event, Enqueue(i, e)
      PROVE  Promise!Put(i, e)
  BY <1>1 DEF Enqueue, Promise!Put
<1>2. ASSUME NEW i \in Id, Evict(i)
      PROVE  Promise!Drop(i)
  BY <1>2 DEF Evict, At, Promise!Drop, IInv, TypeOK, EvictedMayBeLost
<1>3. ASSUME NEW i \in Id, Delete(i)
      PROVE  Promise!Drop(i)
  BY <1>3 DEF Delete, First, At, Promise!Drop, IInv, TypeOK, AckedWasDelivered
<1>4. ASSUME NEW i \in Id, Handle(i) \/ HandleLate(i)
      PROVE  Promise!Deliver(i) \/ UNCHANGED Promise!vars
  <2>1. CASE event[i] \in Refused
    BY <1>4, <2>1 DEF Handle, HandleLate, Executed, Promise!vars
  <2>2. CASE event[i] \notin Refused
    <3>1. PriorDelivered(i) /\ i \in Used
      BY <1>4, FirstHasPrior DEF Handle, HandleLate, At, IInv, TypeOK, LateWasFirst
    <3> QED
      BY <1>4, <2>2, <3>1
         DEF Handle, HandleLate, Executed, Used, PriorDelivered, Promise!Deliver
  <2> QED
    BY <2>1, <2>2
<1>5. CASE \/ \E i \in Id : Ages(i) \/ Send(i) \/ Receive(i) \/ AttemptFails(i) \/ HostStops(i)
           \/ SelectExpired \/ GetPending \/ EndPass \/ Crash \/ Restart \/ UNCHANGED vars
  BY <1>5 DEF Ages, Send, Receive, AttemptFails, HostStops, SelectExpired, GetPending, EndPass,
              Crash, Restart, vars, Promise!vars
<1> QED
  BY <1>1, <1>2, <1>3, <1>4, <1>5 DEF Next, Promise!Next

(* The offline queue keeps the promise of DurableQueue.                      *)
THEOREM KeepsPromise == Spec => ImplementsDurableQueue
<1>1. Init => Promise!Init
  BY DEF Init, Promise!Init
<1>2. IInv /\ IInv' /\ [Next]_vars => [Promise!Next]_(Promise!vars)
  BY StepPromise
<1> QED
  BY <1>1, <1>2, Invariance, PTL DEF Spec, ImplementsDurableQueue, Promise!Spec

====
