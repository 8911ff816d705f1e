-------------------------- MODULE DispatcherProofs --------------------------
(***************************************************************************)
(* Theorems of the dispatcher's specification, for any bindings, queues,   *)
(* requests, number of workers and faults.                                 *)
(***************************************************************************)
EXTENDS Dispatcher, DemandProofs

-----------------------------------------------------------------------------
(* The work queue's operations keep its type. *)

LEMMA AddType ==
    ASSUME NEW Key, NEW wq \in QueueTypes(Key), NEW k \in Key
    PROVE  Add(wq, k) \in QueueTypes(Key)
<1>1. wq.queue \in Seq(Key) /\ Append(wq.queue, k) \in Seq(Key)
  BY DEF QueueTypes
<1>2. wq.dirty \cup {k} \in SUBSET Key
  BY DEF QueueTypes
<1> QED
  BY <1>1, <1>2 DEF Add, QueueTypes

LEMMA GetType ==
    ASSUME NEW Key, NEW wq \in QueueTypes(Key), wq.queue # << >>
    PROVE  /\ Get(wq) \in QueueTypes(Key)
           /\ Head(wq.queue) \in Key
BY DEF Get, QueueTypes

LEMMA DoneType ==
    ASSUME NEW Key, NEW wq \in QueueTypes(Key), NEW k \in Key
    PROVE  Done(wq, k) \in QueueTypes(Key)
<1>1. wq.queue \in Seq(Key) /\ Append(wq.queue, k) \in Seq(Key)
  BY DEF QueueTypes
<1>2. wq.processing \ {k} \in SUBSET Key
  BY DEF QueueTypes
<1> QED
  BY <1>1, <1>2 DEF Done, QueueTypes

-----------------------------------------------------------------------------
(* Every variable keeps its type. *)

LEMMA InitType == Init => TypeOK
BY DemandAssumption, DispatcherAssumption
   DEF Init, TypeOK, Object, Event, Status, Phase, NoInfo, NoAlloc, EmptyQueue, QueueTypes

LEMMA SpendType ==
    ASSUME NEW f \in FaultKinds, budget \in [FaultKinds -> Nat], Spend(f)
    PROVE  budget' \in [FaultKinds -> Nat]
BY DEF Spend

\* A function from 1..n is a sequence.
LEMMA IsSeq ==
    ASSUME NEW S, NEW n \in Nat, NEW f \in [1..n -> S]
    PROVE  f \in Seq(S)
OBVIOUS

LEMMA NoteType ==
    ASSUME TypeOK, NEW k \in Keys, NEW op \in {"add", "update", "delete"}
    PROVE  Note(op, k) \in Event
BY DEF Note, Event, TypeOK, Object

\* The session's allocated stays a natural number.
LEMMA NextType == TypeOK /\ [Next]_vars => TypeOK'
<1> SUFFICES ASSUME TypeOK, [Next]_vars
             PROVE  TypeOK'
  OBVIOUS
<1>0. {"touch", "reject", "lose", "drop", "recreate", "restart"} = FaultKinds
  BY DEF FaultKinds
<1>1. ASSUME NEW k \in Keys, Create(k)
      PROVE  TypeOK'
  <2>1. budget' \in [FaultKinds -> Nat]
    BY <1>0, <1>1, SpendType DEF Create, TypeOK
  <2>2. events' \in Seq(Event)
    BY <1>1 DEF Create, TypeOK, Event, Object
  <2>3. api' \in [Keys -> Object]
    BY <1>1 DEF Create, TypeOK, Object
  <2> QED
    BY <1>1, <2>1, <2>2, <2>3 DEF Create, TypeOK
<1>2. ASSUME NEW k \in Keys, Delete(k)
      PROVE  TypeOK'
  <2>1. Note("delete", k) \in Event
    BY NoteType
  <2>2. api' \in [Keys -> Object]
    BY <1>2 DEF Delete, TypeOK, Object
  <2>3. events' \in Seq(Event)
    BY <1>2, <2>1 DEF Delete, TypeOK
  <2> QED
    BY <1>2, <2>2, <2>3 DEF Delete, TypeOK
<1>3. ASSUME NEW k \in Keys, Touch(k)
      PROVE  TypeOK'
  <2>1. Note("update", k) \in Event
    BY NoteType
  <2>2. budget' \in [FaultKinds -> Nat]
    BY <1>0, <1>3, SpendType DEF Touch, TypeOK
  <2> QED
    BY <1>3, <2>1, <2>2 DEF Touch, TypeOK
<1>4. ASSUME HandleSet
      PROVE  TypeOK'
  <2>1. Head(events) \in Event /\ Tail(events) \in Seq(Event)
    BY <1>4 DEF HandleSet, TypeOK
  <2>2. cache' \in [Keys -> [status : Status, uid : Nat]]
    BY <1>4, <2>1 DEF HandleSet, SetResourceBinding, TypeOK, Event, Status
  <2> QED
    BY <1>4, <2>1, <2>2 DEF HandleSet, TypeOK
<1>5. ASSUME HandleDropped
      PROVE  TypeOK'
  <2>1. budget' \in [FaultKinds -> Nat]
    BY <1>0, <1>5, SpendType DEF HandleDropped, TypeOK
  <2> QED
    BY <1>5, <2>1 DEF HandleDropped, TypeOK
<1>6. ASSUME HandleDelete
      PROVE  TypeOK'
  <2>1. Tail(events) \in Seq(Event)
    BY <1>6 DEF HandleDelete, TypeOK
  <2>2. NoInfo \in [status : Status, uid : Nat]
    BY DEF NoInfo, Status
  <2>3. cache' \in [Keys -> [status : Status, uid : Nat]]
    BY <1>6, <2>2 DEF HandleDelete, TypeOK
  <2> QED
    BY <1>6, <2>1, <2>3 DEF HandleDelete, TypeOK
<1>7. ASSUME OpenSession
      PROVE  TypeOK'
  <2>1. \A q \in Queues : Load(Charged(q)) \in Nat
    BY LoadType DEF Charged
  <2>2. pending' \in SUBSET (Keys \X Nat)
    BY <1>7 DEF OpenSession, TypeOK
  <2> QED
    BY <1>7, <2>1, <2>2 DEF OpenSession, TypeOK
<1>8. ASSUME NEW k \in Keys, Dispatch(k)
      PROVE  TypeOK'
  <2>1. cache' \in [Keys -> [status : Status, uid : Nat]] /\ tasks' \in QueueTypes(Keys)
    <3>1. Add(tasks, k) \in QueueTypes(Keys)
      BY AddType DEF TypeOK
    <3>2. [cache EXCEPT ![k].status = "UnSuspending"] \in [Keys -> [status : Status, uid : Nat]]
      BY DEF TypeOK, Status
    <3> QED
      BY <1>8, <3>1, <3>2 DEF Dispatch, UnSuspendResourceBinding, TypeOK
  <2>2. alloc' \in [Queues -> Nat]
    BY <1>8, DemandAssumption DEF Dispatch, TypeOK
  <2> QED
    BY <1>8, <2>1, <2>2 DEF Dispatch, TypeOK
<1>9. ASSUME NEW k \in Keys, Ignore(k)
      PROVE  TypeOK'
  BY <1>9 DEF Ignore, TypeOK
<1>10. ASSUME CloseSession
       PROVE  TypeOK'
  BY <1>10 DEF CloseSession, TypeOK, NoAlloc
<1>11. ASSUME NEW w \in Workers, WorkerGet(w)
       PROVE  TypeOK'
  <2>1. Get(tasks) \in QueueTypes(Keys) /\ Head(tasks.queue) \in Keys
    BY <1>11, GetType DEF WorkerGet, TypeOK
  <2> QED
    BY <1>11, <2>1 DEF WorkerGet, TypeOK
<1>12. ASSUME NEW w \in Workers, WorkerBreak(w)
       PROVE  TypeOK'
  BY <1>12 DEF WorkerBreak, TypeOK
<1>13. ASSUME NEW w \in Workers, WorkerGo(w)
       PROVE  TypeOK'
  BY <1>13 DEF WorkerGo, TypeOK, Phase
<1>14. ASSUME NEW k \in Keys, Apply(k)
       PROVE  api' \in [Keys -> Object] /\ events' \in Seq(Event)
  <2>1. [Note("update", k) EXCEPT !.suspended = FALSE] \in Event
    BY DEF Note, Event, TypeOK, Object
  <2>2. api' \in [Keys -> Object]
    BY <1>14 DEF Apply, TypeOK, Object
  <2>3. events' \in Seq(Event)
    BY <1>14, <2>1 DEF Apply, TypeOK
  <2> QED
    BY <2>2, <2>3
<1>15. ASSUME NEW k \in Keys, PatchApplied(k)
       PROVE  TypeOK'
  BY <1>14, <1>15 DEF PatchApplied, TypeOK, Phase
<1>16. ASSUME NEW k \in Keys, PatchRejected(k)
       PROVE  TypeOK'
  <2>1. budget' \in [FaultKinds -> Nat]
    BY <1>0, <1>16, SpendType DEF PatchRejected, TypeOK
  <2> QED
    BY <1>16, <2>1 DEF PatchRejected, TypeOK, Phase
<1>17. ASSUME NEW k \in Keys, PatchLost(k)
       PROVE  TypeOK'
  <2>1. budget' \in [FaultKinds -> Nat]
    BY <1>0, <1>17, SpendType DEF PatchLost, TypeOK
  <2> QED
    BY <1>14, <1>17, <2>1 DEF PatchLost, TypeOK, Phase
<1>18. ASSUME NEW k \in Keys, PatchRecover(k)
       PROVE  TypeOK'
  BY <1>18 DEF PatchRecover, TypeOK, Phase, Status
<1>19. ASSUME NEW k \in Keys, PatchDone(k)
       PROVE  TypeOK'
  BY <1>19, DoneType DEF PatchDone, TypeOK, Phase
<1>20. ASSUME Restart
       PROVE  TypeOK'
  <2> DEFINE live == {k \in Keys : api[k].live}
  <2>1. budget' \in [FaultKinds -> Nat]
    BY <1>0, <1>20, SpendType DEF Restart, TypeOK
  <2>2. Cardinality(live) \in Nat
    BY DemandAssumption, FS_Subset, FS_CardinalityType
  <2>3. events' \in Seq(Event)
    <3>1. PICK order \in [1..Cardinality(live) -> live] :
             events' = [i \in DOMAIN order |-> Note("add", order[i])]
      BY <1>20 DEF Restart
    <3>2. events' \in [1..Cardinality(live) -> Event]
      BY <3>1, NoteType
    <3> QED
      BY <2>2, <3>2, IsSeq
  <2> QED
    BY <1>20, <2>1, <2>3
       DEF Restart, TypeOK, NoInfo, NoAlloc, EmptyQueue, QueueTypes, Status, Phase
<1>21. CASE UNCHANGED vars
  BY <1>21 DEF vars, TypeOK
<1> QED
  BY <1>1, <1>2, <1>3, <1>4, <1>5, <1>6, <1>7, <1>8, <1>9, <1>10, <1>11, <1>12, <1>13,
     <1>15, <1>16, <1>17, <1>18, <1>19, <1>20, <1>21
     DEF Next, Environment, Handle, Round, Work, Patching

\* Every variable keeps its type, whatever faults happen: in particular no
\* round's allocated becomes negative and the task queue holds known keys only.
THEOREM TypeCorrect == Spec => []TypeOK
BY InitType, NextType, PTL DEF Spec
-----------------------------------------------------------------------------
(* One worker or goroutine at a time per key. *)

\* The waiting keys are dirty, distinct, and nobody is processing them.
QueueInv ==
    /\ \A i, j \in DOMAIN tasks.queue : tasks.queue[i] = tasks.queue[j] => i = j
    /\ \A i \in DOMAIN tasks.queue : /\ tasks.queue[i] \in tasks.dirty
                                     /\ tasks.queue[i] \notin tasks.processing

\* Whoever is busy with a key holds it in processing: Done comes last.
BusyInv ==
    /\ \A w \in Workers : worker[w] # NoKey => worker[w] \in tasks.processing
    /\ \A k \in Keys : patch[k] # "none" => k \in tasks.processing

FlightInv == QueueInv /\ BusyInv /\ SingleFlight

LEMMA FlightInit == Init => FlightInv
BY DEF Init, FlightInv, QueueInv, BusyInv, SingleFlight, EmptyQueue

\* Add queues a key that was not dirty, unless it is being processed.
LEMMA FlightAdd ==
    ASSUME TypeOK, FlightInv, NEW k \in Keys, tasks' = Add(tasks, k),
           UNCHANGED <<worker, patch>>
    PROVE  FlightInv'
<1>1. CASE k \in tasks.dirty
  BY <1>1 DEF Add, FlightInv, QueueInv, BusyInv, SingleFlight
<1>2. CASE k \notin tasks.dirty
  <2>1. /\ tasks'.dirty = tasks.dirty \cup {k}
        /\ tasks'.processing = tasks.processing
        /\ tasks'.queue = IF k \in tasks.processing THEN tasks.queue
                          ELSE Append(tasks.queue, k)
    BY <1>2 DEF Add, TypeOK, QueueTypes
  <2>2. tasks.queue \in Seq(Keys)
    BY DEF TypeOK, QueueTypes
  <2>3. \A i \in DOMAIN tasks.queue : tasks.queue[i] # k
    BY <1>2 DEF FlightInv, QueueInv
  <2>4. QueueInv'
    BY <2>1, <2>2, <2>3 DEF FlightInv, QueueInv
  <2>5. BusyInv' /\ SingleFlight'
    BY <2>1 DEF FlightInv, BusyInv, SingleFlight
  <2> QED
    BY <2>4, <2>5 DEF FlightInv
<1> QED
  BY <1>1, <1>2

LEMMA FlightNext == TypeOK /\ FlightInv /\ [Next]_vars => FlightInv'
<1> SUFFICES ASSUME TypeOK, FlightInv, [Next]_vars
             PROVE  FlightInv'
  OBVIOUS
<1> USE DEF FlightInv
<1>1. ASSUME UNCHANGED <<tasks, worker, patch>>
      PROVE  FlightInv'
  BY <1>1 DEF QueueInv, BusyInv, SingleFlight
<1>2. ASSUME NEW k \in Keys, Dispatch(k)
      PROVE  FlightInv'
  <2>1. UNCHANGED <<worker, patch>> /\ (tasks' = Add(tasks, k) \/ UNCHANGED tasks)
    BY <1>2 DEF Dispatch, UnSuspendResourceBinding
  <2> QED
    BY <1>1, <2>1, FlightAdd
<1>3. ASSUME NEW w \in Workers, WorkerGet(w)
      PROVE  FlightInv'
  <2> DEFINE k == Head(tasks.queue)
  <2>1. /\ tasks.queue \in Seq(Keys) /\ tasks.queue # << >>
        /\ k \in Keys /\ k # NoKey /\ k = tasks.queue[1] /\ 1 \in DOMAIN tasks.queue
    BY <1>3, DispatcherAssumption DEF WorkerGet, TypeOK, QueueTypes
  <2>2. /\ tasks'.queue = Tail(tasks.queue)
        /\ tasks'.dirty = tasks.dirty \ {k}
        /\ tasks'.processing = tasks.processing \cup {k}
    BY <1>3 DEF WorkerGet, Get
  <2>3. k \notin tasks.processing
    BY <2>1 DEF QueueInv
  <2>4. /\ Len(tasks'.queue) = Len(tasks.queue) - 1
        /\ \A i \in DOMAIN tasks'.queue : /\ i + 1 \in DOMAIN tasks.queue
                                          /\ tasks'.queue[i] = tasks.queue[i + 1]
    BY <2>1, <2>2
  <2>5. DOMAIN tasks'.queue \subseteq Nat /\ DOMAIN tasks.queue \subseteq Nat
    BY <2>1, <2>2
  <2>6. \A i \in DOMAIN tasks'.queue : tasks'.queue[i] # k
    BY <2>1, <2>2, <2>4, <2>5 DEF QueueInv
  <2>7. QueueInv'
    <3>1. ASSUME NEW i \in DOMAIN tasks'.queue, NEW j \in DOMAIN tasks'.queue,
                 tasks'.queue[i] = tasks'.queue[j]
          PROVE  i = j
      <4>1. i \in Nat /\ j \in Nat /\ i + 1 \in DOMAIN tasks.queue /\ j + 1 \in DOMAIN tasks.queue
        BY <2>4, <2>5
      <4>2. tasks.queue[i + 1] = tasks.queue[j + 1]
        BY <2>4, <3>1
      <4>3. i + 1 = j + 1
        BY <4>1, <4>2 DEF QueueInv
      <4> QED
        BY <4>1, <4>3
    <3>2. ASSUME NEW i \in DOMAIN tasks'.queue
          PROVE  tasks'.queue[i] \in tasks'.dirty /\ tasks'.queue[i] \notin tasks'.processing
      <4>1. i + 1 \in DOMAIN tasks.queue /\ tasks'.queue[i] = tasks.queue[i + 1]
        BY <2>4
      <4>2. tasks'.queue[i] \in tasks.dirty /\ tasks'.queue[i] \notin tasks.processing
        BY <4>1 DEF QueueInv
      <4> QED
        BY <2>2, <2>6, <4>2
    <3> QED
      BY <3>1, <3>2 DEF QueueInv
  <2>8. worker' = [worker EXCEPT ![w] = k] /\ UNCHANGED patch
    BY <1>3 DEF WorkerGet
  <2>9. \A v \in Workers : worker[v] # k
    BY <2>1, <2>3 DEF BusyInv
  <2>10. patch[k] = "none"
    BY <2>1, <2>3 DEF BusyInv
  <2> HIDE DEF k
  <2>11. BusyInv'
    BY <2>2, <2>8 DEF BusyInv, TypeOK
  <2>12. SingleFlight'
    BY <2>8, <2>9, <2>10 DEF SingleFlight, TypeOK
  <2> QED
    BY <2>7, <2>11, <2>12
<1>4. ASSUME NEW w \in Workers, WorkerBreak(w)
      PROVE  FlightInv'
  <2>1. UNCHANGED <<tasks, patch>> /\ worker' = [worker EXCEPT ![w] = NoKey]
    BY <1>4 DEF WorkerBreak
  <2> QED
    BY <2>1 DEF QueueInv, BusyInv, SingleFlight, TypeOK
<1>5. ASSUME NEW w \in Workers, WorkerGo(w)
      PROVE  FlightInv'
  <2>1. /\ worker[w] # NoKey /\ worker[w] \in Keys
        /\ UNCHANGED tasks
        /\ worker' = [worker EXCEPT ![w] = NoKey]
        /\ patch' = [patch EXCEPT ![worker[w]] = "sent"]
    BY <1>5 DEF WorkerGo, TypeOK
  <2>2. QueueInv'
    BY <2>1 DEF QueueInv
  <2>3. BusyInv'
    BY <2>1 DEF BusyInv, TypeOK
  <2>4. SingleFlight'
    BY <2>1 DEF SingleFlight, TypeOK
  <2> QED
    BY <2>2, <2>3, <2>4
\* A goroutine that moves on keeps its key.
<1>6. ASSUME NEW k \in Keys, patch[k] # "none", UNCHANGED <<tasks, worker>>,
             NEW p \in Phase, patch' = [patch EXCEPT ![k] = p]
      PROVE  FlightInv'
  BY <1>6 DEF QueueInv, BusyInv, SingleFlight, TypeOK
<1>7. ASSUME NEW k \in Keys, PatchDone(k)
      PROVE  FlightInv'
  <2>1. /\ tasks.queue \in Seq(Keys)
        /\ patch[k] = "done" /\ patch' = [patch EXCEPT ![k] = "none"]
        /\ UNCHANGED worker
    BY <1>7 DEF PatchDone, TypeOK, QueueTypes
  <2>2. /\ tasks'.dirty = tasks.dirty
        /\ tasks'.processing = tasks.processing \ {k}
        /\ tasks'.queue = IF k \in tasks.dirty THEN Append(tasks.queue, k) ELSE tasks.queue
    BY <1>7 DEF PatchDone, Done, TypeOK, QueueTypes
  <2>3. \A i \in DOMAIN tasks.queue : tasks.queue[i] # k
    BY <2>1 DEF QueueInv, BusyInv
  <2>4. QueueInv'
    BY <2>1, <2>2, <2>3 DEF QueueInv
  <2>5. \A w \in Workers : worker[w] # NoKey => worker[w] # k
    BY <2>1 DEF SingleFlight
  <2>6. BusyInv'
    BY <2>1, <2>2, <2>5 DEF BusyInv, TypeOK
  <2>7. SingleFlight'
    BY <2>1 DEF SingleFlight, TypeOK
  <2> QED
    BY <2>4, <2>6, <2>7
<1>8. ASSUME Restart
      PROVE  FlightInv'
  BY <1>8 DEF Restart, EmptyQueue, QueueInv, BusyInv, SingleFlight
<1>9. ASSUME NEW k \in Keys, PatchApplied(k) \/ PatchRejected(k) \/ PatchLost(k) \/ PatchRecover(k)
      PROVE  FlightInv'
  BY <1>6, <1>9 DEF PatchApplied, PatchRejected, PatchLost, PatchRecover, Phase
<1>10. CASE UNCHANGED vars
  BY <1>1, <1>10 DEF vars
<1>11. ASSUME NEW k \in Keys, Create(k) \/ Delete(k) \/ Touch(k) \/ Ignore(k)
       PROVE  FlightInv'
  BY <1>1, <1>11 DEF Create, Delete, Touch, Ignore
<1>12. ASSUME HandleSet \/ HandleDropped \/ HandleDelete \/ OpenSession \/ CloseSession
       PROVE  FlightInv'
  BY <1>1, <1>12 DEF HandleSet, HandleDropped, HandleDelete, OpenSession, CloseSession
<1> QED
  BY <1>2, <1>3, <1>4, <1>5, <1>7, <1>8, <1>9, <1>10, <1>11, <1>12
     DEF Next, Environment, Handle, Round, Work, Patching

\* No two workers or goroutines are ever busy with the same binding, with any
\* number of workers and through every fault, restarts included.
THEOREM OnePatchAtATime == Spec => []SingleFlight
<1>1. Init => TypeOK /\ FlightInv
  BY InitType, FlightInit
<1>2. TypeOK /\ FlightInv /\ [Next]_vars => (TypeOK /\ FlightInv)'
  BY NextType, FlightNext
<1>3. FlightInv => SingleFlight
  BY DEF FlightInv
<1> QED
  BY <1>1, <1>2, <1>3, PTL DEF Spec
=============================================================================
