---------------------- MODULE DispatcherCapacityProofs ----------------------
(***************************************************************************)
(* Under Clean, no queue is ever overcommitted, for any bindings, queues,  *)
(* requests, capabilities, number of workers, failing patches and dropped  *)
(* notifications.                                                          *)
(***************************************************************************)
EXTENDS DispatcherInv, DispatcherProofs

-----------------------------------------------------------------------------
(* Positions in the informer's queue. *)

LEMMA AppendAt ==
    ASSUME NEW S, NEW s \in Seq(S), NEW e \in S
    PROVE  /\ DOMAIN s \subseteq Nat /\ DOMAIN s \subseteq DOMAIN Append(s, e)
           /\ \A i \in DOMAIN Append(s, e) :
                \/ i \in DOMAIN s /\ Append(s, e)[i] = s[i]
                \/ i \notin DOMAIN s /\ i = Len(s) + 1 /\ Append(s, e)[i] = e
           /\ \A i, j \in DOMAIN Append(s, e) : i < j => i \in DOMAIN s
OBVIOUS

LEMMA TailAt ==
    ASSUME NEW S, NEW s \in Seq(S), s # << >>
    PROVE  /\ DOMAIN s \subseteq Nat /\ DOMAIN Tail(s) \subseteq Nat
           /\ 1 \in DOMAIN s /\ Head(s) = s[1] /\ Head(s) \in S
           /\ \A i \in DOMAIN Tail(s) : /\ i + 1 \in DOMAIN s
                                        /\ 1 < i + 1
                                        /\ Tail(s)[i] = s[i + 1]
OBVIOUS

LEMMA EventKey ==
    ASSUME NEW s \in Seq(Event)
    PROVE  \A i \in DOMAIN s : s[i].key \in Keys /\ s[i].op \in {"add", "update", "delete"}
<1>1. \A i \in DOMAIN s : s[i] \in Event
  OBVIOUS
<1> QED
  BY <1>1 DEF Event

\* Handling the first event leaves the others' facts in place.
LEMMA TailKeepsEvents ==
    ASSUME TypeOK, events # << >>, events' = Tail(events),
           \A k \in Keys : k \in Started' =>
                \A i \in DOMAIN events : i # 1 /\ events[i].op = "add" => events[i].key # k,
           \A k \in Keys : k \notin Holding' =>
                \A i \in DOMAIN events : i # 1 /\ events[i].op = "update" => events[i].key # k,
           EventInv, UNCHANGED api, Tasked' = Tasked
    PROVE  EventInv'
<1>1. events \in Seq(Event)
  BY DEF TypeOK
<1>2. /\ DOMAIN events \subseteq Nat /\ DOMAIN events' \subseteq Nat
      /\ \A i \in DOMAIN events' : /\ i + 1 \in DOMAIN events /\ i + 1 # 1
                                   /\ events'[i] = events[i + 1]
  BY <1>1, TailAt
<1>6. \A i \in DOMAIN events : events[i].key \in Keys
  BY <1>1, EventKey
<1>3. AddInv'
  <2> SUFFICES ASSUME NEW i \in DOMAIN events', events'[i].op = "add"
               PROVE  /\ events'[i].suspended /\ api'[events'[i].key].suspended
                      /\ events'[i].key \notin Started'
                      /\ \A j \in DOMAIN events' :
                            i # j /\ events'[j].op = "add" => events'[j].key # events'[i].key
    BY DEF AddInv
  <2>1. /\ i \in Nat /\ i + 1 \in DOMAIN events /\ i + 1 # 1
        /\ events'[i] = events[i + 1] /\ events[i + 1].op = "add"
    BY <1>2
  <2>2. events'[i].key \notin Started'
    BY <1>6, <2>1
  <2>3. \A j \in DOMAIN events' : i # j => j + 1 \in DOMAIN events /\ i + 1 # j + 1
    BY <1>2, <2>1
  <2> QED
    BY <1>2, <2>1, <2>2, <2>3 DEF EventInv, AddInv
<1>4. UpdateInv'
  <2> SUFFICES ASSUME NEW i \in DOMAIN events', events'[i].op = "update"
               PROVE  /\ ~events'[i].suspended
                      /\ events'[i].key \in Holding' /\ events'[i].key \notin Tasked'
    BY DEF UpdateInv
  <2>1. /\ i + 1 \in DOMAIN events /\ i + 1 # 1
        /\ events'[i] = events[i + 1] /\ events[i + 1].op = "update"
    BY <1>2
  <2> QED
    BY <1>6, <2>1 DEF EventInv, UpdateInv
<1>5. DeleteInv'
  <2> SUFFICES ASSUME NEW i \in DOMAIN events', events'[i].op = "delete"
               PROVE  /\ ~api'[events'[i].key].live
                      /\ \A j \in DOMAIN events' : i < j => events'[j].key # events'[i].key
    BY DEF DeleteInv
  <2>1. events[i + 1].op = "delete" /\ events'[i] = events[i + 1]
    BY <1>2
  <2>2. \A j \in DOMAIN events' : i < j => i + 1 < j + 1
    BY <1>2
  <2> QED
    BY <1>2, <2>1, <2>2 DEF EventInv, DeleteInv
<1> QED
  BY <1>3, <1>4, <1>5 DEF EventInv

-----------------------------------------------------------------------------
(* The load under changes of the charged bindings. *)

LEMMA ChargedKeys == \A q \in Queues : Charged(q) \in SUBSET Keys
BY DEF Charged

LEMMA LoadShrinks ==
    ASSUME LoadInv, TypeOK, UNCHANGED <<round, alloc>>,
           Holding' \subseteq Holding
    PROVE  LoadInv'
<1>1. \A q \in Queues : Charged(q)' \in SUBSET Charged(q)
  BY DEF Charged, Holding
<1>2. ASSUME NEW q \in Queues
      PROVE  /\ Load(Charged(q)') <= Load(Charged(q))
             /\ Load(Charged(q)') \in Nat /\ Load(Charged(q)) \in Nat
  BY <1>1, ChargedKeys, LoadMonotone, LoadType
<1>3. ASSUME NEW q \in Queues
      PROVE  Load(Charged(q))' = Load(Charged(q)')
  BY DEF Load, Units
<1> QED
  BY <1>2, <1>3, DemandAssumption DEF LoadInv, TypeOK

-----------------------------------------------------------------------------
LEMMA CapacityInit == Clean /\ Init => CapacityInv
<1> SUFFICES ASSUME Clean, Init
             PROVE  CapacityInv
  OBVIOUS
<1>1. QuietInv
  BY DEF Clean, Init, QuietInv
<1>2. Started = {} /\ Tasked = {} /\ Holding = {}
  BY DispatcherAssumption
     DEF Init, Started, Tasked, Owed, Holding, Cached, NoInfo, EmptyQueue
<1>7. events = << >> /\ DOMAIN events = {}
  BY DEF Init
<1>8. EventInv
  BY <1>7 DEF EventInv, AddInv, UpdateInv, DeleteInv
<1>9. \A k \in Keys : k \notin tasks.dirty /\ ~api[k].live
  BY DEF Init, EmptyQueue
<1>10. BirthInv
  BY <1>2, <1>7, <1>9 DEF BirthInv
<1>12. TaskInv
  BY <1>2, <1>9 DEF TaskInv
<1>13. ReleasedInv
  BY <1>9 DEF ReleasedInv
<1>11. PendingInv
  BY DEF Init, PendingInv
<1>3. BirthInv /\ EventInv /\ TaskInv /\ PendingInv /\ ReleasedInv
  BY <1>8, <1>10, <1>11, <1>12, <1>13
<1>4. \A q \in Queues : Charged(q) = {}
  BY <1>2 DEF Charged, Holding
<1>5. Load({}) = 0
  BY FS_EmptySet DEF Load, Units
<1>14. round = "idle"
  BY DEF Init
<1>6. LoadInv
  BY <1>4, <1>5, <1>14, DemandAssumption DEF LoadInv
<1> QED
  BY <1>1, <1>3, <1>6 DEF CapacityInv

-----------------------------------------------------------------------------
(* The informer's handlers. *)

\* The first event concerns a binding whose name was used.
LEMMA HeadFacts ==
    ASSUME TypeOK, CapacityInv, events # << >>
    PROVE  /\ Head(events).key \in Keys
           /\ Head(events) \in Event
           /\ 1 \in DOMAIN events /\ events[1] = Head(events)
           /\ api[Head(events).key].uid # 0
           /\ \A k \in Keys : (\E i \in DOMAIN Tail(events) : Tail(events)[i].key = k)
                              => \E i \in DOMAIN events : events[i].key = k
<1>1. events \in Seq(Event)
  BY DEF TypeOK
<1>2. /\ 1 \in DOMAIN events /\ events[1] = Head(events) /\ Head(events) \in Event
      /\ \A i \in DOMAIN Tail(events) : /\ i + 1 \in DOMAIN events
                                        /\ Tail(events)[i] = events[i + 1]
  BY <1>1, TailAt
<1>3. Head(events).key \in Keys
  BY <1>2 DEF Event
<1>4. api[Head(events).key].uid # 0
  BY <1>2, <1>3 DEF CapacityInv, BirthInv
<1> QED
  BY <1>2, <1>3, <1>4

\* A handler that removes an event leaves names that were never used alone.
LEMMA TailKeepsBirth ==
    ASSUME TypeOK, CapacityInv, events # << >>, events' = Tail(events), UNCHANGED api,
           Started' \subseteq Started \cup {Head(events).key}
    PROVE  BirthInv'
<1>1. ASSUME NEW k \in Keys, api'[k].uid = 0
      PROVE  /\ ~api'[k].live /\ k \notin Started'
             /\ \A i \in DOMAIN events' : events'[i].key # k
  BY <1>1, HeadFacts DEF CapacityInv, BirthInv
<1> QED
  BY <1>1 DEF BirthInv

LEMMA SetCapacity ==
    ASSUME TypeOK, CapacityInv, HandleSet
    PROVE  CapacityInv'
<1> DEFINE e == Head(events)
<1> USE DEF CapacityInv
<1>1. /\ e.key \in Keys /\ e \in Event /\ 1 \in DOMAIN events /\ events[1] = e
      /\ events # << >> /\ events' = Tail(events)
      /\ UNCHANGED <<api, round, pending, alloc, tasks, worker, patch, budget>>
  BY HeadFacts DEF HandleSet
<1>2. e.op \in {"add", "update"}
  BY DEF HandleSet
<1>3. cache' = [cache EXCEPT ![e.key] =
        [status |-> IF e.suspended THEN "Suspended" ELSE "UnSuspended", uid |-> e.uid]]
  BY DEF HandleSet, SetResourceBinding
<1> HIDE DEF e
<1>4. QuietInv'
  BY <1>1 DEF QuietInv
<1>5. Tasked' = Tasked
  BY <1>1 DEF Tasked, Owed
<1>6. CASE e.op = "add"
  <2>1. /\ e.suspended /\ api[e.key].suspended /\ e.key \notin Started
        /\ \A j \in DOMAIN events : j # 1 /\ events[j].op = "add" => events[j].key # e.key
    BY <1>1, <1>6 DEF EventInv, AddInv
  <2>2. Holding' = Holding
    BY <1>1, <1>3, <2>1 DEF Holding, Started, Cached, TypeOK
  <2>3. Started' = Started \cup {e.key}
    BY <1>1, <1>3, <2>1 DEF Started, Cached, Owed, TypeOK
  <2>4. e.key \notin Tasked
    BY <2>1 DEF Started, Tasked
  <2>5. EventInv'
    <3>1. \A k \in Keys : k \in Started' =>
             \A i \in DOMAIN events : i # 1 /\ events[i].op = "add" => events[i].key # k
      BY <2>1, <2>3 DEF EventInv, AddInv
    <3>2. \A k \in Keys : k \notin Holding' =>
             \A i \in DOMAIN events : i # 1 /\ events[i].op = "update" => events[i].key # k
      BY <2>2 DEF EventInv, UpdateInv
    <3> QED
      BY <1>1, <1>5, <3>1, <3>2, TailKeepsEvents
  <2>6. BirthInv'
    BY <1>1, <2>3, TailKeepsBirth DEF e
  <2>7. \A k \in Keys : k # e.key => (Cached(k)' <=> Cached(k))
    BY <1>1, <1>3 DEF Cached, TypeOK
  <2>8. TaskInv'
    BY <1>1, <1>5, <2>2, <2>4, <2>7 DEF TaskInv
  <2>9. PendingInv' /\ ReleasedInv'
    BY <1>1, <2>2 DEF PendingInv, ReleasedInv
  <2>10. LoadInv'
    BY <1>1, <2>2, LoadShrinks
  <2> QED
    BY <1>4, <2>5, <2>6, <2>8, <2>9, <2>10
<1>7. CASE e.op = "update"
  <2>1. ~e.suspended /\ e.key \in Holding
    BY <1>1, <1>7 DEF EventInv, UpdateInv
  <2>2. Holding' = Holding
    BY <1>1, <1>3, <2>1 DEF Holding, TypeOK
  <2>3. \A k \in Keys : Cached(k)' <=> Cached(k)
    BY <1>1, <1>3, <2>1 DEF Cached, Holding, TypeOK
  <2>4. Started' = Started
    BY <1>1, <2>3 DEF Started, Owed
  <2>5. EventInv'
    <3>1. \A k \in Keys : k \in Started' =>
             \A i \in DOMAIN events : i # 1 /\ events[i].op = "add" => events[i].key # k
      BY <2>4 DEF EventInv, AddInv
    <3>2. \A k \in Keys : k \notin Holding' =>
             \A i \in DOMAIN events : i # 1 /\ events[i].op = "update" => events[i].key # k
      BY <2>2 DEF EventInv, UpdateInv
    <3> QED
      BY <1>1, <1>5, <3>1, <3>2, TailKeepsEvents
  <2>6. BirthInv'
    BY <1>1, <2>4, TailKeepsBirth
  <2>8. TaskInv'
    BY <1>1, <1>5, <2>2, <2>3 DEF TaskInv
  <2>9. PendingInv' /\ ReleasedInv'
    BY <1>1, <2>2 DEF PendingInv, ReleasedInv
  <2>10. LoadInv'
    BY <1>1, <2>2, LoadShrinks
  <2> QED
    BY <1>4, <2>5, <2>6, <2>8, <2>9, <2>10
<1> QED
  BY <1>2, <1>6, <1>7

LEMMA DroppedCapacity ==
    ASSUME TypeOK, CapacityInv, HandleDropped
    PROVE  CapacityInv'
<1> USE DEF CapacityInv
<1>1. /\ events # << >> /\ events' = Tail(events)
      /\ UNCHANGED <<api, cache, round, pending, alloc, tasks, worker, patch>>
      /\ budget' = [budget EXCEPT !["drop"] = @ - 1]
  BY DEF HandleDropped, Spend
<1>2. QuietInv'
  BY <1>1 DEF QuietInv, TypeOK, FaultKinds
<1>3. Tasked' = Tasked /\ Holding' = Holding /\ Started' = Started
  BY <1>1 DEF Tasked, Owed, Holding, Started, Cached
<1>4. \A k \in Keys : Cached(k)' <=> Cached(k)
  BY <1>1 DEF Cached
<1>5. EventInv'
  <2>1. \A k \in Keys : k \in Started' =>
           \A i \in DOMAIN events : i # 1 /\ events[i].op = "add" => events[i].key # k
    BY <1>3 DEF EventInv, AddInv
  <2>2. \A k \in Keys : k \notin Holding' =>
           \A i \in DOMAIN events : i # 1 /\ events[i].op = "update" => events[i].key # k
    BY <1>3 DEF EventInv, UpdateInv
  <2> QED
    BY <1>1, <1>3, <2>1, <2>2, TailKeepsEvents
<1>6. BirthInv'
  BY <1>1, <1>3, TailKeepsBirth
<1>7. TaskInv' /\ PendingInv' /\ ReleasedInv'
  BY <1>1, <1>3, <1>4 DEF TaskInv, PendingInv, ReleasedInv
<1>8. LoadInv'
  BY <1>1, <1>3, LoadShrinks
<1> QED
  BY <1>2, <1>5, <1>6, <1>7, <1>8

LEMMA DeleteCapacity ==
    ASSUME TypeOK, CapacityInv, HandleDelete
    PROVE  CapacityInv'
<1> DEFINE e == Head(events)
<1> USE DEF CapacityInv
<1>1. /\ e.key \in Keys /\ e \in Event /\ 1 \in DOMAIN events /\ events[1] = e
      /\ events # << >> /\ events' = Tail(events) /\ e.op = "delete"
      /\ cache' = [cache EXCEPT ![e.key] = NoInfo]
      /\ UNCHANGED <<api, round, pending, alloc, tasks, worker, patch, budget>>
  BY HeadFacts DEF HandleDelete
<1> HIDE DEF e
<1>2. QuietInv'
  BY <1>1 DEF QuietInv
<1>3. ~api[e.key].live /\ \A j \in DOMAIN events : j # 1 => events[j].key # e.key
  <2>1. DOMAIN events = 1..Len(events) /\ Len(events) \in Nat
    BY DEF TypeOK
  <2>2. \A j \in DOMAIN events : j # 1 => 1 < j
    BY <2>1
  <2> QED
    BY <1>1, <2>2 DEF EventInv, DeleteInv
<1>4. Holding' = Holding \ {e.key}
  BY <1>1 DEF Holding, NoInfo, TypeOK
<1>5. Tasked' = Tasked
  BY <1>1 DEF Tasked, Owed
<1>6. \A k \in Keys : Cached(k)' <=> k # e.key /\ Cached(k)
  BY <1>1 DEF Cached, NoInfo, TypeOK
<1>7. Started' \subseteq Started
  BY <1>1, <1>6 DEF Started, Owed
<1>8. EventInv'
  <2>1. \A k \in Keys : k \in Started' =>
           \A i \in DOMAIN events : i # 1 /\ events[i].op = "add" => events[i].key # k
    BY <1>7 DEF EventInv, AddInv
  <2>2. \A k \in Keys : k \notin Holding' =>
           \A i \in DOMAIN events : i # 1 /\ events[i].op = "update" => events[i].key # k
    BY <1>3, <1>4 DEF EventInv, UpdateInv
  <2> QED
    BY <1>1, <1>5, <2>1, <2>2, TailKeepsEvents
<1>9. BirthInv'
  BY <1>1, <1>7, TailKeepsBirth
<1>10. TaskInv'
  BY <1>1, <1>3, <1>4, <1>5, <1>6 DEF TaskInv
<1>11. PendingInv' /\ ReleasedInv'
  BY <1>1, <1>3, <1>4 DEF PendingInv, ReleasedInv
<1>12. LoadInv'
  BY <1>1, <1>4, LoadShrinks
<1> QED
  BY <1>2, <1>8, <1>9, <1>10, <1>11, <1>12

-----------------------------------------------------------------------------
(* The API server's other clients. *)

LEMMA CreateCapacity ==
    ASSUME TypeOK, CapacityInv, NEW k \in Keys, Create(k)
    PROVE  CapacityInv'
<1> DEFINE e == [op |-> "add", key |-> k, uid |-> api[k].uid + 1, suspended |-> TRUE]
<1> USE DEF CapacityInv
<1>1. api[k].uid = 0 /\ UNCHANGED budget
  BY DEF Create, Spend, QuietInv
<1>2. /\ ~api[k].live
      /\ api' = [api EXCEPT ![k] = [live |-> TRUE, uid |-> @.uid + 1, suspended |-> TRUE]]
      /\ events' = Append(events, e)
      /\ UNCHANGED <<cache, round, pending, alloc, tasks, worker, patch>>
  BY DEF Create
<1>3. /\ api'[k].live /\ api'[k].uid # 0 /\ api'[k].suspended
      /\ \A x \in Keys : x # k => api'[x] = api[x]
  BY <1>1, <1>2 DEF TypeOK, Object
<1>4. k \notin Started /\ \A i \in DOMAIN events : events[i].key # k
  BY <1>1 DEF BirthInv
<1>5. e \in Event /\ events \in Seq(Event) /\ e.op = "add" /\ e.key = k /\ e.suspended
  BY DEF Event, TypeOK, Object
<1> HIDE DEF e
<1>6. /\ \A i \in DOMAIN events' : \/ i \in DOMAIN events /\ events'[i] = events[i]
                                   \/ i \notin DOMAIN events /\ i = Len(events) + 1 /\ events'[i] = e
      /\ \A i, j \in DOMAIN events' : i < j => i \in DOMAIN events
  BY <1>2, <1>5, AppendAt
<1>7. \A i \in DOMAIN events : events[i].key \in Keys
  BY <1>5, EventKey
<1>8. Tasked' = Tasked /\ Holding' = Holding /\ Started' = Started
  BY <1>2 DEF Tasked, Owed, Holding, Started, Cached
<1>9. \A x \in Keys : Cached(x)' <=> Cached(x)
  BY <1>2 DEF Cached
<1>10. QuietInv'
  BY <1>1 DEF QuietInv
<1>11. BirthInv'
  BY <1>3, <1>5, <1>6, <1>8 DEF BirthInv
<1>12. AddInv'
  BY <1>3, <1>4, <1>5, <1>6, <1>7, <1>8 DEF EventInv, AddInv
<1>13. UpdateInv'
  BY <1>5, <1>6, <1>8 DEF EventInv, UpdateInv
<1>14. DeleteInv'
  BY <1>3, <1>4, <1>5, <1>6, <1>7 DEF EventInv, DeleteInv
<1>15. k \notin Tasked
  BY <1>4 DEF Started, Tasked
<1>16. TaskInv'
  BY <1>2, <1>3, <1>8, <1>9, <1>15 DEF TaskInv
<1>17. PendingInv'
  BY <1>2, <1>8 DEF PendingInv
<1>18. ReleasedInv'
  BY <1>3, <1>8 DEF ReleasedInv
<1>19. LoadInv'
  BY <1>2, <1>8, LoadShrinks
<1> QED
  BY <1>10, <1>11, <1>12, <1>13, <1>14, <1>16, <1>17, <1>18, <1>19 DEF EventInv

LEMMA GoneCapacity ==
    ASSUME TypeOK, CapacityInv, NEW k \in Keys, Delete(k)
    PROVE  CapacityInv'
<1> DEFINE e == Note("delete", k)
<1> USE DEF CapacityInv
<1>2. /\ api[k].live
      /\ api' = [api EXCEPT ![k].live = FALSE]
      /\ events' = Append(events, e)
      /\ UNCHANGED <<cache, round, pending, alloc, tasks, worker, patch, budget>>
  BY DEF Delete
<1>3. /\ ~api'[k].live /\ api'[k].uid = api[k].uid /\ api'[k].suspended = api[k].suspended
      /\ \A x \in Keys : x # k => api'[x] = api[x]
  BY <1>2 DEF TypeOK, Object
<1>4. api[k].uid # 0
  BY <1>2 DEF BirthInv
<1>5. e \in Event /\ events \in Seq(Event) /\ e.op = "delete" /\ e.key = k
  BY NoteType DEF Note, TypeOK
<1> HIDE DEF e
<1>6. /\ \A i \in DOMAIN events' : \/ i \in DOMAIN events /\ events'[i] = events[i]
                                   \/ i \notin DOMAIN events /\ i = Len(events) + 1 /\ events'[i] = e
      /\ \A i, j \in DOMAIN events' : i < j => i \in DOMAIN events
  BY <1>2, <1>5, AppendAt
<1>7. \A i \in DOMAIN events : events[i].key \in Keys
  BY <1>5, EventKey
<1>8. Tasked' = Tasked /\ Holding' = Holding /\ Started' = Started
  BY <1>2 DEF Tasked, Owed, Holding, Started, Cached
<1>9. \A x \in Keys : Cached(x)' <=> Cached(x)
  BY <1>2 DEF Cached
<1>10. QuietInv'
  BY <1>2 DEF QuietInv
<1>11. BirthInv'
  BY <1>3, <1>4, <1>5, <1>6, <1>8 DEF BirthInv
<1>12. AddInv'
  <2> SUFFICES ASSUME NEW i \in DOMAIN events', events'[i].op = "add"
               PROVE  /\ events'[i].suspended /\ api'[events'[i].key].suspended
                      /\ events'[i].key \notin Started'
                      /\ \A j \in DOMAIN events' :
                            i # j /\ events'[j].op = "add" => events'[j].key # events'[i].key
    BY DEF AddInv
  <2>1. i \in DOMAIN events /\ events'[i] = events[i] /\ events[i].key \in Keys
    BY <1>5, <1>6, <1>7
  <2>2. /\ events[i].suspended /\ api[events[i].key].suspended
        /\ events[i].key \notin Started
        /\ \A j \in DOMAIN events :
              i # j /\ events[j].op = "add" => events[j].key # events[i].key
    BY <2>1 DEF EventInv, AddInv
  <2>3. api'[events[i].key].suspended
    BY <1>3, <2>1, <2>2
  <2> QED
    BY <1>5, <1>6, <1>8, <2>1, <2>2, <2>3
<1>13. UpdateInv'
  BY <1>5, <1>6, <1>8 DEF EventInv, UpdateInv
<1>14. DeleteInv'
  <2> SUFFICES ASSUME NEW i \in DOMAIN events', events'[i].op = "delete"
               PROVE  /\ ~api'[events'[i].key].live
                      /\ \A j \in DOMAIN events' : i < j => events'[j].key # events'[i].key
    BY DEF DeleteInv
  <2>1. CASE i \in DOMAIN events /\ events'[i] = events[i]
    <3>1. /\ ~api[events[i].key].live /\ events[i].key \in Keys /\ events[i].key # k
          /\ \A j \in DOMAIN events : i < j => events[j].key # events[i].key
      BY <1>2, <1>7, <2>1 DEF EventInv, DeleteInv
    <3> QED
      BY <1>3, <1>5, <1>6, <2>1, <3>1
  <2>2. CASE i \notin DOMAIN events /\ events'[i] = e
    BY <1>3, <1>5, <1>6, <2>2
  <2> QED
    BY <1>6, <2>1, <2>2
<1>16. TaskInv'
  BY <1>2, <1>3, <1>8, <1>9 DEF TaskInv
<1>17. PendingInv'
  BY <1>2, <1>8 DEF PendingInv
<1>18. ReleasedInv'
  BY <1>3, <1>8 DEF ReleasedInv
<1>19. LoadInv'
  BY <1>2, <1>8, LoadShrinks
<1> QED
  BY <1>10, <1>11, <1>12, <1>13, <1>14, <1>16, <1>17, <1>18, <1>19 DEF EventInv

-----------------------------------------------------------------------------
(* The dispatch round. *)

LEMMA OpenCapacity ==
    ASSUME TypeOK, CapacityInv, OpenSession
    PROVE  CapacityInv'
<1> USE DEF CapacityInv
<1>1. /\ round' = "open"
      /\ pending' = {<<k, cache[k].uid>> : k \in {x \in Keys : cache[x].status = "Suspended"}}
      /\ alloc' = [q \in Queues |-> Load(Charged(q))]
      /\ UNCHANGED <<api, events, cache, tasks, worker, patch, budget>>
      /\ pending = {}
  BY DEF OpenSession, PendingInv
<1>2. Tasked' = Tasked /\ Holding' = Holding
  BY <1>1 DEF Tasked, Owed, Holding
<1>3. \A k \in Keys : Cached(k)' <=> Cached(k)
  BY <1>1 DEF Cached
<1>4. \A info \in pending' : \E k \in Keys : info = <<k, cache[k].uid>> /\ cache[k].status = "Suspended"
  BY <1>1
<1>5. Started' \subseteq Started
  BY <1>1, <1>4 DEF Started, Owed, Cached
<1>6. QuietInv' /\ BirthInv'
  BY <1>1, <1>5 DEF QuietInv, BirthInv
<1>7. EventInv'
  <2>1. \A i \in DOMAIN events : events[i].key \in Keys
    BY EventKey DEF TypeOK
  <2>2. AddInv'
    BY <1>1, <1>5, <2>1 DEF EventInv, AddInv
  <2> QED
    BY <1>1, <1>2, <2>1, <2>2 DEF EventInv, UpdateInv, DeleteInv
<1>8. TaskInv'
  BY <1>1, <1>2, <1>3 DEF TaskInv
<1>9. PendingInv'
  <2>1. \A info \in pending' : info[1] \notin Holding
    BY <1>4 DEF Holding
  <2>2. \A info, other \in pending' : info[1] = other[1] => info = other
    BY <1>4
  <2> QED
    BY <1>1, <1>2, <2>1, <2>2 DEF PendingInv
<1>10. ReleasedInv'
  BY <1>1, <1>2 DEF ReleasedInv
<1>11. LoadInv'
  <2>1. \A q \in Queues : Charged(q)' = Charged(q) /\ Load(Charged(q)) \in Nat
    BY <1>1, LoadType DEF Charged
  <2>2. \A q \in Queues : Load(Charged(q))' = Load(Charged(q))
    BY <2>1 DEF Load, Units
  <2> QED
    BY <1>1, <2>1, <2>2 DEF LoadInv
<1> QED
  BY <1>6, <1>7, <1>8, <1>9, <1>10, <1>11

LEMMA CloseCapacity ==
    ASSUME TypeOK, CapacityInv, CloseSession
    PROVE  CapacityInv'
<1> USE DEF CapacityInv
<1>1. /\ round' = "idle" /\ pending = {}
      /\ UNCHANGED <<api, events, cache, pending, tasks, worker, patch, budget>>
  BY DEF CloseSession
<1>2. Tasked' = Tasked /\ Holding' = Holding /\ Started' = Started
  BY <1>1 DEF Tasked, Owed, Holding, Started, Cached
<1>3. \A k \in Keys : Cached(k)' <=> Cached(k)
  BY <1>1 DEF Cached
<1>4. QuietInv' /\ BirthInv' /\ EventInv' /\ TaskInv' /\ PendingInv' /\ ReleasedInv'
  BY <1>1, <1>2, <1>3
     DEF QuietInv, BirthInv, EventInv, AddInv, UpdateInv, DeleteInv, TaskInv, PendingInv,
         ReleasedInv
<1>5. \A q \in Queues : Charged(q)' = Charged(q)
  BY <1>1 DEF Charged
<1>6. \A q \in Queues : Load(Charged(q))' = Load(Charged(q))
  BY <1>5 DEF Load, Units
<1>7. LoadInv'
  BY <1>1, <1>6 DEF LoadInv
<1> QED
  BY <1>4, <1>7

\* A binding considered leaves the session; nothing else changes but allocated.
LEMMA IgnoreCapacity ==
    ASSUME TypeOK, CapacityInv, NEW k \in Keys, Ignore(k)
    PROVE  CapacityInv'
<1> USE DEF CapacityInv
<1>1. /\ pending' \subseteq pending
      /\ UNCHANGED <<api, events, cache, round, alloc, tasks, worker, patch, budget>>
  BY DEF Ignore
<1>2. Tasked' = Tasked /\ Holding' = Holding /\ Started' \subseteq Started
  BY <1>1 DEF Tasked, Owed, Holding, Started, Cached
<1>3. \A x \in Keys : Cached(x)' <=> Cached(x)
  BY <1>1 DEF Cached
<1>4. \A i \in DOMAIN events : events[i].key \in Keys
  BY EventKey DEF TypeOK
<1>5. QuietInv' /\ BirthInv' /\ TaskInv' /\ PendingInv' /\ ReleasedInv'
  BY <1>1, <1>2, <1>3
     DEF QuietInv, BirthInv, TaskInv, PendingInv, ReleasedInv
<1>6. AddInv'
  BY <1>1, <1>2, <1>4 DEF EventInv, AddInv
<1>7. UpdateInv' /\ DeleteInv'
  BY <1>1, <1>2 DEF EventInv, UpdateInv, DeleteInv
<1>8. LoadInv'
  BY <1>1, <1>2, LoadShrinks
<1> QED
  BY <1>5, <1>6, <1>7, <1>8 DEF EventInv

LEMMA DispatchCapacity ==
    ASSUME TypeOK, CapacityInv, NEW k \in Keys, Dispatch(k)
    PROVE  CapacityInv'
<1> USE DEF CapacityInv
<1>1. PICK info \in pending :
        /\ info[1] = k
        /\ Fits(alloc[QueueOf[k]], k)
        /\ pending' = pending \ {info}
        /\ alloc' = [alloc EXCEPT ![QueueOf[k]] = @ + Req[k]]
        /\ UnSuspendResourceBinding(k)
        /\ UNCHANGED <<api, events, round, worker, patch, budget>>
  BY DEF Dispatch
<1>2. k \notin Holding /\ round = "open" /\ k \in Started
  BY <1>1 DEF PendingInv, TypeOK, Started
<1>3. \A other \in pending' : other[1] # k
  BY <1>1 DEF PendingInv
<1>4. \A i \in DOMAIN events : events[i].key \in Keys
  BY EventKey DEF TypeOK
<1>5. QueueOf[k] \in Queues /\ Req[k] \in Nat /\ \A q \in Queues : alloc[q] \in Nat /\ Cap[q] \in Nat
  BY DemandAssumption DEF TypeOK
<1>6. /\ \A q \in Queues : q # QueueOf[k] => alloc'[q] = alloc[q]
      /\ alloc'[QueueOf[k]] = alloc[QueueOf[k]] + Req[k]
  BY <1>1, <1>5 DEF TypeOK
<1>7. QuietInv'
  BY <1>1 DEF QuietInv
<1>8. CASE ~Cached(k)
  <2>1. UNCHANGED <<cache, tasks>>
    BY <1>1, <1>8 DEF UnSuspendResourceBinding
  <2>2. Tasked' = Tasked /\ Holding' = Holding /\ Started' \subseteq Started
    BY <1>1, <2>1 DEF Tasked, Owed, Holding, Started, Cached
  <2>3. \A x \in Keys : Cached(x)' <=> Cached(x)
    BY <2>1 DEF Cached
  <2>4. BirthInv' /\ TaskInv' /\ PendingInv' /\ ReleasedInv'
    BY <1>1, <2>1, <2>2, <2>3 DEF BirthInv, TaskInv, PendingInv, ReleasedInv
  <2>5. AddInv'
    BY <1>1, <1>4, <2>2 DEF EventInv, AddInv
  <2>6. UpdateInv' /\ DeleteInv'
    BY <1>1, <2>2 DEF EventInv, UpdateInv, DeleteInv
  <2>7. \A q \in Queues : Charged(q)' = Charged(q) /\ Load(Charged(q)) \in Nat
    BY <2>1, LoadType DEF Charged
  <2>8. \A q \in Queues : Load(Charged(q))' = Load(Charged(q))
    BY <2>7 DEF Load, Units
  <2>9. LoadInv'
    BY <1>1, <1>5, <1>6, <2>7, <2>8 DEF LoadInv
  <2> QED
    BY <1>7, <2>4, <2>5, <2>6, <2>9 DEF EventInv
<1>9. CASE Cached(k)
  <2>1. /\ cache' = [cache EXCEPT ![k].status = "UnSuspending"]
        /\ tasks' = Add(tasks, k)
    BY <1>1, <1>9 DEF UnSuspendResourceBinding
  <2>2. tasks'.dirty = tasks.dirty \cup {k}
    BY <2>1 DEF Add, TypeOK, QueueTypes
  <2>3. Holding' = Holding \cup {k}
    BY <2>1 DEF Holding, TypeOK
  <2>4. Tasked' = Tasked \cup {k}
    BY <1>1, <2>2 DEF Tasked, Owed
  <2>5. \A x \in Keys : Cached(x)' <=> Cached(x)
    BY <1>9, <2>1 DEF Cached, TypeOK
  <2>6. Started' \subseteq Started
    BY <1>1, <1>2, <2>2, <2>5 DEF Started, Owed
  <2>7. BirthInv'
    BY <1>1, <2>6 DEF BirthInv
  <2>8. AddInv'
    BY <1>1, <1>4, <2>6 DEF EventInv, AddInv
  <2>9. UpdateInv' /\ DeleteInv'
    BY <1>1, <1>2, <2>3, <2>4 DEF EventInv, UpdateInv, DeleteInv
  <2>10. k \notin Tasked
    BY <1>2, <1>9 DEF TaskInv
  <2>11. api[k].live => api[k].suspended
    BY <1>2 DEF ReleasedInv
  <2>12. ~(patch[k] \in {"sent", "failed"} \/ \E w \in Workers : worker[w] = k)
    BY <2>10 DEF Tasked, Owed
  <2>13. TaskInv'
    BY <1>1, <1>9, <2>2, <2>3, <2>4, <2>5, <2>11, <2>12 DEF TaskInv
  <2>14. PendingInv'
    BY <1>1, <1>2, <1>3, <2>3 DEF PendingInv
  <2>15. ReleasedInv'
    BY <1>1, <2>3 DEF ReleasedInv
  <2>16. /\ Charged(QueueOf[k])' = Charged(QueueOf[k]) \cup {k}
         /\ \A q \in Queues : q # QueueOf[k] => Charged(q)' = Charged(q)
    BY <2>3 DEF Charged, Holding
  <2>17. /\ \A q \in Queues : Load(Charged(q)) \in Nat
         /\ Load(Charged(QueueOf[k]) \cup {k}) = Load(Charged(QueueOf[k])) + Req[k]
    BY <1>2, ChargedKeys, LoadType, LoadAdd, <1>5 DEF Charged, Holding
  <2>18. \A q \in Queues : Load(Charged(q))' =
            IF q = QueueOf[k] THEN Load(Charged(q)) + Req[k] ELSE Load(Charged(q))
    BY <2>16, <2>17 DEF Load, Units
  <2>19. LoadInv'
    <3>1. ASSUME NEW q \in Queues
          PROVE  /\ Load(Charged(q))' <= Cap[q]
                 /\ Load(Charged(q))' <= alloc'[q]
      <4>1. Load(Charged(q)) <= Cap[q] /\ Load(Charged(q)) <= alloc[q]
        BY <1>2 DEF LoadInv
      <4>2. Req[k] = 0 \/ alloc[QueueOf[k]] + Req[k] <= Cap[QueueOf[k]]
        BY <1>1 DEF Fits
      <4> QED
        BY <1>5, <1>6, <2>17, <2>18, <4>1, <4>2
    <3> QED
      BY <3>1 DEF LoadInv
  <2> QED
    BY <1>7, <2>7, <2>8, <2>9, <2>13, <2>14, <2>15, <2>19 DEF EventInv
<1> QED
  BY <1>8, <1>9
-----------------------------------------------------------------------------
(* The workers and the patches. *)

\* A task that moves on, or ends, without a change to a binding.
LEMMA TaskMovesOn ==
    ASSUME CapacityInv, TypeOK, UNCHANGED <<api, events, cache, round, pending, alloc>>,
           QuietInv', Tasked' \subseteq Tasked, Started' \subseteq Started,
           \A k \in Keys : (patch'[k] \in {"sent", "failed"} \/ \E w \in Workers : worker'[w] = k)
                           => k \notin tasks'.dirty
    PROVE  CapacityInv'
<1> USE DEF CapacityInv
<1>1. Holding' = Holding
  BY DEF Holding
<1>2. \A k \in Keys : Cached(k)' <=> Cached(k)
  BY DEF Cached
<1>3. \A i \in DOMAIN events : events[i].key \in Keys
  BY EventKey DEF TypeOK
<1>4. BirthInv' /\ PendingInv' /\ ReleasedInv'
  BY <1>1 DEF BirthInv, PendingInv, ReleasedInv
<1>5. AddInv'
  BY <1>3 DEF EventInv, AddInv
<1>6. UpdateInv' /\ DeleteInv'
  BY <1>1, <1>3 DEF EventInv, UpdateInv, DeleteInv
<1>7. TaskInv'
  BY <1>1, <1>2 DEF TaskInv
<1>8. LoadInv'
  BY <1>1, LoadShrinks
<1> QED
  BY <1>4, <1>5, <1>6, <1>7, <1>8 DEF EventInv

LEMMA WorkerCapacity ==
    ASSUME TypeOK, FlightInv, CapacityInv, NEW w \in Workers, Work(w)
    PROVE  CapacityInv'
<1>1. TaskInv /\ QuietInv
  BY DEF CapacityInv
<1>2. CASE WorkerGet(w)
  <2> DEFINE k == Head(tasks.queue)
  <2>1. /\ tasks.queue \in Seq(Keys) /\ tasks.queue # << >> /\ k \in Keys
        /\ k = tasks.queue[1] /\ 1 \in DOMAIN tasks.queue
    BY <1>2 DEF WorkerGet, TypeOK, QueueTypes
  <2>2. k \in tasks.dirty
    BY <2>1 DEF FlightInv, QueueInv
  <2>3. /\ tasks'.dirty = tasks.dirty \ {k}
        /\ worker' = [worker EXCEPT ![w] = k] /\ worker[w] = NoKey
        /\ UNCHANGED <<api, events, cache, round, pending, alloc, patch, budget>>
    BY <1>2 DEF WorkerGet, Get
  <2> HIDE DEF k
  <2>4. \A x \in Keys : Owed(x)' => Owed(x)
    BY <2>2, <2>3, DispatcherAssumption DEF Owed, TypeOK
  <2>5. Tasked' \subseteq Tasked
    BY <2>4 DEF Tasked
  <2>6. Started' \subseteq Started
    BY <2>3, <2>4 DEF Started, Cached
  <2>7. \A x \in Keys : (patch'[x] \in {"sent", "failed"} \/ \E v \in Workers : worker'[v] = x)
                          => x \notin tasks'.dirty
    BY <1>1, <2>3 DEF TaskInv, TypeOK
  <2>8. QuietInv'
    BY <1>1, <2>3 DEF QuietInv
  <2> QED
    BY <2>3, <2>5, <2>6, <2>7, <2>8, TaskMovesOn
<1>3. CASE WorkerBreak(w)
  <2>3. /\ worker' = [worker EXCEPT ![w] = NoKey]
        /\ UNCHANGED <<api, events, cache, round, pending, alloc, tasks, patch, budget>>
    BY <1>3 DEF WorkerBreak
  <2>4. \A x \in Keys : Owed(x)' => Owed(x)
    BY <2>3, DispatcherAssumption DEF Owed, TypeOK
  <2>5. Tasked' \subseteq Tasked
    BY <2>4 DEF Tasked
  <2>6. Started' \subseteq Started
    BY <2>3, <2>4 DEF Started, Cached
  <2>7. \A x \in Keys : (patch'[x] \in {"sent", "failed"} \/ \E v \in Workers : worker'[v] = x)
                          => x \notin tasks'.dirty
    BY <1>1, <2>3, DispatcherAssumption DEF TaskInv, TypeOK
  <2>8. QuietInv'
    BY <1>1, <2>3 DEF QuietInv
  <2> QED
    BY <2>3, <2>5, <2>6, <2>7, <2>8, TaskMovesOn
<1>4. CASE WorkerGo(w)
  <2>3. /\ worker[w] \in Keys
        /\ patch' = [patch EXCEPT ![worker[w]] = "sent"]
        /\ worker' = [worker EXCEPT ![w] = NoKey]
        /\ UNCHANGED <<api, events, cache, round, pending, alloc, tasks, budget>>
    BY <1>4 DEF WorkerGo, TypeOK
  <2>4. \A x \in Keys : Owed(x)' => Owed(x)
    BY <2>3, DispatcherAssumption DEF Owed, TypeOK
  <2>5. Tasked' \subseteq Tasked
    BY <2>4 DEF Tasked
  <2>6. Started' \subseteq Started
    BY <2>3, <2>4 DEF Started, Cached, Owed, TypeOK
  <2>7. \A x \in Keys : (patch'[x] \in {"sent", "failed"} \/ \E v \in Workers : worker'[v] = x)
                          => x \notin tasks'.dirty
    BY <1>1, <2>3, DispatcherAssumption DEF TaskInv, TypeOK
  <2>8. QuietInv'
    BY <1>1, <2>3 DEF QuietInv
  <2> QED
    BY <2>3, <2>5, <2>6, <2>7, <2>8, TaskMovesOn
<1> QED
  BY <1>2, <1>3, <1>4 DEF Work

LEMMA RejectedCapacity ==
    ASSUME TypeOK, CapacityInv, NEW k \in Keys, PatchRejected(k)
    PROVE  CapacityInv'
<1>1. TaskInv /\ QuietInv
  BY DEF CapacityInv
<1>2. /\ patch[k] = "sent" /\ patch' = [patch EXCEPT ![k] = "failed"]
      /\ budget' = budget \/ budget' = [budget EXCEPT !["reject"] = @ - 1]
      /\ UNCHANGED <<api, events, cache, round, pending, alloc, tasks, worker>>
  BY DEF PatchRejected, Spend
<1>3. QuietInv'
  BY <1>1, <1>2 DEF QuietInv, TypeOK, FaultKinds
<1>4. \A x \in Keys : Owed(x)' => Owed(x)
  BY <1>2 DEF Owed, TypeOK
<1>5. Tasked' \subseteq Tasked
  BY <1>4 DEF Tasked
<1>6. Started' \subseteq Started
  BY <1>2, <1>4 DEF Started, Cached, TypeOK
<1>7. \A x \in Keys : (patch'[x] \in {"sent", "failed"} \/ \E v \in Workers : worker'[v] = x)
                        => x \notin tasks'.dirty
  BY <1>1, <1>2 DEF TaskInv, TypeOK
<1> QED
  BY <1>2, <1>3, <1>5, <1>6, <1>7, TaskMovesOn

LEMMA DoneCapacity ==
    ASSUME TypeOK, CapacityInv, NEW k \in Keys, PatchDone(k)
    PROVE  CapacityInv'
<1>1. TaskInv /\ QuietInv
  BY DEF CapacityInv
<1>2. /\ patch[k] = "done" /\ patch' = [patch EXCEPT ![k] = "none"]
      /\ tasks'.dirty = tasks.dirty
      /\ UNCHANGED <<api, events, cache, round, pending, alloc, worker, budget>>
  BY DEF PatchDone, Done, TypeOK, QueueTypes
<1>3. QuietInv'
  BY <1>1, <1>2 DEF QuietInv
<1>4. \A x \in Keys : Owed(x)' => Owed(x)
  BY <1>2 DEF Owed, TypeOK
<1>5. Tasked' \subseteq Tasked
  BY <1>4 DEF Tasked
<1>6. Started' \subseteq Started
  BY <1>2, <1>4 DEF Started, Cached, TypeOK
<1>7. \A x \in Keys : (patch'[x] \in {"sent", "failed"} \/ \E v \in Workers : worker'[v] = x)
                        => x \notin tasks'.dirty
  BY <1>1, <1>2 DEF TaskInv, TypeOK
<1> QED
  BY <1>2, <1>3, <1>5, <1>6, <1>7, TaskMovesOn
\* A goroutine that is at work has the only task of its key.
LEMMA OnlyTask ==
    ASSUME TypeOK, FlightInv, CapacityInv, NEW k \in Keys, patch[k] \in {"sent", "failed"}
    PROVE  /\ k \in Tasked /\ k \in Started /\ k \notin tasks.dirty
           /\ \A w \in Workers : worker[w] # k
           /\ api[k].uid # 0
<1>1. k \in Tasked /\ k \in Started
  BY DEF Tasked, Started, Owed
<1>2. k \notin tasks.dirty
  BY DEF CapacityInv, TaskInv
<1>3. \A w \in Workers : worker[w] # k
  BY DispatcherAssumption DEF FlightInv, SingleFlight
<1>4. api[k].uid # 0
  BY <1>1 DEF CapacityInv, BirthInv
<1> QED
  BY <1>1, <1>2, <1>3, <1>4

LEMMA AppliedCapacity ==
    ASSUME TypeOK, FlightInv, CapacityInv, NEW k \in Keys, PatchApplied(k)
    PROVE  CapacityInv'
<1> DEFINE e == [Note("update", k) EXCEPT !.suspended = FALSE]
<1>1. /\ patch[k] = "sent" /\ patch' = [patch EXCEPT ![k] = "done"]
      /\ api[k].live /\ api' = [api EXCEPT ![k].suspended = FALSE]
      /\ events' = IF api[k].suspended THEN Append(events, e) ELSE events
      /\ UNCHANGED <<cache, round, pending, alloc, tasks, worker, budget>>
  BY DEF PatchApplied, Apply
<1>2. /\ k \in Tasked /\ k \in Started /\ k \notin tasks.dirty
      /\ \A w \in Workers : worker[w] # k
      /\ api[k].uid # 0
  BY <1>1, OnlyTask
<1>3. api[k].suspended /\ Cached(k) /\ k \in Holding
  BY <1>1, <1>2 DEF CapacityInv, TaskInv
<1>4. e \in Event /\ events \in Seq(Event) /\ e.op = "update" /\ e.key = k /\ ~e.suspended
  BY NoteType DEF Note, TypeOK, Event
<1>5. events' = Append(events, e)
  BY <1>1, <1>3
<1> HIDE DEF e
<1>6. /\ \A i \in DOMAIN events' : \/ i \in DOMAIN events /\ events'[i] = events[i]
                                   \/ i \notin DOMAIN events /\ i = Len(events) + 1 /\ events'[i] = e
      /\ \A i, j \in DOMAIN events' : i < j => i \in DOMAIN events
  BY <1>4, <1>5, AppendAt
<1>7. \A i \in DOMAIN events : events[i].key \in Keys
  BY <1>4, EventKey
<1>8. /\ api'[k].live /\ api'[k].uid = api[k].uid
      /\ \A x \in Keys : x # k => api'[x] = api[x]
  BY <1>1 DEF TypeOK, Object
<1>9. \A x \in Keys : Owed(x)' <=> x # k /\ Owed(x)
  BY <1>1, <1>2 DEF Owed, TypeOK
<1>10. Tasked' = Tasked \ {k}
  BY <1>9 DEF Tasked
<1>11. Holding' = Holding
  BY <1>1 DEF Holding
<1>12. \A x \in Keys : Cached(x)' <=> Cached(x)
  BY <1>1 DEF Cached
<1>13. Started' \subseteq Started
  BY <1>1, <1>2, <1>9, <1>12 DEF Started, TypeOK
<1> USE DEF CapacityInv
<1>14. QuietInv'
  BY <1>1 DEF QuietInv
<1>15. BirthInv'
  BY <1>2, <1>4, <1>6, <1>8, <1>13 DEF BirthInv
<1>16. AddInv'
  <2> SUFFICES ASSUME NEW i \in DOMAIN events', events'[i].op = "add"
               PROVE  /\ events'[i].suspended /\ api'[events'[i].key].suspended
                      /\ events'[i].key \notin Started'
                      /\ \A j \in DOMAIN events' :
                            i # j /\ events'[j].op = "add" => events'[j].key # events'[i].key
    BY DEF AddInv
  <2>1. i \in DOMAIN events /\ events'[i] = events[i] /\ events[i].key \in Keys
    BY <1>4, <1>6, <1>7
  <2>2. /\ events[i].suspended /\ api[events[i].key].suspended
        /\ events[i].key \notin Started
        /\ \A j \in DOMAIN events :
              i # j /\ events[j].op = "add" => events[j].key # events[i].key
    BY <2>1 DEF EventInv, AddInv
  <2>3. events[i].key # k /\ events[i].key \notin Started'
    BY <1>2, <1>13, <2>2
  <2> QED
    BY <1>4, <1>6, <1>8, <2>1, <2>2, <2>3
<1>17. UpdateInv'
  BY <1>3, <1>4, <1>6, <1>7, <1>10, <1>11 DEF EventInv, UpdateInv
<1>18. DeleteInv'
  <2> SUFFICES ASSUME NEW i \in DOMAIN events', events'[i].op = "delete"
               PROVE  /\ ~api'[events'[i].key].live
                      /\ \A j \in DOMAIN events' : i < j => events'[j].key # events'[i].key
    BY DEF DeleteInv
  <2>1. i \in DOMAIN events /\ events'[i] = events[i] /\ events[i].key \in Keys
    BY <1>4, <1>6, <1>7
  <2>2. /\ ~api[events[i].key].live
        /\ \A j \in DOMAIN events : i < j => events[j].key # events[i].key
    BY <2>1 DEF EventInv, DeleteInv
  <2>3. events[i].key # k
    BY <1>1, <2>2
  <2> QED
    BY <1>4, <1>6, <1>8, <2>1, <2>2, <2>3
<1>19. TaskInv'
  <2>1. ASSUME NEW x \in Keys, x \in Tasked'
        PROVE  /\ Cached(x)' => x \in Holding'
               /\ api'[x].live => Cached(x)' /\ api'[x].suspended
    BY <1>8, <1>10, <1>11, <1>12, <2>1 DEF TaskInv
  <2>2. ASSUME NEW x \in Keys, patch'[x] \in {"sent", "failed"} \/ \E w \in Workers : worker'[w] = x
        PROVE  x \notin tasks'.dirty
    BY <1>1, <2>2 DEF TaskInv, TypeOK
  <2> QED
    BY <2>1, <2>2 DEF TaskInv
<1>20. PendingInv'
  BY <1>1, <1>11 DEF PendingInv
<1>21. ReleasedInv'
  BY <1>3, <1>8, <1>11 DEF ReleasedInv
<1>22. LoadInv'
  BY <1>1, <1>11, LoadShrinks
<1> QED
  BY <1>14, <1>15, <1>16, <1>17, <1>18, <1>19, <1>20, <1>21, <1>22 DEF EventInv

LEMMA RecoverCapacity ==
    ASSUME TypeOK, FlightInv, CapacityInv, NEW k \in Keys, PatchRecover(k)
    PROVE  CapacityInv'
<1>1. /\ patch[k] = "failed" /\ patch' = [patch EXCEPT ![k] = "done"]
      /\ cache' = IF Cached(k) THEN [cache EXCEPT ![k].status = "Suspended"] ELSE cache
      /\ UNCHANGED <<api, events, round, pending, alloc, tasks, worker, budget>>
  BY DEF PatchRecover
<1>2. /\ k \in Tasked /\ k \in Started /\ k \notin tasks.dirty
      /\ \A w \in Workers : worker[w] # k
  BY <1>1, OnlyTask
<1>3. api[k].live => api[k].suspended
  BY <1>2 DEF CapacityInv, TaskInv
<1>4. Holding' = Holding \ {k}
  BY <1>1 DEF Holding, Cached, TypeOK
<1>5. \A x \in Keys : Cached(x)' <=> Cached(x)
  BY <1>1 DEF Cached, TypeOK
<1>6. \A x \in Keys : Owed(x)' <=> x # k /\ Owed(x)
  BY <1>1, <1>2 DEF Owed, TypeOK
<1>7. Tasked' = Tasked \ {k}
  BY <1>6 DEF Tasked
<1>8. Started' \subseteq Started
  BY <1>1, <1>2, <1>5, <1>6 DEF Started, TypeOK
<1>9. \A i \in DOMAIN events : events[i].key \in Keys
  BY EventKey DEF TypeOK
<1> USE DEF CapacityInv
<1>10. QuietInv' /\ BirthInv'
  BY <1>1, <1>8 DEF QuietInv, BirthInv
<1>11. AddInv'
  BY <1>1, <1>8, <1>9 DEF EventInv, AddInv
\* No update of k is on its way: it would report a release.
<1>12. UpdateInv'
  BY <1>1, <1>2, <1>4, <1>7, <1>9 DEF EventInv, UpdateInv
<1>13. DeleteInv'
  BY <1>1 DEF EventInv, DeleteInv
<1>14. TaskInv'
  <2>1. ASSUME NEW x \in Keys, x \in Tasked'
        PROVE  /\ Cached(x)' => x \in Holding'
               /\ api'[x].live => Cached(x)' /\ api'[x].suspended
    BY <1>1, <1>4, <1>5, <1>7, <2>1 DEF TaskInv
  <2>2. ASSUME NEW x \in Keys, patch'[x] \in {"sent", "failed"} \/ \E w \in Workers : worker'[w] = x
        PROVE  x \notin tasks'.dirty
    BY <1>1, <2>2 DEF TaskInv, TypeOK
  <2> QED
    BY <2>1, <2>2 DEF TaskInv
<1>15. PendingInv' /\ ReleasedInv'
  BY <1>1, <1>3, <1>4 DEF PendingInv, ReleasedInv
<1>16. LoadInv'
  BY <1>1, <1>4, LoadShrinks
<1> QED
  BY <1>10, <1>11, <1>12, <1>13, <1>14, <1>15, <1>16 DEF EventInv

\* A fault with no budget does not happen.
LEMMA NoFault ==
    ASSUME QuietInv, NEW f \in {"touch", "lose", "recreate", "restart"}
    PROVE  ~Spend(f)
BY DEF QuietInv, Spend

LEMMA CapacityNext == TypeOK /\ FlightInv /\ CapacityInv /\ [Next]_vars => CapacityInv'
<1> SUFFICES ASSUME TypeOK, FlightInv, CapacityInv, [Next]_vars
             PROVE  CapacityInv'
  OBVIOUS
<1>1. QuietInv
  BY DEF CapacityInv
<1>2. ~Restart /\ \A k \in Keys : ~Touch(k) /\ ~PatchLost(k)
  BY <1>1, NoFault DEF Restart, Touch, PatchLost
<1>3. ASSUME NEW k \in Keys, Create(k) \/ Delete(k)
      PROVE  CapacityInv'
  BY <1>3, CreateCapacity, GoneCapacity
<1>4. ASSUME Handle
      PROVE  CapacityInv'
  BY <1>4, SetCapacity, DroppedCapacity, DeleteCapacity DEF Handle
<1>5. ASSUME OpenSession \/ CloseSession
      PROVE  CapacityInv'
  BY <1>5, OpenCapacity, CloseCapacity
<1>6. ASSUME NEW k \in Keys, Dispatch(k) \/ Ignore(k)
      PROVE  CapacityInv'
  BY <1>6, DispatchCapacity, IgnoreCapacity
<1>7. ASSUME NEW w \in Workers, Work(w)
      PROVE  CapacityInv'
  BY <1>7, WorkerCapacity
<1>8. ASSUME NEW k \in Keys, PatchApplied(k) \/ PatchRejected(k)
      PROVE  CapacityInv'
  BY <1>8, AppliedCapacity, RejectedCapacity
<1>9. ASSUME NEW k \in Keys, PatchRecover(k) \/ PatchDone(k)
      PROVE  CapacityInv'
  BY <1>9, RecoverCapacity, DoneCapacity
<1>10. ASSUME UNCHANGED vars
       PROVE  CapacityInv'
  <2>1. UNCHANGED <<api, events, cache, round, pending, alloc, tasks, worker, patch, budget>>
    BY <1>10 DEF vars
  <2>2. QuietInv' /\ Tasked' = Tasked /\ Started' = Started
    BY <1>1, <2>1 DEF QuietInv, Tasked, Started, Owed, Cached
  <2>3. \A k \in Keys : (patch'[k] \in {"sent", "failed"} \/ \E w \in Workers : worker'[w] = k)
                         => k \notin tasks'.dirty
    BY <2>1 DEF CapacityInv, TaskInv
  <2> QED
    BY <2>1, <2>2, <2>3, TaskMovesOn
<1> QED
  BY <1>2, <1>3, <1>4, <1>5, <1>6, <1>7, <1>8, <1>9, <1>10
     DEF Next, Environment, Round, Patching

\* What is released is charged, and what is charged fits.
LEMMA CapacityEnough == TypeOK /\ CapacityInv => NeverOvercommitted /\ ReleasedIsCharged
<1> SUFFICES ASSUME TypeOK, CapacityInv
             PROVE  NeverOvercommitted /\ ReleasedIsCharged
  OBVIOUS
<1>1. \A k \in Keys : api[k].live /\ ~api[k].suspended => k \in Holding
  BY DEF CapacityInv, ReleasedInv
<1>2. ReleasedIsCharged
  BY <1>1 DEF ReleasedIsCharged, Holding
<1>3. ASSUME NEW q \in Queues
      PROVE  Load(Released(q)) <= Cap[q]
  <2>1. Released(q) \in SUBSET Charged(q) /\ Charged(q) \in SUBSET Keys
    BY <1>1 DEF Released, Charged, Holding
  <2>2. Load(Released(q)) <= Load(Charged(q))
    BY <2>1, LoadMonotone
  <2>3. Load(Charged(q)) <= Cap[q] /\ Cap[q] \in Nat
    BY DemandAssumption DEF CapacityInv, LoadInv
  <2>4. Load(Released(q)) \in Nat /\ Load(Charged(q)) \in Nat
    BY <2>1, LoadType
  <2> QED
    BY <2>2, <2>3, <2>4
<1> QED
  BY <1>2, <1>3 DEF NeverOvercommitted

\* The bindings that are released never ask for more than their queue's
\* capability, in every instance without foreign updates, lost answers, reused
\* names and restarts: however patches fail, notifications are dropped,
\* bindings come and go, and rounds, handlers and workers interleave.
THEOREM CapacitySafe == ASSUME Clean PROVE Spec => []NeverOvercommitted
<1>1. Init => TypeOK /\ FlightInv /\ CapacityInv
  BY InitType, FlightInit, CapacityInit
<1>2. TypeOK /\ FlightInv /\ CapacityInv /\ [Next]_vars
      => (TypeOK /\ FlightInv /\ CapacityInv)'
  BY NextType, FlightNext, CapacityNext
<1>3. TypeOK /\ CapacityInv => NeverOvercommitted
  BY CapacityEnough
<1> QED
  BY <1>1, <1>2, <1>3, PTL DEF Spec

\* In the same instances a released binding that is cached is charged to its
\* queue: no failed patch takes back what another patch released.
THEOREM ReleasedStaysCharged == ASSUME Clean PROVE Spec => []ReleasedIsCharged
<1>1. Init => TypeOK /\ FlightInv /\ CapacityInv
  BY InitType, FlightInit, CapacityInit
<1>2. TypeOK /\ FlightInv /\ CapacityInv /\ [Next]_vars
      => (TypeOK /\ FlightInv /\ CapacityInv)'
  BY NextType, FlightNext, CapacityNext
<1>3. TypeOK /\ CapacityInv => ReleasedIsCharged
  BY CapacityEnough
<1> QED
  BY <1>1, <1>2, <1>3, PTL DEF Spec
=============================================================================
