----------------------- MODULE DispatcherFaultProofs ------------------------
(***************************************************************************)
(* What holds under faults: foreign updates, rejected patches, lost        *)
(* answers, dropped notifications, reused names and restarts, any number   *)
(* of each, for any bindings, queues and workers.  No info outlives its    *)
(* object unnoticed; what is dispatched has its task, but for a reused     *)
(* name a worker broke off with; and nothing is released under a name that *)
(* no round granted room to.                                               *)
(***************************************************************************)
EXTENDS DispatcherCapacityProofs

Current(k, uid) == api[k].live /\ api[k].uid = uid

\* The cache and the notifications know of no incarnation that is yet to come.
UidInv ==
    /\ \A k \in Keys : cache[k].uid <= api[k].uid
    /\ \A i \in DOMAIN events : events[i].uid <= api[events[i].key].uid

\* A notification of an object that is gone is followed by that of its deletion.
FarewellInv ==
    \A i \in DOMAIN events :
        events[i].op # "delete" /\ ~Current(events[i].key, events[i].uid)
        => \E j \in DOMAIN events : /\ i < j /\ events[j].op = "delete"
                                    /\ events[j].key = events[i].key
                                    /\ events[j].uid = events[i].uid

\* A binding marked UnSuspending and not released is dirty, with a worker or in
\* a goroutine: what a step that releases or unmarks it may end.
OwedInv == \A k \in Keys : Dispatched(k) => Owed(k)

FaultInv == UidInv /\ FarewellInv /\ NoGhosts /\ OwedInv

\* Infos, notifications and the session know only of objects that were created.
NameInv ==
    /\ \A k \in Keys : api[k].live => api[k].uid # 0
    /\ \A k \in Keys : Cached(k) => cache[k].uid \in 1..api[k].uid
    /\ \A i \in DOMAIN events : events[i].uid \in 1..api[events[i].key].uid
    /\ \A info \in pending : info[2] \in 1..api[info[1]].uid

\* The name was granted room, to this or to an earlier object.
Granted(k) == \E uid \in 1..api[k].uid : <<k, uid>> \in granted

\* Whatever is in the work queue or released was granted room.
GrantInv ==
    /\ \A k \in tasks.dirty \cup tasks.processing : Granted(k)
    /\ \A k \in Keys : api[k].live /\ ~api[k].suspended => Granted(k)

\* A key that is to be processed waits in the queue, unless it is processed.
DirtyInv ==
    \A k \in tasks.dirty \ tasks.processing : \E i \in DOMAIN tasks.queue : tasks.queue[i] = k

First(k) == api[k].live /\ api[k].uid = 1

\* While the first object of a name lives no worker breaks off with its key:
\* nothing takes it out of the cache, so the key is in processing only while
\* a worker or a goroutine has it.
FirstInv ==
    \A k \in Keys : First(k) =>
        /\ \A i \in DOMAIN events : events[i].op = "delete" => events[i].key # k
        /\ k \in tasks.dirty \cup tasks.processing => Cached(k)
        /\ k \in tasks.processing => Held(k)
-----------------------------------------------------------------------------
(* No info outlives its object, and what is dispatched is owed a patch. *)

LEMMA FaultInit == Init => FaultInv
BY DispatcherAssumption
   DEF Init, FaultInv, UidInv, FarewellInv, NoGhosts, OwedInv, NoInfo, Cached, Dispatched

\* The infos that a step leaves or takes away, and whose task it leaves alone.
InfosKept ==
    \A k \in Keys :
        \/ cache'[k] = cache[k]
        \/ cache'[k].status = "None" /\ cache'[k].uid = 0
        \/ cache'[k].uid = cache[k].uid /\ Cached(k)

\* A step that tells the informer nothing.
LEMMA SilentGhosts ==
    ASSUME TypeOK, UidInv, FarewellInv, NoGhosts, InfosKept, events' = events,
           \A k \in Keys : api'[k].uid = api[k].uid /\ api'[k].live = api[k].live
    PROVE  UidInv' /\ FarewellInv' /\ NoGhosts'
<1>1. \A i \in DOMAIN events : events[i].key \in Keys
  BY EventKey DEF TypeOK
<1>2. \A k \in Keys : cache[k].uid \in Nat /\ api[k].uid \in Nat
  BY DEF TypeOK, Object
<1>3. UidInv'
  BY <1>1, <1>2 DEF UidInv, InfosKept
<1>4. FarewellInv'
  BY <1>1 DEF FarewellInv, Current
<1>5. NoGhosts'
  BY DEF NoGhosts, InfosKept, Cached
<1> QED
  BY <1>3, <1>4, <1>5

\* A step that tells the informer of the object as it is now.
LEMMA ToldGhosts ==
    ASSUME TypeOK, UidInv, FarewellInv, NoGhosts, cache' = cache,
           NEW e \in Event, events' = Append(events, e),
           \A k \in Keys : api'[k].uid \in Nat /\ api[k].uid <= api'[k].uid,
           e.uid = api'[e.key].uid,
           e.op # "delete" => api'[e.key].live,
           \A k \in Keys, uid \in Nat :
             Current(k, uid) => Current(k, uid)' \/ (e.op = "delete" /\ e.key = k /\ e.uid = uid)
    PROVE  UidInv' /\ FarewellInv' /\ NoGhosts'
<1>1. /\ events \in Seq(Event)
      /\ DOMAIN events \subseteq Nat /\ DOMAIN events \subseteq DOMAIN events'
      /\ Len(events) + 1 \in DOMAIN events' /\ events'[Len(events) + 1] = e
      /\ \A i \in DOMAIN events : i < Len(events) + 1 /\ events'[i] = events[i]
      /\ \A i \in DOMAIN events' : i \in DOMAIN events \/ i = Len(events) + 1
  BY DEF TypeOK
<1>2. /\ \A i \in DOMAIN events : events[i].key \in Keys /\ events[i].uid \in Nat
      /\ \A k \in Keys : cache[k].uid \in Nat /\ api[k].uid \in Nat
      /\ e.key \in Keys /\ e.uid \in Nat
  <2>1. \A i \in DOMAIN events : events[i] \in Event
    BY <1>1
  <2> QED
    BY <2>1 DEF TypeOK, Object, Event
<1> DEFINE m == Len(events) + 1
<1> HIDE DEF m
<1>3. /\ m \in DOMAIN events' /\ events'[m] = e
      /\ \A i \in DOMAIN events : i < m /\ i \in DOMAIN events' /\ events'[i] = events[i]
      /\ \A i \in DOMAIN events' : i \in DOMAIN events \/ i = m
  BY <1>1 DEF m
<1>4. UidInv'
  <2>1. \A k \in Keys : cache'[k].uid <= api'[k].uid
    BY <1>2 DEF UidInv
  <2>2. ASSUME NEW i \in DOMAIN events'
        PROVE  events'[i].uid <= api'[events'[i].key].uid
    <3>1. CASE i \in DOMAIN events
      BY <1>2, <1>3, <3>1 DEF UidInv
    <3>2. CASE i = m
      BY <1>2, <1>3, <3>2
    <3> QED
      BY <1>3, <3>1, <3>2
  <2> QED
    BY <2>1, <2>2 DEF UidInv
<1>5. ASSUME NEW i \in DOMAIN events', events'[i].op # "delete",
             ~(api'[events'[i].key].live /\ api'[events'[i].key].uid = events'[i].uid)
      PROVE  \E j \in DOMAIN events' : /\ i < j /\ events'[j].op = "delete"
                                       /\ events'[j].key = events'[i].key
                                       /\ events'[j].uid = events'[i].uid
  <2>1. i \in DOMAIN events
    BY <1>3, <1>5 DEF Current
  <2>2. events'[i] = events[i]
    BY <1>3, <2>1
  <2>3. CASE Current(events[i].key, events[i].uid)
    <3>1. PICK k \in Keys, uid \in Nat : k = events[i].key /\ uid = events[i].uid
      BY <1>2, <2>1
    <3>2. Current(k, uid) /\ ~Current(k, uid)'
      BY <1>5, <2>2, <2>3, <3>1 DEF Current
    <3>3. e.op = "delete" /\ e.key = events[i].key /\ e.uid = events[i].uid
      BY <3>1, <3>2
    <3> QED
      BY <1>3, <2>1, <2>2, <3>3
  <2>4. CASE ~Current(events[i].key, events[i].uid)
    <3>1. PICK j \in DOMAIN events : /\ i < j /\ events[j].op = "delete"
                                     /\ events[j].key = events[i].key
                                     /\ events[j].uid = events[i].uid
      BY <1>5, <2>1, <2>2, <2>4 DEF FarewellInv
    <3> QED
      BY <1>3, <2>2, <3>1
  <2> QED
    BY <2>3, <2>4
<1>6. FarewellInv'
  BY <1>5 DEF FarewellInv, Current
<1>7. ASSUME NEW k \in Keys, Cached(k)', ~(api'[k].live /\ api'[k].uid = cache[k].uid)
      PROVE  \E i \in DOMAIN events' : /\ events'[i].op = "delete" /\ events'[i].key = k
                                       /\ events'[i].uid = cache[k].uid
  <2>1. CASE Current(k, cache[k].uid)
    <3>1. PICK uid \in Nat : uid = cache[k].uid
      BY <1>2
    <3>2. Current(k, uid) /\ ~Current(k, uid)'
      BY <1>7, <2>1, <3>1 DEF Current
    <3> QED
      BY <1>3, <3>1, <3>2
  <2>2. CASE ~Current(k, cache[k].uid)
    <3>1. PICK i \in DOMAIN events : /\ events[i].op = "delete" /\ events[i].key = k
                                     /\ events[i].uid = cache[k].uid
      BY <1>7, <2>2 DEF NoGhosts, Current, Cached
    <3> QED
      BY <1>3, <3>1
  <2> QED
    BY <2>1, <2>2
<1>8. NoGhosts'
  BY <1>7 DEF NoGhosts, Current, Cached
<1> QED
  BY <1>4, <1>6, <1>8

\* A handler returns: the info of the first notification's key is as the
\* notification says, or as it was and the notification is dropped.
LEMMA HandledGhosts ==
    ASSUME TypeOK, UidInv, FarewellInv, NoGhosts, events # << >>, events' = Tail(events),
           api' = api,
           \A k \in Keys \ {Head(events).key} : cache'[k] = cache[k],
           LET e == Head(events)
           IN \/ e.op = "delete" /\ cache'[e.key] = NoInfo
              \/ /\ e.op # "delete"
                 /\ cache'[e.key] = cache[e.key] \/ cache'[e.key].uid = e.uid
    PROVE  UidInv' /\ FarewellInv' /\ NoGhosts'
<1> DEFINE e == Head(events)
<1>1. /\ events \in Seq(Event)
      /\ DOMAIN events \subseteq Nat /\ DOMAIN events' \subseteq Nat
      /\ 1 \in DOMAIN events /\ e = events[1] /\ e \in Event
      /\ \A i \in DOMAIN events' : i + 1 \in DOMAIN events /\ events'[i] = events[i + 1]
      /\ \A i \in DOMAIN events : i # 1 => /\ i - 1 \in DOMAIN events'
                                           /\ events'[i - 1] = events[i]
  BY DEF TypeOK
<1>2. /\ \A i \in DOMAIN events : events[i].key \in Keys /\ events[i].uid \in Nat
      /\ \A k \in Keys : cache[k].uid \in Nat /\ api[k].uid \in Nat
      /\ e.key \in Keys
  <2>1. \A i \in DOMAIN events : events[i] \in Event
    BY <1>1
  <2> QED
    BY <1>1, <2>1 DEF TypeOK, Object, Event
<1>3. \A k \in Keys \ {e.key} : cache'[k] = cache[k]
  OBVIOUS
<1>4. \/ e.op = "delete" /\ cache'[e.key] = NoInfo
      \/ e.op # "delete" /\ (cache'[e.key] = cache[e.key] \/ cache'[e.key].uid = e.uid)
  OBVIOUS
<1> HIDE DEF e
<1>5. UidInv'
  <2>1. ASSUME NEW k \in Keys
        PROVE  cache'[k].uid <= api'[k].uid
    BY <1>1, <1>2, <1>3, <1>4 DEF UidInv, NoInfo
  <2>2. \A i \in DOMAIN events' : events'[i].uid <= api'[events'[i].key].uid
    BY <1>1 DEF UidInv
  <2> QED
    BY <2>1, <2>2 DEF UidInv
\* A later notification stays later.
<1>6. ASSUME NEW i \in DOMAIN events, NEW j \in DOMAIN events, i < j
      PROVE  /\ j - 1 \in DOMAIN events' /\ events'[j - 1] = events[j]
             /\ \A x \in DOMAIN events' : i = x + 1 => x < j - 1
  <2>1. 1 <= i
    BY <1>1
  <2> QED
    BY <1>1, <1>6, <2>1
<1>7. ASSUME NEW x \in DOMAIN events', events'[x].op # "delete",
             ~(api'[events'[x].key].live /\ api'[events'[x].key].uid = events'[x].uid)
      PROVE  \E j \in DOMAIN events' : /\ x < j /\ events'[j].op = "delete"
                                       /\ events'[j].key = events'[x].key
                                       /\ events'[j].uid = events'[x].uid
  <2>1. PICK i \in DOMAIN events : i = x + 1 /\ events'[x] = events[i]
    BY <1>1
  <2>2. ~Current(events[i].key, events[i].uid)
    BY <1>7, <2>1 DEF Current
  <2>3. PICK j \in DOMAIN events : /\ i < j /\ events[j].op = "delete"
                                   /\ events[j].key = events[i].key
                                   /\ events[j].uid = events[i].uid
    BY <1>7, <2>1, <2>2 DEF FarewellInv
  <2>4. j - 1 \in DOMAIN events' /\ events'[j - 1] = events[j] /\ x < j - 1
    BY <1>6, <2>1, <2>3
  <2> QED
    BY <2>1, <2>3, <2>4
<1>8. FarewellInv'
  BY <1>7 DEF FarewellInv, Current
<1>9. ASSUME NEW k \in Keys, Cached(k)', ~Current(k, cache'[k].uid)
      PROVE  \E i \in DOMAIN events' : /\ events'[i].op = "delete" /\ events'[i].key = k
                                       /\ events'[i].uid = cache'[k].uid
  <2>1. CASE k = e.key /\ e.op # "delete" /\ cache'[k].uid = e.uid
    <3>1. ~Current(events[1].key, events[1].uid)
      BY <1>1, <1>9, <2>1
    <3>2. PICK j \in DOMAIN events : /\ 1 < j /\ events[j].op = "delete"
                                     /\ events[j].key = e.key /\ events[j].uid = e.uid
      BY <1>1, <2>1, <3>1 DEF FarewellInv
    <3>3. PICK x \in DOMAIN events' : events'[x] = events[j]
      BY <1>1, <1>6, <3>2
    <3> QED
      BY <2>1, <3>2, <3>3
  <2>2. CASE cache'[k] = cache[k] /\ (k = e.key => e.op # "delete")
    <3>1. PICK j \in DOMAIN events : /\ events[j].op = "delete" /\ events[j].key = k
                                     /\ events[j].uid = cache[k].uid
      BY <1>9, <2>2 DEF NoGhosts, Current, Cached
    <3>2. j # 1
      BY <1>1, <2>2, <3>1
    <3>3. PICK x \in DOMAIN events' : events'[x] = events[j]
      BY <1>1, <3>2
    <3> QED
      BY <2>2, <3>1, <3>3
  <2>3. CASE k = e.key /\ cache'[k] = NoInfo
    BY <1>9, <2>3 DEF NoInfo, Cached
  <2> QED
    BY <1>3, <1>4, <2>1, <2>2, <2>3
<1>10. NoGhosts'
  BY <1>9 DEF NoGhosts, Current, Cached
<1> QED
  BY <1>5, <1>8, <1>10

\* A process that starts lists what there is.
LEMMA RestartGhosts ==
    ASSUME TypeOK, Restart
    PROVE  UidInv' /\ FarewellInv' /\ NoGhosts'
<1> DEFINE live == {k \in Keys : api[k].live}
<1>1. PICK order \in [1..Cardinality(live) -> live] :
         events' = [i \in DOMAIN order |-> Note("add", order[i])]
  BY DEF Restart
<1>2. /\ api' = api /\ cache' = [k \in Keys |-> NoInfo]
      /\ \A k \in Keys : api[k].uid \in Nat
  BY DEF Restart, TypeOK, Object
<1>3. ASSUME NEW i \in DOMAIN events'
      PROVE  /\ events'[i].key \in Keys /\ events'[i].uid = api[events'[i].key].uid
             /\ api[events'[i].key].live
  <2>1. order[i] \in live /\ events'[i] = Note("add", order[i])
    BY <1>1, <1>3
  <2> QED
    BY <2>1 DEF Note
<1>4. UidInv'
  BY <1>2, <1>3 DEF UidInv, NoInfo
<1>5. FarewellInv'
  BY <1>2, <1>3 DEF FarewellInv, Current
<1>6. NoGhosts'
  BY <1>2 DEF NoGhosts, Cached, NoInfo
<1> QED
  BY <1>4, <1>5, <1>6

LEMMA GhostsNext ==
    ASSUME TypeOK, UidInv, FarewellInv, NoGhosts, [Next]_vars
    PROVE  UidInv' /\ FarewellInv' /\ NoGhosts'
<1> DEFINE Goal == UidInv' /\ FarewellInv' /\ NoGhosts'
<1>0. \A k \in Keys : api[k] \in Object /\ api[k].uid \in Nat
  BY DEF TypeOK, Object
<1>1. ASSUME UNCHANGED <<api, events>>, InfosKept
      PROVE  Goal
  BY <1>1, SilentGhosts
<1>2. ASSUME UNCHANGED <<api, events, cache>>
      PROVE  Goal
  BY <1>1, <1>2 DEF InfosKept
\* The API server.
<1>3. ASSUME NEW k \in Keys, Create(k)
      PROVE  Goal
  <2>1. PICK e \in Event : /\ events' = Append(events, e) /\ e.op = "add" /\ e.key = k
                           /\ e.uid = api[k].uid + 1
    <3>1. [op |-> "add", key |-> k, uid |-> api[k].uid + 1, suspended |-> TRUE] \in Event
      BY <1>0 DEF Event
    <3> QED
      BY <1>3, <3>1 DEF Create
  <2>2. /\ ~api[k].live /\ cache' = cache
        /\ api' = [api EXCEPT ![k] = [live |-> TRUE, uid |-> @.uid + 1, suspended |-> TRUE]]
    BY <1>3 DEF Create
  <2>3. /\ api'[k].live /\ api'[k].uid = api[k].uid + 1
        /\ \A x \in Keys \ {k} : api'[x] = api[x]
    BY <2>2 DEF TypeOK
  <2>4. /\ \A x \in Keys : api'[x].uid \in Nat /\ api[x].uid <= api'[x].uid
        /\ e.uid = api'[e.key].uid /\ api'[e.key].live
    BY <1>0, <2>1, <2>3
  <2>5. \A x \in Keys, uid \in Nat : Current(x, uid) => Current(x, uid)'
    BY <2>2, <2>3 DEF Current
  <2> QED
    BY <2>1, <2>2, <2>4, <2>5, ToldGhosts
<1>4. ASSUME NEW k \in Keys, Delete(k)
      PROVE  Goal
  <2>1. PICK e \in Event : /\ events' = Append(events, e) /\ e.op = "delete" /\ e.key = k
                           /\ e.uid = api[k].uid
    BY <1>4, NoteType DEF Delete, Note
  <2>2. cache' = cache /\ api' = [api EXCEPT ![k].live = FALSE]
    BY <1>4 DEF Delete
  <2>3. /\ api'[k].uid = api[k].uid
        /\ \A x \in Keys \ {k} : api'[x] = api[x]
    BY <1>0, <2>2 DEF TypeOK, Object
  <2>4. /\ \A x \in Keys : api'[x].uid \in Nat /\ api[x].uid <= api'[x].uid
        /\ e.uid = api'[e.key].uid
    BY <1>0, <2>1, <2>3
  <2>5. \A x \in Keys, uid \in Nat :
          Current(x, uid) => Current(x, uid)' \/ (e.op = "delete" /\ e.key = x /\ e.uid = uid)
    BY <2>1, <2>3 DEF Current
  <2> QED
    BY <2>1, <2>2, <2>4, <2>5, ToldGhosts
\* Updates: the object lives and stays the incarnation it is.
<1>5. ASSUME NEW k \in Keys, api[k].live, cache' = cache,
             NEW e \in Event, events' = Append(events, e), e.key = k, e.uid = api[k].uid,
             \A x \in Keys : api'[x].uid = api[x].uid /\ api'[x].live = api[x].live
      PROVE  Goal
  <2>1. /\ \A x \in Keys : api'[x].uid \in Nat /\ api[x].uid <= api'[x].uid
        /\ e.uid = api'[e.key].uid /\ api'[e.key].live
    BY <1>0, <1>5
  <2>2. \A x \in Keys, uid \in Nat : Current(x, uid) => Current(x, uid)'
    BY <1>5 DEF Current
  <2> QED
    BY <1>5, <2>1, <2>2, ToldGhosts
<1>6. ASSUME NEW k \in Keys, Touch(k)
      PROVE  Goal
  <2>1. PICK e \in Event : /\ events' = Append(events, e) /\ e.key = k /\ e.uid = api[k].uid
    BY <1>6, NoteType DEF Touch, Note
  <2> QED
    BY <1>5, <1>6, <2>1 DEF Touch
<1>7. ASSUME NEW k \in Keys, Apply(k), cache' = cache
      PROVE  Goal
  <2>1. /\ api[k].live /\ api' = [api EXCEPT ![k].suspended = FALSE]
        /\ events' = IF api[k].suspended
                     THEN Append(events, [Note("update", k) EXCEPT !.suspended = FALSE])
                     ELSE events
    BY <1>7 DEF Apply
  <2>2. \A x \in Keys : api'[x].uid = api[x].uid /\ api'[x].live = api[x].live
    BY <1>0, <2>1 DEF TypeOK, Object
  <2>3. PICK e \in Event : /\ e = [Note("update", k) EXCEPT !.suspended = FALSE]
                           /\ e.key = k /\ e.uid = api[k].uid
    <3>1. PICK n \in Event : n = Note("update", k) /\ n.key = k /\ n.uid = api[k].uid
      BY NoteType DEF Note
    <3>2. PICK e : e = [n EXCEPT !.suspended = FALSE]
      OBVIOUS
    <3>3. e \in Event /\ e.key = n.key /\ e.uid = n.uid
      BY <3>2 DEF Event
    <3> QED
      BY <3>1, <3>2, <3>3
  <2>4. CASE api[k].suspended
    BY <1>5, <1>7, <2>1, <2>2, <2>3, <2>4
  <2>5. CASE ~api[k].suspended
    BY <1>7, <2>1, <2>2, <2>5, SilentGhosts DEF InfosKept
  <2> QED
    BY <2>4, <2>5
<1>8. ASSUME NEW k \in Keys, PatchApplied(k) \/ PatchLost(k)
      PROVE  Goal
  BY <1>7, <1>8 DEF PatchApplied, PatchLost
\* Handlers.
<1>9. ASSUME HandleSet \/ HandleDropped \/ HandleDelete
      PROVE  Goal
  <2>1. PICK e \in Event : e = Head(events)
    BY <1>9 DEF HandleSet, HandleDropped, HandleDelete, TypeOK
  <2>2. /\ events # << >> /\ events' = Tail(events) /\ api' = api /\ e.key \in Keys
        /\ \/ e.op = "delete" /\ cache' = [cache EXCEPT ![e.key] = NoInfo]
           \/ e.op # "delete" /\ cache' = cache
           \/ /\ e.op # "delete"
              /\ cache' = [cache EXCEPT ![e.key] =
                    [status |-> IF e.suspended THEN "Suspended" ELSE "UnSuspended",
                     uid |-> e.uid]]
    BY <1>9, <2>1 DEF HandleSet, HandleDropped, HandleDelete, SetResourceBinding, Event
  <2>3. /\ \A x \in Keys \ {e.key} : cache'[x] = cache[x]
        /\ \/ e.op = "delete" /\ cache'[e.key] = NoInfo
           \/ /\ e.op # "delete"
              /\ cache'[e.key] = cache[e.key] \/ cache'[e.key].uid = e.uid
    BY <2>2 DEF TypeOK
  <2> QED
    BY <2>1, <2>2, <2>3, HandledGhosts
\* Rounds, workers and patches keep the incarnations they find in the cache.
<1>10. ASSUME NEW k \in Keys, Dispatch(k) \/ PatchRecover(k)
       PROVE  Goal
  <2>1. /\ UNCHANGED <<api, events>>
        /\ \/ cache' = cache
           \/ /\ Cached(k)
              /\ \E status \in Status : cache' = [cache EXCEPT ![k].status = status]
    BY <1>10 DEF Dispatch, UnSuspendResourceBinding, PatchRecover, Status
  <2>2. InfosKept
    BY <2>1 DEF InfosKept, TypeOK
  <2> QED
    BY <1>1, <2>1, <2>2
<1>11. ASSUME \/ OpenSession \/ CloseSession
              \/ \E k \in Keys : Ignore(k) \/ PatchRejected(k) \/ PatchDone(k)
              \/ \E w \in Workers : Work(w)
              \/ UNCHANGED vars
       PROVE  Goal
  BY <1>2, <1>11 DEF OpenSession, CloseSession, Ignore, PatchRejected, PatchDone, Work,
     WorkerGet, WorkerBreak, WorkerGo, vars
<1>12. ASSUME Restart
       PROVE  Goal
  BY <1>12, RestartGhosts
<1> QED
  BY <1>3, <1>4, <1>6, <1>8, <1>9, <1>10, <1>11, <1>12
     DEF Next, Environment, Handle, Round, Patching

\* A binding that is still marked and not released keeps its task.
LEMMA OwedNext ==
    ASSUME TypeOK, UidInv, OwedInv, [Next]_vars
    PROVE  OwedInv'
<1>0. \A k \in Keys : /\ api[k] \in Object /\ api[k].uid \in Nat
                      /\ cache[k].uid \in Nat /\ cache[k].uid <= api[k].uid
  BY DEF TypeOK, Object, UidInv
<1>1. ASSUME \A k \in Keys : Dispatched(k)' => Dispatched(k),
             \A k \in Keys : Owed(k) /\ Dispatched(k)' => Owed(k)'
      PROVE  OwedInv'
  BY <1>1 DEF OwedInv
<1>2. ASSUME UNCHANGED <<tasks, worker, patch>>, \A k \in Keys : Dispatched(k)' => Dispatched(k)
      PROVE  OwedInv'
  BY <1>1, <1>2 DEF Owed
<1>3. ASSUME NEW k \in Keys, Create(k)
      PROVE  OwedInv'
  <2>1. /\ cache' = cache /\ UNCHANGED <<tasks, worker, patch>>
        /\ api' = [api EXCEPT ![k] = [live |-> TRUE, uid |-> @.uid + 1, suspended |-> TRUE]]
    BY <1>3 DEF Create
  <2>2. /\ api'[k].uid = api[k].uid + 1
        /\ \A x \in Keys \ {k} : api'[x] = api[x]
    BY <2>1 DEF TypeOK
  <2>3. \A x \in Keys : Dispatched(x)' => Dispatched(x)
    BY <1>0, <2>1, <2>2 DEF Dispatched
  <2> QED
    BY <1>2, <2>1, <2>3
<1>4. ASSUME NEW k \in Keys, Delete(k) \/ Touch(k)
      PROVE  OwedInv'
  <2>1. \A x \in Keys : Dispatched(x)' => Dispatched(x)
    BY <1>0, <1>4 DEF Delete, Touch, Dispatched, TypeOK, Object
  <2> QED
    BY <1>2, <1>4, <2>1 DEF Delete, Touch
<1>5. ASSUME HandleSet \/ HandleDropped \/ HandleDelete
      PROVE  OwedInv'
  <2>1. /\ api' = api
        /\ \/ cache' = cache
           \/ \E k : cache' = [cache EXCEPT ![k] = NoInfo]
           \/ \E k, uid : \E status \in {"Suspended", "UnSuspended"} :
                cache' = [cache EXCEPT ![k] = [status |-> status, uid |-> uid]]
    BY <1>5 DEF HandleSet, HandleDropped, HandleDelete, SetResourceBinding
  <2>2. \A x \in Keys : cache'[x] = cache[x] \/ cache'[x].status # "UnSuspending"
    BY <2>1 DEF TypeOK, NoInfo
  <2>3. \A x \in Keys : Dispatched(x)' => Dispatched(x)
    BY <2>1, <2>2 DEF Dispatched
  <2> QED
    BY <1>2, <1>5, <2>3 DEF HandleSet, HandleDropped, HandleDelete
<1>6. ASSUME NEW k \in Keys, Dispatch(k)
      PROVE  OwedInv'
  <2>1. UNCHANGED <<api, worker, patch>> /\ UnSuspendResourceBinding(k)
    BY <1>6 DEF Dispatch
  <2>2. CASE Cached(k)
    <3>1. cache' = [cache EXCEPT ![k].status = "UnSuspending"] /\ tasks' = Add(tasks, k)
      BY <2>1, <2>2 DEF UnSuspendResourceBinding
    <3>2. k \in tasks'.dirty /\ tasks.dirty \subseteq tasks'.dirty
      BY <3>1 DEF Add, TypeOK, QueueTypes
    <3>3. \A x \in Keys \ {k} : Dispatched(x)' => Dispatched(x)
      BY <2>1, <3>1 DEF Dispatched, TypeOK
    <3> QED
      BY <2>1, <3>2, <3>3 DEF OwedInv, Owed
  <2>3. CASE ~Cached(k)
    BY <1>2, <2>1, <2>3 DEF UnSuspendResourceBinding, Dispatched
  <2> QED
    BY <2>2, <2>3
<1>7. ASSUME \/ OpenSession \/ CloseSession
             \/ \E k \in Keys : Ignore(k)
             \/ UNCHANGED vars
      PROVE  OwedInv'
  BY <1>2, <1>7 DEF OpenSession, CloseSession, Ignore, Dispatched, vars
<1>8. ASSUME NEW w \in Workers, WorkerGet(w)
      PROVE  OwedInv'
  <2>1. PICK k : /\ k = Head(tasks.queue) /\ worker' = [worker EXCEPT ![w] = k]
                 /\ tasks'.dirty = tasks.dirty \ {k} /\ worker[w] = NoKey
                 /\ UNCHANGED <<api, cache, patch>>
    BY <1>8 DEF WorkerGet, Get
  <2>2. worker'[w] = k /\ \A x \in Keys, v \in Workers : worker[v] = x => worker'[v] = x
    BY <2>1, DispatcherAssumption DEF TypeOK
  <2>3. \A x \in Keys : Owed(x) => Owed(x)'
    BY <2>1, <2>2 DEF Owed
  <2>4. \A x \in Keys : Dispatched(x)' => Dispatched(x)
    BY <2>1 DEF Dispatched
  <2> QED
    BY <1>1, <2>3, <2>4
<1>9. ASSUME NEW w \in Workers, WorkerBreak(w)
      PROVE  OwedInv'
  <2>1. /\ worker' = [worker EXCEPT ![w] = NoKey] /\ UNCHANGED <<api, cache, tasks, patch>>
        /\ ~Cached(worker[w])
    BY <1>9 DEF WorkerBreak
  <2>2. \A x \in Keys : Dispatched(x)' => Dispatched(x) /\ x # worker[w]
    BY <2>1 DEF Dispatched, Cached
  <2>3. \A x \in Keys, v \in Workers : worker[v] = x /\ x # worker[w] => worker'[v] = x
    BY <2>1 DEF TypeOK
  <2>4. \A x \in Keys : Owed(x) /\ x # worker[w] => Owed(x)'
    BY <2>1, <2>3 DEF Owed
  <2> QED
    BY <1>1, <2>2, <2>4
<1>10. ASSUME NEW w \in Workers, WorkerGo(w)
       PROVE  OwedInv'
  <2>1. /\ worker' = [worker EXCEPT ![w] = NoKey] /\ UNCHANGED <<api, cache, tasks>>
        /\ patch' = [patch EXCEPT ![worker[w]] = "sent"] /\ worker[w] \in Keys
    BY <1>10 DEF WorkerGo, TypeOK
  <2>2. /\ patch'[worker[w]] = "sent" /\ \A x \in Keys \ {worker[w]} : patch'[x] = patch[x]
        /\ \A x \in Keys, v \in Workers : worker[v] = x /\ x # worker[w] => worker'[v] = x
    BY <2>1 DEF TypeOK
  <2>3. \A x \in Keys : Owed(x) => Owed(x)'
    BY <2>1, <2>2 DEF Owed
  <2>4. \A x \in Keys : Dispatched(x)' => Dispatched(x)
    BY <2>1 DEF Dispatched
  <2> QED
    BY <1>1, <2>3, <2>4
<1>11. ASSUME NEW k \in Keys, PatchApplied(k) \/ PatchLost(k)
       PROVE  OwedInv'
  <2>1. /\ api' = [api EXCEPT ![k].suspended = FALSE] /\ UNCHANGED <<cache, tasks, worker>>
        /\ \E p \in Phase : patch' = [patch EXCEPT ![k] = p]
    BY <1>11 DEF PatchApplied, PatchLost, Apply, Phase
  <2>2. /\ api'[k].suspended = FALSE
        /\ \A x \in Keys \ {k} : api'[x] = api[x] /\ patch'[x] = patch[x]
    BY <1>0, <2>1 DEF TypeOK, Object
  <2>3. \A x \in Keys : Dispatched(x)' => Dispatched(x) /\ x # k
    BY <2>1, <2>2 DEF Dispatched
  <2>4. \A x \in Keys \ {k} : Owed(x) => Owed(x)'
    BY <2>1, <2>2 DEF Owed
  <2> QED
    BY <1>1, <2>3, <2>4
<1>12. ASSUME NEW k \in Keys, PatchRejected(k) \/ PatchDone(k)
       PROVE  OwedInv'
  <2>1. /\ UNCHANGED <<api, cache, worker>> /\ tasks'.dirty = tasks.dirty
        /\ \/ patch[k] = "done" /\ patch' = [patch EXCEPT ![k] = "none"]
           \/ patch' = [patch EXCEPT ![k] = "failed"]
    BY <1>12 DEF PatchRejected, PatchDone, Done, TypeOK, QueueTypes
  <2>2. \A x \in Keys : patch[x] \in {"sent", "failed"} => patch'[x] \in {"sent", "failed"}
    BY <2>1 DEF TypeOK
  <2>3. \A x \in Keys : Owed(x) => Owed(x)'
    BY <2>1, <2>2 DEF Owed
  <2>4. \A x \in Keys : Dispatched(x)' => Dispatched(x)
    BY <2>1 DEF Dispatched
  <2> QED
    BY <1>1, <2>3, <2>4
<1>13. ASSUME NEW k \in Keys, PatchRecover(k)
       PROVE  OwedInv'
  <2>1. /\ UNCHANGED <<api, tasks, worker>> /\ patch' = [patch EXCEPT ![k] = "done"]
        /\ cache' = IF Cached(k) THEN [cache EXCEPT ![k].status = "Suspended"] ELSE cache
    BY <1>13 DEF PatchRecover
  <2>2. /\ \A x \in Keys \ {k} : cache'[x] = cache[x] /\ patch'[x] = patch[x]
        /\ cache'[k].status # "UnSuspending"
    BY <2>1 DEF TypeOK, Cached
  <2>3. \A x \in Keys : Dispatched(x)' => Dispatched(x) /\ x # k
    BY <2>1, <2>2 DEF Dispatched
  <2>4. \A x \in Keys \ {k} : Owed(x) => Owed(x)'
    BY <2>1, <2>2 DEF Owed
  <2> QED
    BY <1>1, <2>3, <2>4
<1>14. ASSUME Restart
       PROVE  OwedInv'
  BY <1>14 DEF Restart, OwedInv, Dispatched, NoInfo
<1> QED
  BY <1>3, <1>4, <1>5, <1>6, <1>7, <1>8, <1>9, <1>10, <1>11, <1>12, <1>13, <1>14
     DEF Next, Environment, Handle, Round, Work, Patching

LEMMA FaultSafe == Spec => [](TypeOK /\ FaultInv)
<1>1. Init => TypeOK /\ FaultInv
  BY InitType, FaultInit
<1>2. TypeOK /\ FaultInv /\ [Next]_vars => (TypeOK /\ FaultInv)'
  BY NextType, GhostsNext, OwedNext DEF FaultInv
<1> QED
  BY <1>1, <1>2, PTL DEF Spec

\* Through every fault, reused names and restarts included, a binding that is
\* gone or was replaced stays in the cache only until the notification of that
\* incarnation's deletion is handled (deleteResourceBinding): it cannot hold
\* room in its queue for ever.
THEOREM NoInfoOutlivesItsObject == Spec => []NoGhosts
<1>1. FaultInv => NoGhosts
  BY DEF FaultInv
<1> QED
  BY <1>1, FaultSafe, PTL
-----------------------------------------------------------------------------
(* Nothing is released under a name that no round granted room to. *)

LEMMA NamesInit == Init => NameInv /\ GrantInv /\ DirtyInv /\ FirstInv
BY DispatcherAssumption
   DEF Init, NameInv, GrantInv, DirtyInv, FirstInv, First, Cached, NoInfo, EmptyQueue

\* A step that makes or forgets infos, notifications and bindings to consider,
\* but none of an object that was never created.
LEMMA NamesKept ==
    ASSUME TypeOK, NameInv,
           \A k \in Keys : /\ api'[k].uid \in Nat /\ api[k].uid <= api'[k].uid
                           /\ api'[k].live => api[k].live \/ api'[k].uid # 0
                           /\ Cached(k)' => \/ Cached(k) /\ cache'[k].uid = cache[k].uid
                                            \/ cache'[k].uid \in 1..api'[k].uid,
           \A info \in pending' : info \in pending \/ info[2] \in 1..api'[info[1]].uid,
           \/ events' = events
           \/ events # << >> /\ events' = Tail(events)
           \/ \E e \in Event : events' = Append(events, e) /\ e.uid \in 1..api'[e.key].uid
    PROVE  NameInv'
<1>1. /\ events \in Seq(Event) /\ DOMAIN events \subseteq Nat
      /\ \A i \in DOMAIN events : events[i].key \in Keys
      /\ \A k \in Keys : api[k].uid \in Nat
      /\ \A info \in pending : info[1] \in Keys
  BY EventKey DEF TypeOK, Object
<1>2. \A k \in Keys : \A uid \in 1..api[k].uid : uid \in 1..api'[k].uid
  BY <1>1
<1>3. \A k \in Keys : /\ api'[k].live => api'[k].uid # 0
                      /\ Cached(k)' => cache'[k].uid \in 1..api'[k].uid
  <2>1. ASSUME NEW k \in Keys, api'[k].live
        PROVE  api'[k].uid # 0
    BY <1>1, <2>1 DEF NameInv
  <2>2. ASSUME NEW k \in Keys, Cached(k)'
        PROVE  cache'[k].uid \in 1..api'[k].uid
    BY <1>2, <2>2 DEF NameInv
  <2> QED
    BY <2>1, <2>2
<1>4. \A info \in pending' : info[2] \in 1..api'[info[1]].uid
  BY <1>1, <1>2 DEF NameInv
<1>5. \A i \in DOMAIN events' : events'[i].uid \in 1..api'[events'[i].key].uid
  <2>1. CASE events' = events
    BY <1>1, <1>2, <2>1 DEF NameInv
  <2>2. CASE events # << >> /\ events' = Tail(events)
    <3>1. \A i \in DOMAIN events' : i + 1 \in DOMAIN events /\ events'[i] = events[i + 1]
      BY <1>1, <2>2, TailAt
    <3> QED
      BY <1>1, <1>2, <3>1 DEF NameInv
  <2>3. ASSUME NEW e \in Event, events' = Append(events, e), e.uid \in 1..api'[e.key].uid
        PROVE  \A i \in DOMAIN events' : events'[i].uid \in 1..api'[events'[i].key].uid
    <3>1. \A i \in DOMAIN events' : (i \in DOMAIN events /\ events'[i] = events[i]) \/ events'[i] = e
      BY <1>1, <2>3, AppendAt
    <3> QED
      BY <1>1, <1>2, <2>3, <3>1 DEF NameInv
  <2> QED
    BY <2>1, <2>2, <2>3
<1> QED
  BY <1>3, <1>4, <1>5 DEF NameInv, Cached

\* What Apply tells the informer.
LEMMA ApplyTells ==
    ASSUME TypeOK, NEW k \in Keys, Apply(k)
    PROVE  /\ api[k].live /\ ~api'[k].suspended
           /\ \A x \in Keys : api'[x].uid = api[x].uid /\ api'[x].live = api[x].live
           /\ \A x \in Keys \ {k} : api'[x] = api[x]
           /\ \/ events' = events
              \/ \E e \in Event : /\ events' = Append(events, e) /\ e.op = "update"
                                  /\ e.key = k /\ e.uid = api[k].uid
<1>1. /\ api[k].live /\ api' = [api EXCEPT ![k].suspended = FALSE]
      /\ events' = IF api[k].suspended
                   THEN Append(events, [Note("update", k) EXCEPT !.suspended = FALSE])
                   ELSE events
  BY DEF Apply
<1>2. /\ ~api'[k].suspended
      /\ \A x \in Keys : api'[x].uid = api[x].uid /\ api'[x].live = api[x].live
      /\ \A x \in Keys \ {k} : api'[x] = api[x]
  <2>1. \A x \in Keys : api[x] \in Object
    BY DEF TypeOK
  <2> QED
    BY <1>1, <2>1 DEF TypeOK, Object
<1>3. PICK n \in Event : n = Note("update", k) /\ n.op = "update" /\ n.key = k /\ n.uid = api[k].uid
  BY NoteType DEF Note
<1>4. PICK e : e = [n EXCEPT !.suspended = FALSE]
  OBVIOUS
<1>5. e \in Event /\ e.op = "update" /\ e.key = k /\ e.uid = api[k].uid
  BY <1>3, <1>4 DEF Event
<1> QED
  BY <1>1, <1>2, <1>3, <1>4, <1>5

LEMMA NameNext ==
    ASSUME TypeOK, NameInv, [Next]_vars
    PROVE  NameInv'
<1>0. /\ events \in Seq(Event) /\ DOMAIN events \subseteq Nat
      /\ \A k \in Keys : api[k] \in Object /\ api[k].uid \in Nat
  BY DEF TypeOK, Object
<1>1. ASSUME NEW k \in Keys, Create(k)
      PROVE  NameInv'
  <2>1. /\ api' = [api EXCEPT ![k] = [live |-> TRUE, uid |-> @.uid + 1, suspended |-> TRUE]]
        /\ cache' = cache /\ pending' = pending
    BY <1>1 DEF Create
  <2>2. /\ api'[k].uid = api[k].uid + 1 /\ api'[k].live
        /\ \A x \in Keys \ {k} : api'[x] = api[x]
    BY <2>1 DEF TypeOK
  <2>3. PICK e \in Event : events' = Append(events, e) /\ e.key = k /\ e.uid = api[k].uid + 1
    <3>1. [op |-> "add", key |-> k, uid |-> api[k].uid + 1, suspended |-> TRUE] \in Event
      BY <1>0 DEF Event
    <3> QED
      BY <1>1, <3>1 DEF Create
  <2>4. e.uid \in 1..api'[e.key].uid
    BY <1>0, <2>2, <2>3
  <2>5. \A x \in Keys : /\ api'[x].uid \in Nat /\ api[x].uid <= api'[x].uid
                        /\ api'[x].live => api[x].live \/ api'[x].uid # 0
    BY <1>0, <2>2
  <2>6. \A x \in Keys : Cached(x)' => Cached(x) /\ cache'[x].uid = cache[x].uid
    BY <2>1 DEF Cached
  <2> QED
    BY <2>1, <2>3, <2>4, <2>5, <2>6, NamesKept
\* Steps that create no object and, if they tell of one, tell of a live one.
<1>2. ASSUME \A k \in Keys : api'[k].uid = api[k].uid /\ (api'[k].live => api[k].live),
             \A k \in Keys : Cached(k)' => Cached(k) /\ cache'[k].uid = cache[k].uid,
             \A info \in pending' : info \in pending,
             \/ events' = events
             \/ events # << >> /\ events' = Tail(events)
             \/ \E e \in Event, k \in Keys : /\ api[k].live /\ events' = Append(events, e)
                                             /\ e.key = k /\ e.uid = api[k].uid
      PROVE  NameInv'
  <2>1. \A k \in Keys : /\ api'[k].uid \in Nat /\ api[k].uid <= api'[k].uid
                        /\ api'[k].live => api[k].live
    BY <1>0, <1>2
  <2>2. \/ events' = events
        \/ events # << >> /\ events' = Tail(events)
        \/ \E e \in Event : events' = Append(events, e) /\ e.uid \in 1..api'[e.key].uid
    <3>1. ASSUME NEW k \in Keys, api[k].live
          PROVE  api[k].uid \in 1..api'[k].uid
      BY <1>0, <1>2, <3>1 DEF NameInv
    <3> QED
      BY <1>2, <3>1
  <2> QED
    BY <1>2, <2>1, <2>2, NamesKept
<1>3. ASSUME NEW k \in Keys, Delete(k) \/ Touch(k)
      PROVE  NameInv'
  <2>1. PICK op \in {"delete", "update"} : events' = Append(events, Note(op, k))
    BY <1>3 DEF Delete, Touch
  <2>2. PICK e \in Event : events' = Append(events, e) /\ e.key = k /\ e.uid = api[k].uid
    BY <2>1, NoteType DEF Note
  <2>3. /\ api[k].live /\ cache' = cache /\ pending' = pending
        /\ api' = api \/ api' = [api EXCEPT ![k].live = FALSE]
    BY <1>3 DEF Delete, Touch
  <2>4. \A x \in Keys : api'[x].uid = api[x].uid /\ (api'[x].live => api[x].live)
    <3>1. CASE api' = api
      BY <3>1
    <3>2. CASE api' = [api EXCEPT ![k].live = FALSE]
      BY <1>0, <3>2 DEF TypeOK, Object
    <3> QED
      BY <2>3, <3>1, <3>2
  <2>5. \A x \in Keys : Cached(x)' => Cached(x) /\ cache'[x].uid = cache[x].uid
    BY <2>3 DEF Cached
  <2>6. \A info \in pending' : info \in pending
    BY <2>3
  <2>7. \E n \in Event, x \in Keys : /\ api[x].live /\ events' = Append(events, n)
                                     /\ n.key = x /\ n.uid = api[x].uid
    BY <2>2, <2>3
  <2> QED
    BY <1>2, <2>4, <2>5, <2>6, <2>7
<1>4. ASSUME NEW k \in Keys, PatchApplied(k) \/ PatchLost(k)
      PROVE  NameInv'
  <2>1. Apply(k) /\ cache' = cache /\ pending' = pending
    BY <1>4 DEF PatchApplied, PatchLost
  <2> QED
    BY <1>2, <2>1, ApplyTells DEF Cached
<1>5. ASSUME HandleSet \/ HandleDropped \/ HandleDelete
      PROVE  NameInv'
  <2>1. /\ api' = api /\ pending' = pending /\ events # << >> /\ events' = Tail(events)
    BY <1>5 DEF HandleSet, HandleDropped, HandleDelete
  <2>2. PICK e \in Event : e = Head(events) /\ e.key \in Keys /\ e.uid \in 1..api[e.key].uid
    <3>1. 1 \in DOMAIN events /\ Head(events) = events[1] /\ Head(events) \in Event
      BY <1>0, <2>1, TailAt
    <3> QED
      BY <3>1 DEF NameInv, Event
  <2>3. \A x \in Keys : \/ cache'[x] = cache[x]
                        \/ cache'[x].status = "None"
                        \/ x = e.key /\ cache'[x].uid = e.uid
    <3>1. CASE HandleSet
      <4>1. \E status : cache' = [cache EXCEPT ![e.key] = [status |-> status, uid |-> e.uid]]
        BY <2>2, <3>1 DEF HandleSet, SetResourceBinding
      <4>2. /\ cache'[e.key].uid = e.uid
            /\ \A x \in Keys \ {e.key} : cache'[x] = cache[x]
        BY <2>2, <4>1 DEF TypeOK
      <4> QED
        BY <4>2
    <3>2. CASE HandleDropped
      BY <3>2 DEF HandleDropped
    <3>3. CASE HandleDelete
      <4>1. cache' = [cache EXCEPT ![e.key] = NoInfo]
        BY <2>2, <3>3 DEF HandleDelete
      <4> QED
        BY <4>1 DEF NoInfo, TypeOK
    <3> QED
      BY <1>5, <3>1, <3>2, <3>3
  <2>4. \A x \in Keys : Cached(x)' => \/ Cached(x) /\ cache'[x].uid = cache[x].uid
                                      \/ cache'[x].uid \in 1..api'[x].uid
    BY <2>1, <2>2, <2>3 DEF Cached
  <2> QED
    BY <1>0, <2>1, <2>4, NamesKept
<1>6. ASSUME OpenSession
      PROVE  NameInv'
  <2>1. /\ UNCHANGED <<api, cache, events>>
        /\ pending' = {<<k, cache[k].uid>> : k \in {x \in Keys : cache[x].status = "Suspended"}}
    BY <1>6 DEF OpenSession
  <2>2. \A info \in pending' : info[2] \in 1..api'[info[1]].uid
    BY <2>1 DEF NameInv, Cached
  <2> QED
    BY <1>0, <2>1, <2>2, NamesKept DEF Cached
<1>7. ASSUME NEW k \in Keys, Dispatch(k) \/ Ignore(k) \/ PatchRecover(k)
      PROVE  NameInv'
  <2>1. /\ UNCHANGED <<api, events>> /\ pending' \subseteq pending
        /\ \/ cache' = cache
           \/ Cached(k) /\ \E status \in Status : cache' = [cache EXCEPT ![k].status = status]
    BY <1>7 DEF Dispatch, UnSuspendResourceBinding, Ignore, PatchRecover, Status
  <2>2. \A x \in Keys : Cached(x)' => Cached(x) /\ cache'[x].uid = cache[x].uid
    BY <2>1 DEF Cached, TypeOK
  <2> QED
    BY <1>2, <2>1, <2>2
<1>8. ASSUME UNCHANGED <<api, events, cache>>, pending' \subseteq pending
      PROVE  NameInv'
  BY <1>2, <1>8 DEF Cached
<1>9. ASSUME \/ CloseSession \/ UNCHANGED vars
             \/ \E w \in Workers : Work(w)
             \/ \E k \in Keys : PatchRejected(k) \/ PatchDone(k)
      PROVE  NameInv'
  BY <1>8, <1>9 DEF CloseSession, Work, WorkerGet, WorkerBreak, WorkerGo, PatchRejected,
     PatchDone, vars
<1>10. ASSUME Restart
       PROVE  NameInv'
  <2> DEFINE live == {k \in Keys : api[k].live}
  <2>1. PICK order \in [1..Cardinality(live) -> live] :
          events' = [i \in DOMAIN order |-> Note("add", order[i])]
    BY <1>10 DEF Restart
  <2>2. api' = api /\ cache' = [k \in Keys |-> NoInfo] /\ pending' = {}
    BY <1>10 DEF Restart
  <2>3. ASSUME NEW i \in DOMAIN events'
        PROVE  events'[i].uid \in 1..api'[events'[i].key].uid
    <3>1. order[i] \in live /\ events'[i] = Note("add", order[i])
      BY <2>1, <2>3
    <3>2. PICK k \in Keys : k = order[i] /\ api[k].live
      BY <3>1
    <3>3. events'[i].uid = api[k].uid /\ events'[i].key = k
      BY <3>1, <3>2 DEF Note
    <3> QED
      BY <1>0, <2>2, <3>2, <3>3 DEF NameInv
  <2> QED
    BY <2>2, <2>3 DEF NameInv, Cached, NoInfo
<1> QED
  BY <1>1, <1>3, <1>4, <1>5, <1>6, <1>7, <1>9, <1>10
     DEF Next, Environment, Handle, Round, Patching

\* A step after which whatever has a task or is released had it before, or has
\* been granted room.
LEMMA GrantKept ==
    ASSUME GrantInv, granted \subseteq granted',
           tasks.dirty \cup tasks.processing \subseteq Keys,
           \A k \in Keys : api[k].uid \in Nat /\ api'[k].uid \in Nat /\ api[k].uid <= api'[k].uid,
           \A k \in tasks'.dirty \cup tasks'.processing :
             k \in tasks.dirty \cup tasks.processing \/ Granted(k)',
           \A k \in Keys : api'[k].live /\ ~api'[k].suspended
             => (api[k].live /\ ~api[k].suspended) \/ Granted(k)'
    PROVE  GrantInv'
<1>1. ASSUME NEW k \in Keys, Granted(k)
      PROVE  Granted(k)'
  BY <1>1 DEF Granted
<1>2. \A k \in tasks'.dirty \cup tasks'.processing : Granted(k)'
  BY <1>1 DEF GrantInv
<1>3. \A k \in Keys : api'[k].live /\ ~api'[k].suspended => Granted(k)'
  BY <1>1 DEF GrantInv
<1> QED
  BY <1>2, <1>3 DEF GrantInv

\* What a worker or a goroutine is busy with, or waits in the queue, is dirty
\* or being processed.
LEMMA BusyGranted ==
    ASSUME TypeOK, FlightInv, GrantInv
    PROVE  /\ tasks.dirty \cup tasks.processing \subseteq Keys /\ tasks.queue \in Seq(Keys)
           /\ \A k \in Keys : patch[k] # "none" => Granted(k)
           /\ tasks.queue # << >> => Head(tasks.queue) \in tasks.dirty
<1>1. tasks.dirty \cup tasks.processing \subseteq Keys /\ tasks.queue \in Seq(Keys)
  BY DEF TypeOK, QueueTypes
<1>2. \A k \in Keys : patch[k] # "none" => Granted(k)
  BY DEF FlightInv, BusyInv, GrantInv
<1>3. tasks.queue # << >> => Head(tasks.queue) \in tasks.dirty
  BY <1>1, TailAt DEF FlightInv, QueueInv
<1> QED
  BY <1>1, <1>2, <1>3

LEMMA GrantNext ==
    ASSUME TypeOK, FlightInv, NameInv, GrantInv, [Next]_vars
    PROVE  GrantInv'
<1>0. /\ tasks.dirty \cup tasks.processing \subseteq Keys /\ tasks.queue \in Seq(Keys)
      /\ \A k \in Keys : api[k] \in Object /\ api[k].uid \in Nat
  BY BusyGranted DEF TypeOK, Object
<1>1. ASSUME granted' = granted,
             tasks'.dirty \cup tasks'.processing \subseteq tasks.dirty \cup tasks.processing,
             \A k \in Keys : /\ api'[k].uid \in Nat /\ api[k].uid <= api'[k].uid
                             /\ api'[k].live /\ ~api'[k].suspended => api[k].live /\ ~api[k].suspended
      PROVE  GrantInv'
  BY <1>0, <1>1, GrantKept
<1>2. ASSUME UNCHANGED <<api, granted>>,
             tasks'.dirty \cup tasks'.processing \subseteq tasks.dirty \cup tasks.processing
      PROVE  GrantInv'
  BY <1>0, <1>1, <1>2
<1>3. ASSUME NEW k \in Keys, Create(k) \/ Delete(k)
      PROVE  GrantInv'
  <2>1. /\ tasks' = tasks /\ granted' = granted
        /\ \/ api' = [api EXCEPT ![k] = [live |-> TRUE, uid |-> @.uid + 1, suspended |-> TRUE]]
           \/ api' = [api EXCEPT ![k].live = FALSE]
    BY <1>3 DEF Create, Delete
  <2>2. /\ \A x \in Keys \ {k} : api'[x] = api[x]
        /\ ~api'[k].live \/ api'[k].suspended
        /\ api'[k].uid \in Nat /\ api[k].uid <= api'[k].uid
    <3>1. CASE api' = [api EXCEPT ![k] = [live |-> TRUE, uid |-> @.uid + 1, suspended |-> TRUE]]
      BY <1>0, <3>1 DEF TypeOK
    <3>2. CASE api' = [api EXCEPT ![k].live = FALSE]
      BY <1>0, <3>2 DEF TypeOK, Object
    <3> QED
      BY <2>1, <3>1, <3>2
  <2>3. \A x \in Keys : /\ api'[x].uid \in Nat /\ api[x].uid <= api'[x].uid
                        /\ api'[x].live /\ ~api'[x].suspended => api[x].live /\ ~api[x].suspended
    BY <1>0, <2>2
  <2> QED
    BY <1>1, <2>1, <2>3
\* The round grants room to an object that was created under the name.
<1>4. ASSUME NEW k \in Keys, Dispatch(k)
      PROVE  GrantInv'
  <2>1. PICK info \in pending : info[1] = k /\ granted' = granted \cup {info}
    BY <1>4 DEF Dispatch
  <2>2. PICK uid \in Nat : info = <<k, uid>> /\ uid \in 1..api[k].uid
    <3>1. info \in Keys \X Nat /\ info[2] \in 1..api[k].uid
      BY <2>1 DEF NameInv, TypeOK
    <3>2. PICK x \in Keys, uid \in Nat : info = <<x, uid>>
      BY <3>1
    <3> QED
      BY <2>1, <3>1, <3>2
  <2>3. api' = api /\ (tasks' = tasks \/ tasks' = Add(tasks, k))
    BY <1>4 DEF Dispatch, UnSuspendResourceBinding
  <2>4. Granted(k)'
    BY <2>1, <2>2, <2>3 DEF Granted
  <2>5. tasks'.dirty \subseteq tasks.dirty \cup {k} /\ tasks'.processing = tasks.processing
    BY <2>3 DEF Add, TypeOK, QueueTypes
  <2>6. \A x \in tasks'.dirty \cup tasks'.processing :
          x \in tasks.dirty \cup tasks.processing \/ Granted(x)'
    BY <2>4, <2>5
  <2>7. \A x \in Keys : api'[x].uid \in Nat /\ api[x].uid <= api'[x].uid
    BY <1>0, <2>3
  <2>8. granted \subseteq granted' /\ \A x \in Keys : api'[x] = api[x]
    BY <2>1, <2>3
  <2> QED
    BY <1>0, <2>6, <2>7, <2>8, GrantKept
<1>5. ASSUME NEW w \in Workers, Work(w)
      PROVE  GrantInv'
  <2>1. UNCHANGED <<api, granted>>
    BY <1>5 DEF Work, WorkerGet, WorkerBreak, WorkerGo
  <2>2. CASE WorkerGet(w)
    <3>1. tasks.queue # << >> /\ tasks' = Get(tasks)
      BY <2>2 DEF WorkerGet
    <3>2. tasks'.dirty \cup tasks'.processing \subseteq tasks.dirty \cup tasks.processing
      BY <3>1, BusyGranted DEF Get
    <3> QED
      BY <1>2, <2>1, <3>2
  <2>3. CASE WorkerBreak(w) \/ WorkerGo(w)
    BY <1>2, <2>1, <2>3 DEF WorkerBreak, WorkerGo
  <2> QED
    BY <1>5, <2>2, <2>3 DEF Work
\* What a patch releases had a task.
<1>6. ASSUME NEW k \in Keys, PatchApplied(k) \/ PatchLost(k)
      PROVE  GrantInv'
  <2>1. /\ Apply(k) /\ tasks' = tasks /\ granted' = granted /\ patch[k] = "sent"
    BY <1>6 DEF PatchApplied, PatchLost
  <2>2. /\ \A x \in Keys : api'[x].uid = api[x].uid
        /\ \A x \in Keys \ {k} : api'[x] = api[x]
    BY <2>1, ApplyTells
  <2>3. Granted(k)
    BY <2>1, BusyGranted
  <2>4. Granted(k)'
    BY <2>1, <2>2, <2>3 DEF Granted
  <2>5. /\ granted \subseteq granted'
        /\ \A x \in Keys : api[x].uid \in Nat /\ api'[x].uid \in Nat /\ api[x].uid <= api'[x].uid
        /\ \A x \in tasks'.dirty \cup tasks'.processing : x \in tasks.dirty \cup tasks.processing
    BY <1>0, <2>1, <2>2
  <2>6. \A x \in Keys : api'[x].live /\ ~api'[x].suspended
          => (api[x].live /\ ~api[x].suspended) \/ Granted(x)'
    BY <2>2, <2>4
  <2> QED
    BY <1>0, <2>5, <2>6, GrantKept
<1>7. ASSUME \/ \E k \in Keys : \/ Touch(k) \/ Ignore(k) \/ PatchRejected(k)
                                \/ PatchRecover(k) \/ PatchDone(k)
             \/ Handle \/ OpenSession \/ CloseSession \/ UNCHANGED vars
      PROVE  GrantInv'
  <2>1. UNCHANGED <<api, granted>>
    BY <1>7 DEF Touch, Ignore, PatchRejected, PatchRecover, PatchDone, Handle, HandleSet,
       HandleDropped, HandleDelete, OpenSession, CloseSession, vars
  <2>2. tasks' = tasks \/ \E k \in Keys : tasks' = Done(tasks, k)
    BY <1>7 DEF Touch, Ignore, PatchRejected, PatchRecover, PatchDone, Handle, HandleSet,
       HandleDropped, HandleDelete, OpenSession, CloseSession, vars
  <2>3. tasks'.dirty \cup tasks'.processing \subseteq tasks.dirty \cup tasks.processing
    BY <2>2 DEF Done, TypeOK, QueueTypes
  <2> QED
    BY <1>2, <2>1, <2>3
<1>8. ASSUME Restart
      PROVE  GrantInv'
  <2>1. UNCHANGED <<api, granted>> /\ tasks'.dirty = {} /\ tasks'.processing = {}
    BY <1>8 DEF Restart, EmptyQueue
  <2> QED
    BY <1>2, <2>1
<1> QED
  BY <1>3, <1>4, <1>5, <1>6, <1>7, <1>8 DEF Next, Environment, Round, Patching

LEMMA GrantSafe == Spec => [](TypeOK /\ FlightInv /\ NameInv /\ GrantInv)
<1>1. Init => TypeOK /\ FlightInv /\ NameInv /\ GrantInv
  BY InitType, FlightInit, NamesInit
<1>2. TypeOK /\ FlightInv /\ NameInv /\ GrantInv /\ [Next]_vars
      => (TypeOK /\ FlightInv /\ NameInv /\ GrantInv)'
  BY NextType, FlightNext, NameNext, GrantNext
<1> QED
  BY <1>1, <1>2, PTL DEF Spec

\* Through every fault, any number of each: no name is released before a round
\* granted room to it (dispatcher.go, Allocatable and UnSuspendResourceBinding).
\* A name that was created once is released only after a round granted room to
\* that very object; one that is reused may be released by the task of an
\* earlier object, since nothing in the code ties a task to an object.
THEOREM ReleasedWasGranted == Spec => []OnlyGrantedReleased
<1>1. GrantInv => OnlyGrantedReleased
  BY DEF GrantInv, Granted, OnlyGrantedReleased
<1> QED
  BY <1>1, GrantSafe, PTL
-----------------------------------------------------------------------------
(* Whatever is dispatched and not released has its task. *)

LEMMA DirtyNext ==
    ASSUME TypeOK, FlightInv, DirtyInv, [Next]_vars
    PROVE  DirtyInv'
<1>0. /\ tasks.queue \in Seq(Keys) /\ tasks.dirty \subseteq Keys
      /\ tasks \in QueueTypes(Keys)
  BY DEF TypeOK, QueueTypes
\* A key appended to the queue is in it.
<1>1. ASSUME NEW k \in Keys, tasks'.queue = Append(tasks.queue, k)
      PROVE  /\ \E i \in DOMAIN tasks'.queue : tasks'.queue[i] = k
             /\ \A j \in DOMAIN tasks.queue :
                  \E i \in DOMAIN tasks'.queue : tasks'.queue[i] = tasks.queue[j]
  BY <1>0, <1>1
<1>2. CASE tasks' = tasks
  BY <1>2 DEF DirtyInv
<1>3. ASSUME NEW k \in Keys, tasks' = Add(tasks, k), k \notin tasks.dirty
      PROVE  DirtyInv'
  <2>1. /\ tasks'.dirty = tasks.dirty \cup {k} /\ tasks'.processing = tasks.processing
        /\ tasks'.queue = IF k \in tasks.processing THEN tasks.queue ELSE Append(tasks.queue, k)
    BY <1>0, <1>3 DEF Add, QueueTypes
  <2>2. CASE k \in tasks.processing
    BY <2>1, <2>2 DEF DirtyInv
  <2>3. CASE k \notin tasks.processing
    BY <1>1, <2>1, <2>3 DEF DirtyInv
  <2> QED
    BY <2>2, <2>3
<1>4. ASSUME NEW k \in Keys, tasks' = Done(tasks, k)
      PROVE  DirtyInv'
  <2>1. /\ tasks'.dirty = tasks.dirty /\ tasks'.processing = tasks.processing \ {k}
        /\ tasks'.queue = IF k \in tasks.dirty THEN Append(tasks.queue, k) ELSE tasks.queue
    BY <1>0, <1>4 DEF Done, QueueTypes
  <2>2. CASE k \in tasks.dirty
    BY <1>1, <2>1, <2>2 DEF DirtyInv
  <2>3. CASE k \notin tasks.dirty
    BY <2>1, <2>3 DEF DirtyInv
  <2> QED
    BY <2>2, <2>3
<1>5. ASSUME tasks.queue # << >>, tasks' = Get(tasks)
      PROVE  DirtyInv'
  <2>1. /\ tasks'.dirty = tasks.dirty \ {tasks.queue[1]}
        /\ tasks'.processing = tasks.processing \cup {tasks.queue[1]}
        /\ tasks'.queue = Tail(tasks.queue)
    BY <1>0, <1>5, TailAt DEF Get
  <2>2. ASSUME NEW k \in tasks'.dirty \ tasks'.processing
        PROVE  \E i \in DOMAIN tasks'.queue : tasks'.queue[i] = k
    <3>1. PICK j \in DOMAIN tasks.queue : tasks.queue[j] = k /\ j # 1
      BY <2>1, <2>2 DEF DirtyInv
    <3>2. j - 1 \in DOMAIN Tail(tasks.queue) /\ Tail(tasks.queue)[j - 1] = tasks.queue[j]
      BY <1>0, <1>5, <3>1
    <3> QED
      BY <2>1, <3>1, <3>2
  <2> QED
    BY <2>2 DEF DirtyInv
<1>6. ASSUME Restart
      PROVE  DirtyInv'
  BY <1>6 DEF Restart, EmptyQueue, DirtyInv
<1>7. ASSUME NEW k \in Keys, Dispatch(k)
      PROVE  DirtyInv'
  <2>1. tasks' = tasks \/ (tasks' = Add(tasks, k) /\ k \notin tasks.dirty)
    BY <1>7 DEF Dispatch, UnSuspendResourceBinding, Add
  <2> QED
    BY <1>2, <1>3, <2>1
<1>8. ASSUME NEW k \in Keys, Patching(k)
      PROVE  DirtyInv'
  <2>1. tasks' = tasks \/ tasks' = Done(tasks, k)
    BY <1>8 DEF Patching, PatchApplied, PatchRejected, PatchLost, PatchRecover, PatchDone
  <2> QED
    BY <1>2, <1>4, <2>1
<1>9. ASSUME NEW w \in Workers, Work(w)
      PROVE  DirtyInv'
  <2>1. tasks' = tasks \/ (tasks.queue # << >> /\ tasks' = Get(tasks))
    BY <1>9 DEF Work, WorkerGet, WorkerBreak, WorkerGo
  <2> QED
    BY <1>2, <1>5, <2>1
<1>10. ASSUME \/ \E k \in Keys : Create(k) \/ Delete(k) \/ Touch(k) \/ Ignore(k)
              \/ Handle \/ OpenSession \/ CloseSession \/ UNCHANGED vars
       PROVE  DirtyInv'
  BY <1>2, <1>10 DEF Create, Delete, Touch, Ignore, Handle, HandleSet, HandleDropped,
     HandleDelete, OpenSession, CloseSession, vars
<1> QED
  BY <1>6, <1>7, <1>8, <1>9, <1>10 DEF Next, Environment, Round

\* A step after which the first objects are those that were, are cached if they
\* were, and no deletion of one is told; a key comes to processing, or stays
\* there, with whom is busy with it.
LEMMA FirstKept ==
    ASSUME TypeOK, FirstInv,
           \A k \in Keys : First(k)' =>
             /\ First(k)
             /\ Cached(k) => Cached(k)'
             /\ k \in tasks'.dirty \cup tasks'.processing
                  => k \in tasks.dirty \cup tasks.processing \/ Cached(k)'
             /\ k \in tasks'.processing => Held(k)' \/ (k \in tasks.processing /\ ~Held(k)),
           \/ events' = events
           \/ events # << >> /\ events' = Tail(events)
           \/ \E e \in Event : /\ events' = Append(events, e)
                               /\ e.op = "delete" => ~First(e.key)'
    PROVE  FirstInv'
<1>1. events \in Seq(Event) /\ DOMAIN events \subseteq Nat
  BY DEF TypeOK
<1>2. ASSUME NEW k \in Keys, First(k)'
      PROVE  /\ \A i \in DOMAIN events' : events'[i].op = "delete" => events'[i].key # k
             /\ k \in tasks'.dirty \cup tasks'.processing => Cached(k)'
             /\ k \in tasks'.processing => Held(k)'
  <2>1. /\ First(k)
        /\ \A i \in DOMAIN events : events[i].op = "delete" => events[i].key # k
    BY <1>2 DEF FirstInv
  <2>2. CASE events' = events
    BY <1>2, <2>1, <2>2 DEF FirstInv
  <2>3. CASE events # << >> /\ events' = Tail(events)
    <3>1. \A i \in DOMAIN events' : i + 1 \in DOMAIN events /\ events'[i] = events[i + 1]
      BY <1>1, <2>3, TailAt
    <3> QED
      BY <1>2, <2>1, <3>1 DEF FirstInv
  <2>4. ASSUME NEW e \in Event, events' = Append(events, e), e.op = "delete" => ~First(e.key)'
        PROVE  \A i \in DOMAIN events' : events'[i].op = "delete" => events'[i].key # k
    <3>1. \A i \in DOMAIN events' : (i \in DOMAIN events /\ events'[i] = events[i]) \/ events'[i] = e
      BY <1>1, <2>4, AppendAt
    <3>2. e.op = "delete" => e.key # k
      BY <1>2, <2>4
    <3> QED
      BY <2>1, <3>1, <3>2
  <2> QED
    BY <1>2, <2>1, <2>2, <2>3, <2>4 DEF FirstInv
<1> QED
  BY <1>2 DEF FirstInv, First, Held, Cached

\* Steps that leave the work queue, the workers and the goroutines alone.
LEMMA FirstLeft ==
    ASSUME TypeOK, FirstInv, UNCHANGED <<tasks, worker, patch>>,
           \A k \in Keys : First(k)' => First(k) /\ (Cached(k) => Cached(k)'),
           \/ events' = events
           \/ events # << >> /\ events' = Tail(events)
           \/ \E e \in Event : /\ events' = Append(events, e)
                               /\ e.op = "delete" => ~First(e.key)'
    PROVE  FirstInv'
<1>1. \A k \in Keys : Held(k)' <=> Held(k)
  BY DEF Held
<1> QED
  BY <1>1, FirstKept

LEMMA FirstNext ==
    ASSUME TypeOK, FlightInv, NameInv, GrantInv, FirstInv, [Next]_vars
    PROVE  FirstInv'
<1>0. /\ events \in Seq(Event) /\ DOMAIN events \subseteq Nat
      /\ \A k \in Keys : api[k] \in Object /\ api[k].uid \in Nat
      /\ tasks.queue \in Seq(Keys) /\ tasks.dirty \subseteq Keys
      /\ NoKey \notin Keys
  BY DispatcherAssumption DEF TypeOK, Object, QueueTypes
\* A name that was never used is known to nobody.
<1>1. ASSUME NEW k \in Keys, Create(k)
      PROVE  FirstInv'
  <2>1. /\ api' = [api EXCEPT ![k] = [live |-> TRUE, uid |-> @.uid + 1, suspended |-> TRUE]]
        /\ UNCHANGED <<cache, tasks, worker, patch>>
    BY <1>1 DEF Create
  <2>2. /\ api'[k].uid = api[k].uid + 1
        /\ \A x \in Keys \ {k} : api'[x] = api[x]
    BY <2>1 DEF TypeOK
  <2>3. PICK e \in Event : events' = Append(events, e) /\ e.op = "add" /\ e.key = k
    <3>1. [op |-> "add", key |-> k, uid |-> api[k].uid + 1, suspended |-> TRUE] \in Event
      BY <1>0 DEF Event
    <3> QED
      BY <1>1, <3>1 DEF Create
  <2>4. \A i \in DOMAIN events' : (i \in DOMAIN events /\ events'[i] = events[i]) \/ events'[i] = e
    BY <1>0, <2>3, AppendAt
  <2>5. ASSUME NEW x \in Keys, First(x)'
        PROVE  /\ \A i \in DOMAIN events' : events'[i].op = "delete" => events'[i].key # x
               /\ x \in tasks'.dirty \cup tasks'.processing => Cached(x)'
               /\ x \in tasks'.processing => Held(x)'
    <3>1. CASE x = k
      <4>1. api[k].uid = 0
        BY <1>0, <2>2, <2>5, <3>1 DEF First
      <4>2. \A i \in DOMAIN events : events[i].key # k
        <5>1. 1..api[k].uid = {}
          BY <4>1
        <5> QED
          BY <5>1 DEF NameInv
      <4>3. k \notin tasks.dirty \cup tasks.processing
        <5>1. 1..api[k].uid = {}
          BY <4>1
        <5>2. ~Granted(k)
          BY <5>1 DEF Granted
        <5> QED
          BY <5>2 DEF GrantInv
      <4>4. x \notin tasks'.dirty \cup tasks'.processing
        BY <2>1, <3>1, <4>3
      <4>5. \A i \in DOMAIN events' : events'[i].op = "delete" => events'[i].key # x
        BY <2>3, <2>4, <3>1, <4>2
      <4> QED
        BY <4>4, <4>5
    <3>2. CASE x # k
      <4>1. First(x)
        BY <2>2, <2>5, <3>2 DEF First
      <4>2. /\ \A i \in DOMAIN events : events[i].op = "delete" => events[i].key # x
            /\ x \in tasks'.dirty \cup tasks'.processing => Cached(x)'
            /\ x \in tasks'.processing => Held(x)'
        BY <2>1, <4>1 DEF FirstInv, Cached, Held
      <4> QED
        BY <2>3, <2>4, <4>2
    <3> QED
      BY <3>1, <3>2
  <2> QED
    BY <2>5 DEF FirstInv, First, Cached, Held
<1>2. ASSUME NEW k \in Keys, Delete(k)
      PROVE  FirstInv'
  <2>1. PICK e \in Event : events' = Append(events, e) /\ e.key = k
    BY <1>2, NoteType DEF Delete, Note
  <2>2. api' = [api EXCEPT ![k].live = FALSE] /\ UNCHANGED <<cache, tasks, worker, patch>>
    BY <1>2 DEF Delete
  <2>3. ~api'[k].live /\ \A x \in Keys \ {k} : api'[x] = api[x]
    BY <1>0, <2>2 DEF TypeOK, Object
  <2>4. ~First(k)' /\ \A x \in Keys : First(x)' => First(x)
    BY <2>3 DEF First
  <2>5. \A x \in Keys : Cached(x) => Cached(x)'
    BY <2>2 DEF Cached
  <2> QED
    BY <2>1, <2>2, <2>4, <2>5, FirstLeft
<1>3. ASSUME NEW k \in Keys, Touch(k)
      PROVE  FirstInv'
  <2>1. PICK e \in Event : events' = Append(events, e) /\ e.op = "update"
    BY <1>3, NoteType DEF Touch, Note
  <2>2. UNCHANGED <<api, cache, tasks, worker, patch>>
    BY <1>3 DEF Touch
  <2> QED
    BY <2>1, <2>2, FirstLeft DEF First, Cached
\* No deletion of a first object that lives is heard, so none leaves the cache.
<1>4. ASSUME HandleSet \/ HandleDropped \/ HandleDelete
      PROVE  FirstInv'
  <2>1. /\ UNCHANGED <<api, tasks, worker, patch>> /\ events # << >> /\ events' = Tail(events)
    BY <1>4 DEF HandleSet, HandleDropped, HandleDelete
  <2>2. PICK e \in Event : e = Head(events) /\ 1 \in DOMAIN events /\ e = events[1]
    BY <1>0, <2>1, TailAt
  <2>3. \A x \in Keys : \/ Cached(x) => Cached(x)'
                        \/ x = e.key /\ e.op = "delete"
    <3>1. CASE HandleSet
      <4>1. \E status \in {"Suspended", "UnSuspended"} :
              cache' = [cache EXCEPT ![e.key] = [status |-> status, uid |-> e.uid]]
        BY <2>2, <3>1 DEF HandleSet, SetResourceBinding
      <4>2. e.key \in Keys
        BY DEF Event
      <4>3. /\ cache'[e.key].status # "None"
            /\ \A x \in Keys \ {e.key} : cache'[x] = cache[x]
        BY <4>1, <4>2 DEF TypeOK
      <4> QED
        BY <4>3 DEF Cached
    <3>2. CASE HandleDropped
      BY <3>2 DEF HandleDropped, Cached
    <3>3. CASE HandleDelete
      <4>1. e.op = "delete" /\ cache' = [cache EXCEPT ![e.key] = NoInfo]
        BY <2>2, <3>3 DEF HandleDelete
      <4>2. \A x \in Keys : cache'[x] = cache[x] \/ x = e.key
        BY <4>1 DEF TypeOK
      <4> QED
        BY <4>1, <4>2 DEF Cached
    <3> QED
      BY <1>4, <3>1, <3>2, <3>3
  <2>4. ASSUME NEW x \in Keys, First(x)'
        PROVE  First(x) /\ (Cached(x) => Cached(x)')
    <3>1. First(x)
      BY <2>1, <2>4 DEF First
    <3>2. ~(x = e.key /\ e.op = "delete")
      BY <2>2, <3>1 DEF FirstInv
    <3> QED
      BY <2>3, <3>1, <3>2
  <2> QED
    BY <2>1, <2>4, FirstLeft
<1>5. ASSUME NEW k \in Keys, Dispatch(k)
      PROVE  FirstInv'
  <2>1. UNCHANGED <<api, events, worker, patch>> /\ UnSuspendResourceBinding(k)
    BY <1>5 DEF Dispatch
  <2>2. \A x \in Keys : Cached(x) => Cached(x)'
    BY <2>1 DEF UnSuspendResourceBinding, Cached, TypeOK
  <2>3. CASE Cached(k)
    <3>1. tasks'.dirty = tasks.dirty \cup {k} /\ tasks'.processing = tasks.processing
      BY <2>1, <2>3 DEF UnSuspendResourceBinding, Add, TypeOK, QueueTypes
    <3>2. \A x \in Keys : (First(x)' <=> First(x)) /\ (Held(x)' <=> Held(x))
      BY <2>1 DEF First, Held
    <3>3. \A x \in Keys : x \in tasks'.dirty \cup tasks'.processing
             => x \in tasks.dirty \cup tasks.processing \/ Cached(x)'
      BY <2>2, <2>3, <3>1
    <3> QED
      BY <2>1, <2>2, <3>1, <3>2, <3>3, FirstKept
  <2>4. CASE ~Cached(k)
    BY <2>1, <2>2, <2>4, FirstLeft DEF UnSuspendResourceBinding, First
  <2> QED
    BY <2>3, <2>4
<1>6. ASSUME NEW k \in Keys, PatchRecover(k)
      PROVE  FirstInv'
  <2>1. /\ UNCHANGED <<api, events, tasks, worker>> /\ patch' = [patch EXCEPT ![k] = "done"]
        /\ cache' = IF Cached(k) THEN [cache EXCEPT ![k].status = "Suspended"] ELSE cache
    BY <1>6 DEF PatchRecover
  <2>2. \A x \in Keys : Cached(x) => Cached(x)'
    BY <2>1 DEF Cached, TypeOK
  <2>3. patch'[k] = "done" /\ \A x \in Keys \ {k} : patch'[x] = patch[x]
    BY <2>1 DEF TypeOK
  <2>4. \A x \in Keys : Held(x) => Held(x)'
    BY <2>1, <2>3 DEF Held
  <2>5. \A x \in Keys : First(x)' => First(x)
    BY <2>1 DEF First
  <2> QED
    BY <2>1, <2>2, <2>4, <2>5, FirstKept
<1>7. ASSUME NEW k \in Keys, PatchApplied(k) \/ PatchRejected(k) \/ PatchLost(k)
      PROVE  FirstInv'
  <2>1. /\ UNCHANGED <<cache, tasks, worker>>
        /\ \E p \in {"done", "failed"} : patch' = [patch EXCEPT ![k] = p]
    BY <1>7 DEF PatchApplied, PatchRejected, PatchLost
  <2>2. /\ \A x \in Keys : api'[x].uid = api[x].uid /\ api'[x].live = api[x].live
        /\ \/ events' = events
           \/ \E e \in Event : events' = Append(events, e) /\ e.op = "update"
    <3>1. CASE PatchApplied(k) \/ PatchLost(k)
      <4>1. Apply(k)
        BY <3>1 DEF PatchApplied, PatchLost
      <4> QED
        BY <4>1, ApplyTells
    <3>2. CASE PatchRejected(k)
      BY <3>2 DEF PatchRejected
    <3> QED
      BY <1>7, <3>1, <3>2
  <2>3. patch'[k] # "none" /\ \A x \in Keys \ {k} : patch'[x] = patch[x]
    BY <2>1 DEF TypeOK
  <2>4. \A x \in Keys : Held(x) => Held(x)'
    BY <2>1, <2>3 DEF Held
  <2>5. \A x \in Keys : (First(x)' => First(x)) /\ (Cached(x) => Cached(x)')
    BY <2>1, <2>2 DEF First, Cached
  <2>6. \/ events' = events
        \/ \E e \in Event : events' = Append(events, e) /\ (e.op = "delete" => ~First(e.key)')
    BY <2>2
  <2> QED
    BY <2>1, <2>4, <2>5, <2>6, FirstKept
\* The goroutine that calls Done holds the key, and lets it go.
<1>8. ASSUME NEW k \in Keys, PatchDone(k)
      PROVE  FirstInv'
  <2>1. /\ UNCHANGED <<api, events, cache, worker>> /\ patch' = [patch EXCEPT ![k] = "none"]
        /\ tasks'.dirty = tasks.dirty /\ tasks'.processing = tasks.processing \ {k}
    BY <1>8 DEF PatchDone, Done, TypeOK, QueueTypes
  <2>2. \A x \in Keys \ {k} : patch'[x] = patch[x]
    BY <2>1 DEF TypeOK
  <2>3. \A x \in Keys \ {k} : Held(x) => Held(x)'
    BY <2>1, <2>2 DEF Held
  <2>4. \A x \in Keys : (First(x)' => First(x)) /\ (Cached(x) => Cached(x)')
    BY <2>1 DEF First, Cached
  <2> QED
    BY <2>1, <2>3, <2>4, FirstKept
<1>9. ASSUME NEW w \in Workers, WorkerGet(w)
      PROVE  FirstInv'
  <2>1. PICK k \in Keys : k = Head(tasks.queue) /\ k \in tasks.dirty
    BY <1>0, <1>9, BusyGranted DEF WorkerGet
  <2>2. /\ UNCHANGED <<api, events, cache, patch>> /\ worker[w] = NoKey
        /\ worker' = [worker EXCEPT ![w] = k]
        /\ tasks'.dirty = tasks.dirty \ {k} /\ tasks'.processing = tasks.processing \cup {k}
    BY <1>9, <2>1 DEF WorkerGet, Get
  <2>3. worker'[w] = k /\ \A x \in Keys, v \in Workers : worker[v] = x => worker'[v] = x
    BY <1>0, <2>2 DEF TypeOK
  <2>4. Held(k)' /\ \A x \in Keys : Held(x) => Held(x)'
    BY <2>2, <2>3 DEF Held
  <2>5. \A x \in Keys : (First(x)' => First(x)) /\ (Cached(x) => Cached(x)')
    BY <2>2 DEF First, Cached
  <2> QED
    BY <2>1, <2>2, <2>4, <2>5, FirstKept
\* A worker breaks off only with a key that is not cached.
<1>10. ASSUME NEW w \in Workers, WorkerBreak(w)
       PROVE  FirstInv'
  <2>1. /\ UNCHANGED <<api, events, cache, tasks, patch>> /\ worker[w] # NoKey
        /\ ~Cached(worker[w]) /\ worker' = [worker EXCEPT ![w] = NoKey]
    BY <1>10 DEF WorkerBreak
  <2>2. worker[w] \in Keys /\ worker[w] \in tasks.processing
    BY <2>1 DEF FlightInv, BusyInv, TypeOK
  <2>3. ~First(worker[w])
    BY <2>1, <2>2 DEF FirstInv
  <2>4. \A x \in Keys, v \in Workers : worker[v] = x /\ x # worker[w] => worker'[v] = x
    BY <2>1 DEF TypeOK
  <2>5. \A x \in Keys : First(x)' => First(x) /\ (Held(x) => Held(x)')
    BY <2>1, <2>3, <2>4 DEF First, Held
  <2>6. \A x \in Keys : Cached(x) => Cached(x)'
    BY <2>1 DEF Cached
  <2> QED
    BY <2>1, <2>5, <2>6, FirstKept
<1>11. ASSUME NEW w \in Workers, WorkerGo(w)
       PROVE  FirstInv'
  <2>1. /\ UNCHANGED <<api, events, cache, tasks>> /\ worker[w] \in Keys
        /\ worker' = [worker EXCEPT ![w] = NoKey] /\ patch' = [patch EXCEPT ![worker[w]] = "sent"]
    BY <1>11 DEF WorkerGo, TypeOK
  <2>2. /\ patch'[worker[w]] = "sent" /\ \A x \in Keys \ {worker[w]} : patch'[x] = patch[x]
        /\ \A x \in Keys, v \in Workers : worker[v] = x /\ x # worker[w] => worker'[v] = x
    BY <2>1 DEF TypeOK
  <2>3. \A x \in Keys : Held(x) => Held(x)'
    BY <2>1, <2>2 DEF Held
  <2>4. \A x \in Keys : (First(x)' => First(x)) /\ (Cached(x) => Cached(x)')
    BY <2>1 DEF First, Cached
  <2> QED
    BY <2>1, <2>3, <2>4, FirstKept
<1>12. ASSUME Restart
       PROVE  FirstInv'
  <2> DEFINE live == {k \in Keys : api[k].live}
  <2>1. PICK order \in [1..Cardinality(live) -> live] :
          events' = [i \in DOMAIN order |-> Note("add", order[i])]
    BY <1>12 DEF Restart
  <2>2. \A i \in DOMAIN events' : events'[i].op = "add"
    BY <2>1 DEF Note
  <2>3. tasks'.dirty = {} /\ tasks'.processing = {}
    BY <1>12 DEF Restart, EmptyQueue
  <2> QED
    BY <2>2, <2>3 DEF FirstInv
<1>13. ASSUME OpenSession \/ CloseSession \/ UNCHANGED vars \/ \E k \in Keys : Ignore(k)
       PROVE  FirstInv'
  <2>1. UNCHANGED <<api, events, cache, tasks, worker, patch>>
    BY <1>13 DEF OpenSession, CloseSession, Ignore, vars
  <2> QED
    BY <2>1, FirstLeft DEF First, Cached
<1> QED
  BY <1>1, <1>2, <1>3, <1>4, <1>5, <1>6, <1>7, <1>8, <1>9, <1>10, <1>11, <1>12, <1>13
     DEF Next, Environment, Handle, Round, Work, Patching

StrandedInv == /\ TypeOK /\ FlightInv /\ FaultInv /\ NameInv
               /\ GrantInv /\ DirtyInv /\ FirstInv

LEMMA StrandedSafe == Spec => []StrandedInv
<1>1. Init => StrandedInv
  BY InitType, FlightInit, FaultInit, NamesInit DEF StrandedInv
<1>2. StrandedInv /\ [Next]_vars => StrandedInv'
  BY NextType, FlightNext, GhostsNext, OwedNext, NameNext, GrantNext, DirtyNext, FirstNext
     DEF StrandedInv, FaultInv
<1> QED
  BY <1>1, <1>2, PTL DEF Spec

\* Through every fault, any number of each, a binding that is UnSuspending and
\* not released has its task in the queue, with a worker or with a goroutine
\* (UnSuspendResourceBinding and unSuspendRBTaskWorker), with one exception: a
\* name used before, whose key a worker's break left in processing.  A name's
\* first object is never stranded.
THEOREM DispatchedHasItsTask == Spec => []NoStrandedTask
<1>1. ASSUME StrandedInv, NEW k \in Keys, Dispatched(k)
      PROVE  InTask(k) \/ (api[k].uid > 1 /\ Abandoned(k))
  <2>1. api[k].uid \in Nat /\ api[k].uid # 0 /\ api[k].live
    BY <1>1 DEF StrandedInv, TypeOK, Object, NameInv, Dispatched
  <2>2. Owed(k) /\ patch[k] \in Phase
    BY <1>1 DEF StrandedInv, FaultInv, OwedInv, TypeOK
  <2>3. CASE k \in tasks.dirty \ tasks.processing
    BY <1>1, <2>3 DEF StrandedInv, DirtyInv, InTask
  <2>4. CASE k \in tasks.dirty \cap tasks.processing /\ Held(k)
    BY <2>2, <2>4 DEF Held, InTask, Phase
  <2>5. CASE k \in tasks.dirty \cap tasks.processing /\ ~Held(k)
    <3>1. ~First(k)
      BY <1>1, <2>5 DEF StrandedInv, FirstInv
    <3>2. api[k].uid > 1
      BY <2>1, <3>1 DEF First
    <3> QED
      BY <2>5, <3>2 DEF Abandoned
  <2>6. CASE k \notin tasks.dirty
    BY <2>2, <2>6 DEF Owed, InTask
  <2> QED
    BY <2>3, <2>4, <2>5, <2>6
<1>2. StrandedInv => NoStrandedTask
  BY <1>1 DEF NoStrandedTask
<1> QED
  BY <1>2, StrandedSafe, PTL
=============================================================================
