---------------------------- MODULE LedgerProofs ----------------------------
(***************************************************************************)
(* The dispatcher implements the ledger: room is granted in view of every  *)
(* grant made so far and released after, although the grants are made by   *)
(* rounds that see a snapshot, the releases by patches that may fail, and  *)
(* the cache hears of both later.                                          *)
(***************************************************************************)
EXTENDS DispatcherFaultProofs

\* While names are not reused there is one incarnation of each.
NoReuse == Budget["recreate"] = 0

OneLife ==
    /\ budget["recreate"] = 0
    /\ \A k \in Keys : /\ api[k].uid \in {0, 1}
                       /\ api[k].live => api[k].uid = 1
                       /\ Cached(k) => cache[k].uid = 1
    /\ \A i \in DOMAIN events : events[i].uid = 1
    /\ \A info \in pending : info[2] = 1

\* What the informer and the cache take for released was released.
SeenInv ==
    /\ \A i \in DOMAIN events : ~events[i].suspended => ~api[events[i].key].suspended
    /\ \A k \in Keys : cache[k].status = "UnSuspended" => ~api[k].suspended

LedgerInv == TypeOK /\ FlightInv /\ CapacityInv /\ OneLife /\ SeenInv

\* What the ledger says of k is not touched by a step.
Same(k) ==
    /\ api'[k].live = api[k].live
    /\ api[k].live => /\ api'[k].suspended = api[k].suspended
                      /\ api[k].suspended => (Dispatched(k)' <=> Dispatched(k))

LEMMA OneLifeInit == NoReuse /\ Init => OneLife
BY DispatcherAssumption DEF NoReuse, Init, OneLife, Cached, NoInfo

LEMMA OneLifeNext ==
    ASSUME TypeOK, OneLife, [Next]_vars
    PROVE  OneLife'
<1>0. /\ events \in Seq(Event) /\ DOMAIN events \subseteq Nat
      /\ \A i \in DOMAIN events : events[i].uid = 1
      /\ \A k \in Keys : api[k] \in Object /\ cache[k] \in [status : Status, uid : Nat]
      /\ budget["recreate"] = 0 /\ budget \in [FaultKinds -> Nat]
  BY DEF TypeOK, OneLife
<1>1. budget'["recreate"] = 0
  <2>1. ASSUME budget' = budget \/ \E f \in FaultKinds : Spend(f)
        PROVE  budget'["recreate"] = 0
    <3>1. ASSUME NEW f \in FaultKinds, Spend(f)
          PROVE  budget'["recreate"] = 0
      <4>1. f # "recreate" /\ budget' = [budget EXCEPT ![f] = @ - 1]
        BY <1>0, <3>1 DEF Spend
      <4> QED
        BY <1>0, <4>1 DEF FaultKinds
    <3> QED
      BY <1>0, <2>1, <3>1
  <2>2. ASSUME NEW k \in Keys, Create(k) \/ Delete(k) \/ Touch(k) \/ Dispatch(k) \/ Ignore(k)
        PROVE  budget'["recreate"] = 0
    BY <2>1, <2>2 DEF Create, Delete, Touch, Dispatch, Ignore, FaultKinds
  <2>3. ASSUME NEW k \in Keys, Patching(k)
        PROVE  budget'["recreate"] = 0
    BY <2>1, <2>3 DEF Patching, PatchApplied, PatchRejected, PatchLost, PatchRecover, PatchDone,
       FaultKinds
  <2>4. ASSUME NEW w \in Workers, Work(w)
        PROVE  budget'["recreate"] = 0
    BY <2>1, <2>4 DEF Work, WorkerGet, WorkerBreak, WorkerGo
  <2>5. ASSUME Restart \/ Handle \/ OpenSession \/ CloseSession \/ UNCHANGED vars
        PROVE  budget'["recreate"] = 0
    BY <2>1, <2>5 DEF Restart, Handle, HandleSet, HandleDropped, HandleDelete, OpenSession,
       CloseSession, vars, FaultKinds
  <2> QED
    BY <2>2, <2>3, <2>4, <2>5 DEF Next, Environment, Round
<1>2. ASSUME \A k \in Keys : /\ api'[k].uid = api[k].uid
                             /\ api'[k].live => api[k].live
                             /\ Cached(k)' => Cached(k) /\ cache'[k].uid = cache[k].uid,
             \A info \in pending' : info \in pending,
             \/ events' = events
             \/ events # << >> /\ events' = Tail(events)
             \/ \E e \in Event : events' = Append(events, e) /\ e.uid = 1
      PROVE  OneLife'
  <2>1. \A i \in DOMAIN events' : events'[i].uid = 1
    <3>1. CASE events' = events
      BY <1>0, <3>1
    <3>2. CASE events # << >> /\ events' = Tail(events)
      BY <1>0, <3>2, TailAt
    <3>3. CASE \E e \in Event : events' = Append(events, e) /\ e.uid = 1
      BY <1>0, <3>3, AppendAt
    <3> QED
      BY <1>2, <3>1, <3>2, <3>3
  <2> QED
    BY <1>1, <1>2, <2>1 DEF OneLife
\* The one creation of a name.
<1>3. ASSUME NEW k \in Keys, Create(k)
      PROVE  OneLife'
  <2>1. api[k].uid = 0
    BY <1>0, <1>3 DEF Create, Spend
  <2>2. /\ api' = [api EXCEPT ![k] = [live |-> TRUE, uid |-> @.uid + 1, suspended |-> TRUE]]
        /\ cache' = cache /\ pending' = pending
        /\ events' = Append(events, [op |-> "add", key |-> k, uid |-> api[k].uid + 1,
                                     suspended |-> TRUE])
    BY <1>3 DEF Create
  <2>3. /\ api'[k].uid = 1
        /\ \A x \in Keys \ {k} : api'[x] = api[x]
    BY <2>1, <2>2 DEF TypeOK
  <2>4. PICK e \in Event : e.uid = 1 /\ events' = Append(events, e)
    <3>1. [op |-> "add", key |-> k, uid |-> 1, suspended |-> TRUE] \in Event
      BY DEF Event
    <3> QED
      BY <2>1, <2>2, <3>1
  <2>5. \A i \in DOMAIN events' : events'[i].uid = 1
    BY <1>0, <2>4
  <2> QED
    BY <1>1, <2>2, <2>3, <2>5 DEF OneLife, Cached
<1>4. ASSUME NEW k \in Keys, Delete(k)
      PROVE  OneLife'
  <2>1. PICK e \in Event : events' = Append(events, e) /\ e.uid = api[k].uid
    BY <1>4, NoteType DEF Delete, Note
  <2>2. /\ api[k].live /\ api' = [api EXCEPT ![k].live = FALSE]
        /\ cache' = cache /\ pending' = pending
    BY <1>4 DEF Delete
  <2>3. \A x \in Keys : api'[x].uid = api[x].uid /\ (api'[x].live => api[x].live)
    BY <1>0, <2>2 DEF TypeOK, Object
  <2>4. e.uid = 1
    BY <2>1, <2>2 DEF OneLife
  <2> QED
    BY <1>2, <2>1, <2>2, <2>3, <2>4 DEF Cached
<1>5. ASSUME NEW k \in Keys, Touch(k)
      PROVE  OneLife'
  <2>1. PICK e \in Event : events' = Append(events, e) /\ e.uid = api[k].uid
    BY <1>5, NoteType DEF Touch, Note
  <2>2. api[k].live /\ api' = api /\ cache' = cache /\ pending' = pending
    BY <1>5 DEF Touch
  <2>3. e.uid = 1
    BY <2>1, <2>2 DEF OneLife
  <2> QED
    BY <1>2, <2>1, <2>2, <2>3 DEF Cached
<1>6. ASSUME NEW k \in Keys, PatchApplied(k) \/ PatchLost(k)
      PROVE  OneLife'
  <2>1. /\ api[k].live /\ api' = [api EXCEPT ![k].suspended = FALSE]
        /\ cache' = cache /\ pending' = pending
        /\ events' = IF api[k].suspended
                     THEN Append(events, [Note("update", k) EXCEPT !.suspended = FALSE])
                     ELSE events
    BY <1>6 DEF PatchApplied, PatchLost, Apply
  <2>2. \A x \in Keys : api'[x].uid = api[x].uid /\ api'[x].live = api[x].live
    BY <1>0, <2>1 DEF TypeOK, Object
  <2>3. PICK n \in Event : n = Note("update", k) /\ n.uid = api[k].uid
    BY NoteType DEF Note
  <2>4. PICK e : e = [n EXCEPT !.suspended = FALSE]
    OBVIOUS
  <2>5. e \in Event /\ e.uid = 1
    BY <2>1, <2>3, <2>4 DEF Event, OneLife
  <2> QED
    BY <1>2, <2>1, <2>2, <2>3, <2>4, <2>5 DEF Cached
<1>7. ASSUME HandleDropped \/ HandleDelete
      PROVE  OneLife'
  <2>1. /\ api' = api /\ pending' = pending /\ events # << >> /\ events' = Tail(events)
        /\ cache' = cache \/ \E x : cache' = [cache EXCEPT ![x] = NoInfo]
    BY <1>7 DEF HandleDropped, HandleDelete
  <2>2. \A k \in Keys : Cached(k)' => Cached(k) /\ cache'[k].uid = cache[k].uid
    <3>1. CASE cache' = cache
      BY <3>1 DEF Cached
    <3>2. ASSUME NEW x, cache' = [cache EXCEPT ![x] = NoInfo]
          PROVE  \A k \in Keys : Cached(k)' => Cached(k) /\ cache'[k].uid = cache[k].uid
      <4>1. \A k \in Keys : cache'[k] = cache[k] \/ cache'[k].status = "None"
        BY <3>2 DEF NoInfo, TypeOK
      <4> QED
        BY <4>1 DEF Cached
    <3> QED
      BY <2>1, <3>1, <3>2
  <2>3. \A k \in Keys : api'[k].uid = api[k].uid /\ (api'[k].live => api[k].live)
    BY <2>1
  <2>4. /\ \A info \in pending' : info \in pending
        /\ events # << >> /\ events' = Tail(events)
    BY <2>1
  <2> QED
    BY <1>2, <2>2, <2>3, <2>4
<1>8. ASSUME HandleSet
      PROVE  OneLife'
  <2>1. PICK e \in Event : e = Head(events) /\ e.uid = 1
    BY <1>0, <1>8, TailAt DEF HandleSet
  <2>2. /\ api' = api /\ pending' = pending /\ events # << >> /\ events' = Tail(events)
        /\ \E status \in Status :
             cache' = [cache EXCEPT ![e.key] = [status |-> status, uid |-> 1]]
    BY <1>8, <2>1 DEF HandleSet, SetResourceBinding, Status
  <2>3. \A i \in DOMAIN events' : events'[i].uid = 1
    BY <1>0, <2>2, TailAt
  <2>4. \A k \in Keys : Cached(k)' => cache'[k].uid = 1
    BY <2>2 DEF Cached, OneLife, TypeOK
  <2> QED
    BY <1>1, <2>2, <2>3, <2>4 DEF OneLife
<1>9. ASSUME OpenSession
      PROVE  OneLife'
  <2>1. /\ UNCHANGED <<api, cache, events>>
        /\ pending' = {<<k, cache[k].uid>> : k \in {x \in Keys : cache[x].status = "Suspended"}}
    BY <1>9 DEF OpenSession
  <2>2. \A info \in pending' : info[2] = 1
    BY <2>1 DEF OneLife, Cached
  <2> QED
    BY <1>1, <2>1, <2>2 DEF OneLife, Cached
<1>10. ASSUME NEW k \in Keys, Dispatch(k) \/ Ignore(k) \/ PatchRecover(k)
       PROVE  OneLife'
  <2>1. /\ UNCHANGED <<api, events>> /\ pending' \subseteq pending
        /\ \/ cache' = cache
           \/ Cached(k) /\ \E status \in Status : cache' = [cache EXCEPT ![k].status = status]
    BY <1>10 DEF Dispatch, UnSuspendResourceBinding, Ignore, PatchRecover, Status
  <2>2. \A x \in Keys : Cached(x)' => Cached(x) /\ cache'[x].uid = cache[x].uid
    BY <2>1 DEF Cached, TypeOK
  <2> QED
    BY <1>2, <2>1, <2>2
<1>11. ASSUME UNCHANGED <<api, events, cache, pending>>
       PROVE  OneLife'
  BY <1>2, <1>11 DEF Cached
<1>12. ASSUME \/ CloseSession \/ UNCHANGED vars
              \/ \E w \in Workers : Work(w)
              \/ \E k \in Keys : PatchRejected(k) \/ PatchDone(k)
       PROVE  OneLife'
  BY <1>11, <1>12 DEF CloseSession, Work, WorkerGet, WorkerBreak, WorkerGo, PatchRejected,
     PatchDone, vars
<1>13. ASSUME Restart
       PROVE  OneLife'
  <2> DEFINE live == {k \in Keys : api[k].live}
  <2>1. PICK order \in [1..Cardinality(live) -> live] :
          events' = [i \in DOMAIN order |-> Note("add", order[i])]
    BY <1>13 DEF Restart
  <2>2. api' = api /\ cache' = [k \in Keys |-> NoInfo] /\ pending' = {}
    BY <1>13 DEF Restart
  <2>3. ASSUME NEW i \in DOMAIN events'
        PROVE  events'[i].uid = 1
    <3>1. order[i] \in live /\ events'[i] = Note("add", order[i])
      BY <2>1, <2>3
    <3> QED
      BY <3>1 DEF Note, OneLife
  <2> QED
    BY <1>1, <2>2, <2>3 DEF OneLife, Cached, NoInfo
<1> QED
  BY <1>3, <1>4, <1>5, <1>6, <1>7, <1>8, <1>9, <1>10, <1>12, <1>13
     DEF Next, Environment, Handle, Round, Patching

LEMMA SeenNext ==
    ASSUME LedgerInv, [Next]_vars
    PROVE  SeenInv'
<1>0. /\ events \in Seq(Event) /\ DOMAIN events \subseteq Nat
      /\ \A i \in DOMAIN events : events[i] \in Event /\ events[i].key \in Keys
      /\ \A k \in Keys : api[k] \in Object /\ cache[k] \in [status : Status, uid : Nat]
      /\ TypeOK /\ SeenInv /\ CapacityInv /\ QuietInv
  BY EventKey DEF TypeOK, LedgerInv, CapacityInv
\* A step after which the objects are as suspended as before, or less.
<1>1. ASSUME \A k \in Keys : ~api[k].suspended => ~api'[k].suspended,
             \A k \in Keys : cache'[k].status = "UnSuspended"
                => cache[k].status = "UnSuspended" \/ ~api'[k].suspended,
             \/ events' = events
             \/ events # << >> /\ events' = Tail(events)
             \/ \E e \in Event : /\ events' = Append(events, e)
                                 /\ ~e.suspended => ~api'[e.key].suspended
      PROVE  SeenInv'
  <2>1. ASSUME NEW i \in DOMAIN events', ~events'[i].suspended
        PROVE  ~api'[events'[i].key].suspended
    <3>1. CASE events' = events
      BY <1>0, <1>1, <2>1, <3>1 DEF SeenInv
    <3>2. CASE events # << >> /\ events' = Tail(events)
      <4>1. i + 1 \in DOMAIN events /\ events'[i] = events[i + 1]
        BY <1>0, <3>2, TailAt
      <4> QED
        BY <1>0, <1>1, <2>1, <4>1 DEF SeenInv
    <3>3. ASSUME NEW e \in Event, events' = Append(events, e),
                 ~e.suspended => ~api'[e.key].suspended
          PROVE  ~api'[events'[i].key].suspended
      <4>1. \/ i \in DOMAIN events /\ events'[i] = events[i]
            \/ events'[i] = e
        BY <1>0, <3>3, AppendAt
      <4> QED
        BY <1>0, <1>1, <2>1, <3>3, <4>1 DEF SeenInv
    <3> QED
      BY <1>1, <3>1, <3>2, <3>3
  <2>2. \A k \in Keys : cache'[k].status = "UnSuspended" => ~api'[k].suspended
    BY <1>0, <1>1 DEF SeenInv
  <2> QED
    BY <2>1, <2>2 DEF SeenInv
<1>2. ~Restart /\ \A k \in Keys : ~Touch(k) /\ ~PatchLost(k)
  BY <1>0, NoFault DEF Restart, Touch, PatchLost
\* The name was never used: nothing was seen of it.
<1>3. ASSUME NEW k \in Keys, Create(k)
      PROVE  SeenInv'
  <2>1. api[k].uid = 0
    BY <1>0, <1>3 DEF Create, Spend, QuietInv
  <2>2. /\ ~Cached(k) /\ \A i \in DOMAIN events : events[i].key # k
    BY <1>0, <2>1 DEF CapacityInv, BirthInv, Started
  <2>3. /\ cache' = cache
        /\ api' = [api EXCEPT ![k] = [live |-> TRUE, uid |-> @.uid + 1, suspended |-> TRUE]]
    BY <1>3 DEF Create
  <2>4. PICK e \in Event : e.suspended /\ events' = Append(events, e)
    <3>1. [op |-> "add", key |-> k, uid |-> api[k].uid + 1, suspended |-> TRUE] \in Event
      BY <1>0 DEF Event, Object
    <3> QED
      BY <1>3, <3>1 DEF Create
  <2>5. \A x \in Keys \ {k} : api'[x] = api[x]
    BY <1>0, <2>3 DEF TypeOK
  <2>6. ASSUME NEW i \in DOMAIN events', ~events'[i].suspended
        PROVE  ~api'[events'[i].key].suspended
    <3>1. i \in DOMAIN events /\ events'[i] = events[i]
      BY <1>0, <2>4, <2>6, AppendAt
    <3> QED
      BY <1>0, <2>2, <2>5, <2>6, <3>1 DEF SeenInv
  <2>7. \A x \in Keys : cache'[x].status = "UnSuspended" => ~api'[x].suspended
    BY <1>0, <2>2, <2>3, <2>5 DEF SeenInv, Cached
  <2> QED
    BY <2>6, <2>7 DEF SeenInv
<1>4. ASSUME NEW k \in Keys, Delete(k)
      PROVE  SeenInv'
  <2>1. PICK e \in Event : events' = Append(events, e) /\ e.suspended = api[k].suspended /\ e.key = k
    BY <1>0, <1>4, NoteType DEF Delete, Note
  <2>2. cache' = cache /\ api' = [api EXCEPT ![k].live = FALSE]
    BY <1>4 DEF Delete
  <2>3. \A x \in Keys : api'[x].suspended = api[x].suspended
    BY <1>0, <2>2 DEF TypeOK, Object
  <2> QED
    BY <1>1, <2>1, <2>2, <2>3
<1>5. ASSUME HandleSet
      PROVE  SeenInv'
  <2>1. PICK e \in Event : /\ e = Head(events) /\ e.key \in Keys
                           /\ ~e.suspended => ~api[e.key].suspended
    BY <1>0, <1>5, HeadFacts DEF HandleSet, SeenInv
  <2>2. /\ api' = api /\ events # << >> /\ events' = Tail(events)
        /\ cache' = [cache EXCEPT ![e.key] =
             [status |-> IF e.suspended THEN "Suspended" ELSE "UnSuspended", uid |-> e.uid]]
    BY <1>5, <2>1 DEF HandleSet, SetResourceBinding
  <2>3. \A x \in Keys : cache'[x].status = "UnSuspended"
           => cache[x].status = "UnSuspended" \/ ~api'[x].suspended
    BY <1>0, <2>1, <2>2 DEF TypeOK
  <2> QED
    BY <1>1, <2>2, <2>3
<1>6. ASSUME HandleDropped \/ HandleDelete
      PROVE  SeenInv'
  <2>1. api' = api /\ events # << >> /\ events' = Tail(events)
    BY <1>6 DEF HandleDropped, HandleDelete
  <2>2. \A x \in Keys : cache'[x].status = "UnSuspended" => cache[x].status = "UnSuspended"
    <3>1. CASE HandleDropped
      BY <3>1 DEF HandleDropped
    <3>2. CASE HandleDelete
      <4>1. \A x \in Keys : cache'[x] = cache[x] \/ cache'[x] = NoInfo
        BY <1>0, <3>2 DEF HandleDelete, TypeOK
      <4> QED
        BY <4>1 DEF NoInfo
    <3> QED
      BY <1>6, <3>1, <3>2
  <2> QED
    BY <1>1, <2>1, <2>2
<1>7. ASSUME NEW k \in Keys, Dispatch(k) \/ Ignore(k) \/ PatchRecover(k)
      PROVE  SeenInv'
  <2>1. /\ api' = api /\ events' = events
        /\ \/ cache' = cache
           \/ \E status \in {"Suspended", "UnSuspending"} :
                cache' = [cache EXCEPT ![k].status = status]
    BY <1>7 DEF Dispatch, UnSuspendResourceBinding, Ignore, PatchRecover
  <2>2. \A x \in Keys : cache'[x].status = "UnSuspended" => cache[x].status = "UnSuspended"
    <3>1. CASE cache' = cache
      BY <3>1
    <3>2. ASSUME NEW status \in {"Suspended", "UnSuspending"},
                 cache' = [cache EXCEPT ![k].status = status]
          PROVE  \A x \in Keys : cache'[x].status = "UnSuspended" => cache[x].status = "UnSuspended"
      BY <1>0, <3>2 DEF TypeOK
    <3> QED
      BY <2>1, <3>1, <3>2
  <2> QED
    BY <1>1, <2>1, <2>2
<1>8. ASSUME NEW k \in Keys, PatchApplied(k)
      PROVE  SeenInv'
  <2>1. /\ api' = [api EXCEPT ![k].suspended = FALSE] /\ cache' = cache
        /\ events' = IF api[k].suspended
                     THEN Append(events, [Note("update", k) EXCEPT !.suspended = FALSE])
                     ELSE events
    BY <1>8 DEF PatchApplied, Apply
  <2>2. \A x \in Keys : api'[x].suspended => api[x].suspended /\ x # k
    <3>1. \A x \in Keys \ {k} : api'[x] = api[x]
      BY <1>0, <2>1 DEF TypeOK
    <3>2. ~api'[k].suspended
      BY <1>0, <2>1 DEF TypeOK, Object
    <3> QED
      BY <3>1, <3>2
  <2>3. PICK n \in Event : n = Note("update", k) /\ n.key = k
    BY <1>0, NoteType DEF Note
  <2>4. PICK e : e = [n EXCEPT !.suspended = FALSE]
    OBVIOUS
  <2>5. e \in Event /\ e.key = k
    BY <2>3, <2>4 DEF Event
  <2>6. events' = events \/ events' = Append(events, e)
    BY <2>1, <2>3, <2>4
  <2>7. ~api'[e.key].suspended
    BY <2>2, <2>5
  <2>8. /\ \A x \in Keys : ~api[x].suspended => ~api'[x].suspended
        /\ \A x \in Keys : cache'[x].status = "UnSuspended" => cache[x].status = "UnSuspended"
    BY <2>1, <2>2
  <2> QED
    BY <1>1, <2>5, <2>6, <2>7, <2>8
<1>9. ASSUME UNCHANGED <<api, events, cache>>
      PROVE  SeenInv'
  BY <1>1, <1>9
<1>10. ASSUME \/ OpenSession \/ CloseSession \/ UNCHANGED vars
              \/ \E w \in Workers : Work(w)
              \/ \E k \in Keys : PatchRejected(k) \/ PatchDone(k)
       PROVE  SeenInv'
  BY <1>9, <1>10 DEF OpenSession, CloseSession, vars, Work, WorkerGet, WorkerBreak, WorkerGo,
     PatchRejected, PatchDone
<1> QED
  BY <1>2, <1>3, <1>4, <1>5, <1>6, <1>7, <1>8, <1>10
     DEF Next, Environment, Handle, Round, Patching
-----------------------------------------------------------------------------
(* The ledger's view of one step. *)

\* Where each binding stands.
LEMMA EntryAt ==
    \A k \in Keys :
      /\ Entry[k] = "absent" <=> ~api[k].live
      /\ Entry[k] = "released" <=> api[k].live /\ ~api[k].suspended
      /\ Entry[k] = "granted" <=> Dispatched(k)
      /\ Entry[k] = "waiting" <=> api[k].live /\ api[k].suspended /\ ~Dispatched(k)
BY DEF Entry, Dispatched

\* Where it stands after the step.
LEMMA EntryNext ==
    \A k \in Keys :
      /\ ~api'[k].live => Entry'[k] = "absent"
      /\ api'[k].live /\ ~api'[k].suspended => Entry'[k] = "released"
      /\ Dispatched(k)' => Entry'[k] = "granted"
      /\ api'[k].live /\ api'[k].suspended /\ ~Dispatched(k)' => Entry'[k] = "waiting"
BY DEF Entry, Dispatched

LEMMA EntryKept ==
    ASSUME NEW k \in Keys, Same(k)
    PROVE  Entry'[k] = Entry[k]
BY DEF Same, Entry, Dispatched

LEMMA Stutters ==
    ASSUME \A k \in Keys : Same(k)
    PROVE  Entry' = Entry
<1>1. \A k \in Keys : Entry'[k] = Entry[k]
  BY EntryKept
<1>2. Entry = [k \in Keys |-> Entry[k]] /\ Entry' = [k \in Keys |-> Entry'[k]]
  BY DEF Entry
<1> QED
  BY <1>1, <1>2

LEMMA MovesOne ==
    ASSUME NEW k \in Keys, \A x \in Keys \ {k} : Same(x)
    PROVE  Entry' = [Entry EXCEPT ![k] = Entry'[k]]
<1>1. \A x \in Keys \ {k} : Entry'[x] = Entry[x]
  BY EntryKept
<1>2. Entry = [x \in Keys |-> Entry[x]] /\ Entry' = [x \in Keys |-> Entry'[x]]
  BY DEF Entry
<1> QED
  BY <1>1, <1>2
-----------------------------------------------------------------------------
(* The steps of the dispatcher that are steps of the ledger. *)

LEMMA CreateSubmits ==
    ASSUME LedgerInv, NEW k \in Keys, Create(k)
    PROVE  L!Submit(k)
<1>1. api[k].uid = 0
  BY DEF LedgerInv, CapacityInv, QuietInv, Create, Spend
<1>2. ~Cached(k)
  BY <1>1 DEF LedgerInv, CapacityInv, BirthInv, Started
<1>3. /\ ~api[k].live /\ UNCHANGED cache
      /\ api' = [api EXCEPT ![k] = [live |-> TRUE, uid |-> @.uid + 1, suspended |-> TRUE]]
  BY DEF Create
<1>4. /\ api'[k].live /\ api'[k].suspended
      /\ \A x \in Keys \ {k} : api'[x] = api[x]
  BY <1>3 DEF LedgerInv, TypeOK
<1>5. \A x \in Keys \ {k} : Same(x)
  BY <1>3, <1>4 DEF Same, Dispatched
<1>6. ~Dispatched(k)'
  BY <1>2, <1>3 DEF Dispatched, Cached
<1>7. Entry[k] = "absent" /\ Entry'[k] = "waiting"
  BY <1>3, <1>4, <1>6, EntryAt, EntryNext
<1> QED
  BY <1>5, <1>7, MovesOne DEF L!Submit, L!Move

LEMMA DeleteLeaves ==
    ASSUME LedgerInv, NEW k \in Keys, Delete(k)
    PROVE  L!Leave(k)
<1>1. api[k].live /\ api' = [api EXCEPT ![k].live = FALSE] /\ UNCHANGED cache
  BY DEF Delete
<1>2. /\ ~api'[k].live
      /\ \A x \in Keys \ {k} : api'[x] = api[x]
  BY <1>1 DEF LedgerInv, TypeOK, Object
<1>3. \A x \in Keys \ {k} : Same(x)
  BY <1>1, <1>2 DEF Same, Dispatched
<1>4. Entry[k] # "absent" /\ Entry'[k] = "absent"
  BY <1>1, <1>2, EntryAt, EntryNext
<1> QED
  BY <1>3, <1>4, MovesOne DEF L!Leave

\* A handler tells the ledger nothing: an add is of a binding that waits, an
\* update of one that was released, a delete of one that is gone.
LEMMA HandleStutters ==
    ASSUME LedgerInv, Handle
    PROVE  Entry' = Entry
<1> USE DEF LedgerInv, CapacityInv
<1>1. CASE HandleDropped
  BY <1>1, Stutters DEF HandleDropped, Same, Dispatched
<1>2. ASSUME HandleSet \/ HandleDelete
      PROVE  Entry' = Entry
  <2>1. PICK e \in Event : /\ e = Head(events) /\ e = events[1] /\ 1 \in DOMAIN events
                           /\ e.key \in Keys
    BY <1>2, HeadFacts DEF HandleSet, HandleDelete
  <2>2. /\ api' = api
        /\ \E info : cache' = [cache EXCEPT ![e.key] = info]
    BY <1>2, <2>1 DEF HandleSet, SetResourceBinding, HandleDelete
  <2>3. \A x \in Keys \ {e.key} : cache'[x] = cache[x]
    BY <2>2 DEF TypeOK
  <2>4. \A x \in Keys \ {e.key} : Same(x)
    BY <2>2, <2>3 DEF Same, Dispatched
  <2>5. CASE e.op = "delete"
    <3>1. ~api[e.key].live
      BY <2>1, <2>5 DEF EventInv, DeleteInv
    <3> QED
      BY <2>2, <2>4, <3>1, Stutters DEF Same
  <2>6. CASE e.op = "update"
    <3>1. ~api[e.key].suspended
      BY <2>1, <2>6 DEF EventInv, UpdateInv, SeenInv
    <3> QED
      BY <2>2, <2>4, <3>1, Stutters DEF Same
  <2>7. CASE e.op = "add"
    <3>1. e.suspended /\ ~Cached(e.key)
      BY <2>1, <2>7 DEF EventInv, AddInv, Started
    <3>2. HandleSet
      BY <1>2, <2>1, <2>7 DEF HandleDelete
    <3>3. cache' = [cache EXCEPT ![e.key] = [status |-> "Suspended", uid |-> e.uid]]
      BY <2>1, <3>1, <3>2 DEF HandleSet, SetResourceBinding
    <3>4. cache'[e.key].status = "Suspended"
      BY <2>1, <3>3 DEF TypeOK
    <3>5. ~Dispatched(e.key) /\ cache'[e.key].status # "UnSuspending"
      BY <3>1, <3>4 DEF Dispatched, Cached
    <3>6. api'[e.key].live = api[e.key].live /\ api'[e.key].suspended = api[e.key].suspended
      BY <2>2
    <3>7. \A x \in Keys : x = e.key => Same(x)
      BY <3>5, <3>6 DEF Same, Dispatched
    <3> QED
      BY <2>4, <3>7, Stutters
  <2> QED
    BY <2>1, <2>5, <2>6, <2>7 DEF Event
<1> QED
  BY <1>1, <1>2 DEF Handle

\* The room the ledger knows to be taken is charged.
LEMMA HoldersCharged ==
    ASSUME LedgerInv, NEW q \in Queues
    PROVE  L!Holders(q) \subseteq Charged(q)
<1> SUFFICES ASSUME NEW k \in Keys, QueueOf[k] = q, Entry[k] \in {"granted", "released"}
             PROVE  cache[k].status \in {"UnSuspending", "UnSuspended"}
  BY DEF L!Holders, Charged
<1>1. CASE Entry[k] = "granted"
  BY <1>1, EntryAt DEF Dispatched
<1>2. CASE Entry[k] = "released"
  BY <1>2, EntryAt DEF LedgerInv, CapacityInv, ReleasedInv, Holding
<1> QED
  BY <1>1, <1>2

\* What fits beside the session's allocated fits beside the ledger's holders.
LEMMA RoomInLedger ==
    ASSUME LedgerInv, round = "open", NEW k \in Keys, Fits(alloc[QueueOf[k]], k)
    PROVE  L!Fits(L!Load(L!Holders(QueueOf[k])), k)
<1> DEFINE q == QueueOf[k]
<1>1. q \in Queues /\ Req[k] \in Nat /\ Cap[q] \in Nat /\ alloc[q] \in Nat
  BY DemandAssumption DEF LedgerInv, TypeOK
<1> HIDE DEF q
<1>2. L!Holders(q) \in SUBSET Charged(q) /\ Charged(q) \in SUBSET Keys
  BY <1>1, HoldersCharged, ChargedKeys
<1> DEFINE held == L!Holders(q)
<1> HIDE DEF held
<1>3. held \in SUBSET Charged(q) /\ held \in SUBSET Keys
  BY <1>2 DEF held
<1>4. Load(held) <= Load(Charged(q)) /\ Load(held) \in Nat /\ Load(Charged(q)) \in Nat
  BY <1>2, <1>3, LoadMonotone, LoadType
<1>5. Load(Charged(q)) <= alloc[q]
  BY <1>1 DEF LedgerInv, CapacityInv, LoadInv
<1>6. Req[k] = 0 \/ Load(held) + Req[k] <= Cap[q]
  BY <1>1, <1>4, <1>5 DEF Fits, q
<1>7. L!Load(held) = Load(held)
  BY DEF L!Load, Load, L!Units, Units, L!Cardinality, Cardinality
<1>8. L!Fits(L!Load(held), k)
  BY <1>6, <1>7 DEF L!Fits, q
<1> QED
  BY <1>8 DEF held, q

\* Dispatch grants room to a binding that waits and is still there.
LEMMA DispatchGrants ==
    ASSUME LedgerInv, NEW k \in Keys, Dispatch(k)
    PROVE  L!Grant(k) \/ Entry' = Entry
<1> USE DEF LedgerInv, CapacityInv
<1>1. PICK info \in pending :
        /\ info[1] = k
        /\ Fits(alloc[QueueOf[k]], k)
        /\ UnSuspendResourceBinding(k)
        /\ api' = api
  BY DEF Dispatch
<1>2. k \notin Holding /\ round = "open"
  BY <1>1 DEF PendingInv, TypeOK
<1>3. CASE ~Cached(k)
  <2>1. cache' = cache
    BY <1>1, <1>3 DEF UnSuspendResourceBinding
  <2> QED
    BY <1>1, <2>1, Stutters DEF Same, Dispatched
<1>4. CASE Cached(k)
  <2>1. cache' = [cache EXCEPT ![k].status = "UnSuspending"]
    BY <1>1, <1>4 DEF UnSuspendResourceBinding
  <2>2. /\ \A x \in Keys \ {k} : cache'[x] = cache[x]
        /\ cache'[k].status = "UnSuspending" /\ cache'[k].uid = cache[k].uid
    BY <2>1 DEF TypeOK
  <2>3. \A x \in Keys \ {k} : Same(x)
    BY <1>1, <2>2 DEF Same, Dispatched
  <2>4. CASE ~api[k].live
    BY <1>1, <2>3, <2>4, Stutters DEF Same
  <2>5. CASE api[k].live
    <3>1. api[k].suspended /\ cache[k].uid = api[k].uid
      BY <1>2, <1>4, <2>5 DEF ReleasedInv, OneLife
    <3>2. ~Dispatched(k)
      BY <1>2 DEF Dispatched, Holding
    <3>3. Dispatched(k)'
      BY <1>1, <2>2, <2>5, <3>1 DEF Dispatched
    <3>4. Entry[k] = "waiting" /\ Entry'[k] = "granted"
      BY <2>5, <3>1, <3>2, <3>3, EntryAt, EntryNext
    <3>5. L!Move(k, "waiting", "granted")
      BY <2>3, <3>4, MovesOne DEF L!Move
    <3>6. L!Fits(L!Load(L!Holders(QueueOf[k])), k)
      BY <1>1, <1>2, RoomInLedger
    <3> QED
      BY <3>5, <3>6 DEF L!Grant
  <2> QED
    BY <2>4, <2>5
<1> QED
  BY <1>3, <1>4

\* A live binding whose patch is under way holds room in the ledger.
LEMMA PatchedIsGranted ==
    ASSUME LedgerInv, NEW k \in Keys, patch[k] \in {"sent", "failed"}, api[k].live
    PROVE  Dispatched(k)
<1>1. k \in Tasked
  BY DEF Tasked, Owed
<1>2. Cached(k) /\ api[k].suspended /\ k \in Holding
  BY <1>1 DEF LedgerInv, CapacityInv, TaskInv
<1>3. cache[k].status = "UnSuspending"
  BY <1>2 DEF LedgerInv, SeenInv, Holding
<1>4. api[k].uid = cache[k].uid
  BY <1>2 DEF LedgerInv, OneLife
<1> QED
  BY <1>2, <1>3, <1>4 DEF Dispatched

LEMMA AppliedReleases ==
    ASSUME LedgerInv, NEW k \in Keys, PatchApplied(k)
    PROVE  L!Release(k)
<1>1. /\ patch[k] = "sent" /\ api[k].live /\ UNCHANGED cache
      /\ api' = [api EXCEPT ![k].suspended = FALSE]
  BY DEF PatchApplied, Apply
<1>2. /\ api'[k].live /\ ~api'[k].suspended
      /\ \A x \in Keys \ {k} : api'[x] = api[x]
  BY <1>1 DEF LedgerInv, TypeOK, Object
<1>3. \A x \in Keys \ {k} : Same(x)
  BY <1>1, <1>2 DEF Same, Dispatched
<1>4. Entry[k] = "granted" /\ Entry'[k] = "released"
  BY <1>1, <1>2, PatchedIsGranted, EntryAt, EntryNext
<1> QED
  BY <1>3, <1>4, MovesOne DEF L!Release, L!Move

LEMMA RecoverRevokes ==
    ASSUME LedgerInv, NEW k \in Keys, PatchRecover(k)
    PROVE  L!Revoke(k) \/ Entry' = Entry
<1>1. /\ patch[k] = "failed" /\ UNCHANGED api
      /\ cache' = IF Cached(k) THEN [cache EXCEPT ![k].status = "Suspended"] ELSE cache
  BY DEF PatchRecover
<1>2. /\ \A x \in Keys \ {k} : cache'[x] = cache[x]
      /\ cache'[k].status # "UnSuspending"
  BY <1>1 DEF LedgerInv, TypeOK, Cached
<1>3. \A x \in Keys \ {k} : Same(x)
  BY <1>1, <1>2 DEF Same, Dispatched
<1>4. CASE ~api[k].live
  BY <1>1, <1>3, <1>4, Stutters DEF Same
<1>5. CASE api[k].live
  <2>1. Dispatched(k) /\ api[k].suspended
    BY <1>1, <1>5, PatchedIsGranted DEF Dispatched
  <2>2. ~Dispatched(k)'
    BY <1>2 DEF Dispatched
  <2>3. Entry[k] = "granted" /\ Entry'[k] = "waiting"
    BY <1>1, <1>5, <2>1, <2>2, EntryAt, EntryNext
  <2> QED
    BY <1>3, <2>3, MovesOne DEF L!Revoke, L!Move
<1> QED
  BY <1>4, <1>5

LEMMA LedgerStep ==
    ASSUME LedgerInv, [Next]_vars
    PROVE  [L!Next]_Entry
<1>1. ~Restart /\ \A k \in Keys : ~Touch(k) /\ ~PatchLost(k)
  BY NoFault DEF LedgerInv, CapacityInv, Restart, Touch, PatchLost
<1>2. ASSUME UNCHANGED <<api, cache>>
      PROVE  Entry' = Entry
  BY <1>2, Stutters DEF Same, Dispatched
<1>3. ASSUME \/ OpenSession \/ CloseSession \/ UNCHANGED vars
             \/ \E w \in Workers : Work(w)
             \/ \E k \in Keys : Ignore(k) \/ PatchRejected(k) \/ PatchDone(k)
      PROVE  Entry' = Entry
  BY <1>2, <1>3 DEF OpenSession, CloseSession, vars, Work, WorkerGet, WorkerBreak, WorkerGo,
     Ignore, PatchRejected, PatchDone
<1>4. ASSUME NEW k \in Keys, \/ L!Submit(k) \/ L!Grant(k) \/ L!Release(k) \/ L!Revoke(k)
                             \/ L!Leave(k)
      PROVE  L!Next
  BY <1>4 DEF L!Next
<1>5. ASSUME NEW k \in Keys, \/ Create(k) \/ Delete(k) \/ Dispatch(k) \/ PatchApplied(k)
                             \/ PatchRecover(k)
      PROVE  L!Next \/ Entry' = Entry
  BY <1>4, <1>5, CreateSubmits, DeleteLeaves, DispatchGrants, AppliedReleases, RecoverRevokes
<1> QED
  BY <1>1, <1>3, <1>5, HandleStutters DEF Next, Environment, Round, Patching

\* While the dispatcher is the only client that changes the bindings it
\* suspends, names are not reused, no answer is lost and the process does not
\* restart, it does what the ledger does, in every instance: each Dispatch is
\* a grant that fits beside all grants made so far, each applied patch releases
\* what was granted, each failed one gives the room back, and what rounds,
\* handlers and workers do in between does not show.
THEOREM DispatcherKeepsLedger == ASSUME Clean PROVE Spec => ImplementsLedger
<1>1. Init => LedgerInv
  <2>1. NoReuse
    BY DEF Clean, NoReuse
  <2>2. Init => SeenInv
    BY DEF Init, SeenInv, NoInfo
  <2> QED
    BY <2>1, <2>2, InitType, FlightInit, CapacityInit, OneLifeInit DEF LedgerInv
<1>2. LedgerInv /\ [Next]_vars => LedgerInv'
  BY NextType, FlightNext, CapacityNext, OneLifeNext, SeenNext DEF LedgerInv
<1>3. Init => L!Init
  BY DEF Init, L!Init, Entry
<1>4. LedgerInv /\ [Next]_vars => [L!Next]_Entry
  BY LedgerStep
<1> QED
  BY <1>1, <1>2, <1>3, <1>4, PTL DEF Spec, ImplementsLedger, L!Spec
-----------------------------------------------------------------------------
(* What the ledger promises. *)

Fitting == \A q \in Queues : L!Load(L!Holders(q)) <= Cap[q]

LEMMA LedgerLoads == \A S \in SUBSET Keys : L!Load(S) = Load(S) /\ L!Load(S) \in Nat
<1>1. \A S \in SUBSET Keys : L!Load(S) = Load(S)
  BY DEF L!Load, Load, L!Units, Units, L!Cardinality, Cardinality
<1> QED
  BY <1>1, LoadType

\* Moves that give nobody room.
LEMMA HoldersShrink ==
    ASSUME Fitting, \A q \in Queues : L!Holders(q)' \subseteq L!Holders(q)
    PROVE  Fitting'
<1>1. ASSUME NEW q \in Queues, NEW S \in SUBSET Keys, NEW T \in SUBSET S, L!Load(S) <= Cap[q]
      PROVE  L!Load(T) <= Cap[q]
  <2>1. Load(T) <= Load(S) /\ Load(T) \in Nat /\ Load(S) \in Nat /\ Cap[q] \in Nat
    BY <1>1, LoadMonotone, LoadType, DemandAssumption
  <2> QED
    BY <1>1, <2>1, LedgerLoads
<1>2. ASSUME NEW q \in Queues
      PROVE  L!Load(L!Holders(q)') <= Cap[q]
  <2>1. L!Holders(q) \in SUBSET Keys /\ L!Holders(q)' \in SUBSET L!Holders(q)
    BY DEF L!Holders
  <2> QED
    BY <1>1, <2>1 DEF Fitting
<1>3. \A q \in Queues : (L!Load(L!Holders(q)))' = L!Load(L!Holders(q)')
  BY DEF L!Load, L!Units, L!Cardinality
<1> QED
  BY <1>2, <1>3 DEF Fitting

LEMMA GrantFits ==
    ASSUME Fitting, NEW k \in Keys, L!Grant(k)
    PROVE  Fitting'
<1> DEFINE q == QueueOf[k]
           held == L!Holders(q)
<1>1. q \in Queues /\ Req[k] \in Nat /\ Cap \in [Queues -> Nat]
  BY DemandAssumption
<1>2. /\ Entry[k] = "waiting" /\ Entry' = [Entry EXCEPT ![k] = "granted"]
      /\ L!Fits(L!Load(held), k)
  BY DEF L!Grant, L!Move
<1>3. Entry'[k] = "granted" /\ \A x \in Keys \ {k} : Entry'[x] = Entry[x]
  BY <1>2 DEF Entry
<1>4. held \in SUBSET Keys /\ k \notin held
  BY <1>2 DEF L!Holders
<1>5. L!Holders(q)' = held \cup {k}
  BY <1>3 DEF L!Holders
<1>6. ASSUME NEW p \in Queues, p # q
      PROVE  L!Holders(p)' = L!Holders(p)
  BY <1>3, <1>6 DEF L!Holders
<1> HIDE DEF held
<1>7. /\ L!Load(held \cup {k}) = L!Load(held) + Req[k]
      /\ L!Load(held) \in Nat /\ L!Load(held) <= Cap[q]
  <2>1. Load(held \cup {k}) = Load(held) + Req[k]
    BY <1>4, LoadAdd
  <2>2. held \cup {k} \in SUBSET Keys
    BY <1>4
  <2>3. L!Load(held) <= Cap[q]
    BY <1>1 DEF Fitting, held
  <2> QED
    BY <1>4, <2>1, <2>2, <2>3, LedgerLoads
<1>8. L!Load(held) + Req[k] <= Cap[q]
  BY <1>1, <1>2, <1>7 DEF L!Fits
<1>9. ASSUME NEW p \in Queues
      PROVE  L!Load(L!Holders(p)') <= Cap[p]
  <2>1. CASE p = q
    BY <1>5, <1>7, <1>8, <2>1
  <2>2. CASE p # q
    BY <1>6, <2>2 DEF Fitting
  <2> QED
    BY <2>1, <2>2
<1>10. \A p \in Queues : (L!Load(L!Holders(p)))' = L!Load(L!Holders(p)')
  BY DEF L!Load, L!Units, L!Cardinality
<1> QED
  BY <1>9, <1>10 DEF Fitting

LEMMA MoveFits ==
    ASSUME Fitting, NEW k \in Keys,
           L!Submit(k) \/ L!Release(k) \/ L!Revoke(k) \/ L!Leave(k)
    PROVE  Fitting'
<1>1. ASSUME NEW to \in {"absent", "waiting"}, Entry' = [Entry EXCEPT ![k] = to]
      PROVE  Fitting'
  <2>1. Entry'[k] = to /\ \A x \in Keys \ {k} : Entry'[x] = Entry[x]
    BY <1>1 DEF Entry
  <2>2. \A q \in Queues : L!Holders(q)' \subseteq L!Holders(q)
    BY <1>1, <2>1 DEF L!Holders
  <2> QED
    BY <2>2, HoldersShrink
<1>2. ASSUME Entry[k] = "granted", Entry' = [Entry EXCEPT ![k] = "released"]
      PROVE  Fitting'
  <2>1. Entry'[k] = "released" /\ \A x \in Keys \ {k} : Entry'[x] = Entry[x]
    BY <1>2 DEF Entry
  <2>2. \A q \in Queues : L!Holders(q)' \subseteq L!Holders(q)
    BY <1>2, <2>1 DEF L!Holders
  <2> QED
    BY <2>2, HoldersShrink
<1> QED
  BY <1>1, <1>2 DEF L!Submit, L!Release, L!Revoke, L!Leave, L!Move

\* Whatever implements the ledger keeps the bindings that were granted room,
\* the released ones among them, within their queue's capability.  With
\* DispatcherKeepsLedger it says more of the dispatcher than NeverOvercommitted:
\* a binding counts from its Dispatch on, not only from its release.
THEOREM LedgerFits == L!Spec => []Fitting
<1>1. L!Init => Fitting
  <2>1. ASSUME L!Init, NEW q \in Queues
        PROVE  L!Load(L!Holders(q)) <= Cap[q]
    <3>1. L!Holders(q) = {}
      BY <2>1 DEF L!Init, L!Holders
    <3>2. Units({}) = {} /\ {} \in SUBSET Keys
      BY DEF Units
    <3>3. Load({}) = 0
      BY <3>2, FS_EmptySet DEF Load
    <3> QED
      BY <3>1, <3>2, <3>3, LedgerLoads, DemandAssumption
  <2> QED
    BY <2>1 DEF Fitting
<1>2. Fitting /\ [L!Next]_Entry => Fitting'
  <2> SUFFICES ASSUME Fitting, [L!Next]_Entry
               PROVE  Fitting'
    OBVIOUS
  <2>1. CASE Entry' = Entry
    <3>1. \A q \in Queues : L!Holders(q)' \subseteq L!Holders(q)
      BY <2>1 DEF L!Holders
    <3> QED
      BY <3>1, HoldersShrink
  <2>2. CASE L!Next
    BY <2>2, GrantFits, MoveFits DEF L!Next
  <2> QED
    BY <2>1, <2>2
<1> QED
  BY <1>1, <1>2, PTL DEF L!Spec
=============================================================================
