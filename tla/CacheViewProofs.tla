-------------------------- MODULE CacheViewProofs --------------------------
(***************************************************************************)
(* That the cache is a view of the API server, for any names, objects and  *)
(* workloads and however many changes, lost watches, errors and restarts   *)
(* there are.  The argument is that of module InformerProofs, kind by      *)
(* kind: there is a history v of what the handlers have been told (v[0])   *)
(* and are yet to be told, and the cache is what it should be for v[0].    *)
(***************************************************************************)
EXTENDS CacheView, InformerProofs

StreamTyped(kind) == StreamOK(streams[kind], Names[kind], Maybe(Objects[kind]))

View(kind, v) == Replay(streams[kind], v, Names[kind], Maybe(Objects[kind]))

Typed ==
    /\ TypeOK
    /\ streams = [kind \in StreamKinds |-> streams[kind]]
    /\ \A kind \in StreamKinds : StreamTyped(kind)
    /\ phase = "starting" => attempts < Attempts

QueueInv == \E v : View("queues", v) /\ v[0] = dc.queues

\* Each class is the default in the cache if it says so.
DefaultIs ==
    \A c \in Live(dc.classes) :
        dc.classes[c].default <=> dc.default # NoObject /\ dc.default.name = c

\* While no watch was lost no handler is told of two defaults at a time.
ClassTold(v) ==
    /\ v[0] = dc.classes
    /\ streams["classes"].intact => DefaultIs /\ \A i \in DOMAIN v : OneDefault(v[i])

ClassInv ==
    /\ OneDefault(Api("classes"))
    /\ NoStaleDefault
    /\ \E v : View("classes", v) /\ ClassTold(v)

ClusterTold(objects) ==
    \A m \in Clusters :
        /\ dc.clusters[m] \in {NoObject, objects[m]}
        /\ objects[m] # NoObject /\ CheckClusterReady(objects[m]) => dc.clusters[m] # NoObject

ClusterInv == \E v : View("clusters", v) /\ ClusterTold(v[0])

\* A binding of k that exists, did or will be told of is one that the webhook
\* let in, and Karmada deletes it only after its workload.
Genuine(k, rb) ==
    rb # NoObject => /\ Admitted(rb, workloads[k])
                     /\ workloads[k] # NoObject => Api("bindings")[k] # NoObject

\* The info of k when the handler was told of the binding told last.
InfoFits(k, told) ==
    /\ told = NoObject => dc.infos[k] = NoObject
    /\ told # NoObject /\ Reads(told) /\ k \notin unread =>
         /\ dc.infos[k] # NoObject
         /\ dc.infos[k].status = "UnSuspended" => ~told.suspended
         /\ dc.infos[k].status = "Suspended" => told.suspended \/ k \in recovered
         /\ workloads[k] # NoObject /\ told.ref = workloads[k].version =>
              /\ dc.infos[k].queue = NewWorkload(workloads[k].spec).queue
              /\ dc.infos[k].class = workloads[k].spec.class
    /\ dc.infos[k] # NoObject /\ workloads[k] # NoObject =>
         TryGetNewWorkloadFunc(workloads[k].spec.kind) = "workload"

BindingTold(v) ==
    \A k \in Bindings : /\ InfoFits(k, v[0][k])
                        /\ \A i \in DOMAIN v : Genuine(k, v[i][k])

BindingInv ==
    /\ \A k \in Bindings : Genuine(k, Api("bindings")[k])
    /\ \E v : View("bindings", v) /\ BindingTold(v)

\* What is UnSuspending and not released yet has its task or its patch, for
\* all that is said here a task that no worker will be given.
Owed(k) == k \in tasks \/ patch[k] \in {"sent", "failed"}

TaskInv ==
    \A k \in Bindings :
        /\ dc.infos[k] # NoObject /\ dc.infos[k].status = "UnSuspending"
        /\ Api("bindings")[k] # NoObject /\ Api("bindings")[k].suspended
        => Owed(k)

IInv == Typed /\ QueueInv /\ ClassInv /\ ClusterInv /\ BindingInv /\ TaskInv

\* The binding was deleted after its workload, and no other takes its name.
Gone(k) == workloads[k] = NoObject /\ Api("bindings")[k] = NoObject

Unheard == streams["bindings"].events

\* Only what is gone for good is told to be.
FarewellInv == \A i \in 1..Len(Unheard) : Unheard[i].new = NoObject => Gone(Unheard[i].name)

\* Only for what is gone for good a worker finds no info.
BreakInv ==
    /\ \A k \in Bindings : patch[k] = "broken" => Gone(k)
    /\ \A k \in tasks : dc.infos[k] = NoObject => Gone(k)
-----------------------------------------------------------------------------
(* What the steps do to the streams. *)

MovesOf(kind) == Moves(streams[kind], streams'[kind], Names[kind], Maybe(Objects[kind]))

LEMMA KindsOf ==
    /\ "queues" \in StreamKinds /\ Names["queues"] = Queues /\ Objects["queues"] = Specs.queues
    /\ "classes" \in StreamKinds /\ Names["classes"] = Classes /\ Objects["classes"] = Specs.classes
    /\ "clusters" \in StreamKinds /\ Names["clusters"] = Clusters
    /\ Objects["clusters"] = Specs.clusters
    /\ "bindings" \in StreamKinds /\ Names["bindings"] = Bindings /\ Objects["bindings"] = Binding
    /\ \A kind \in StreamKinds : IsFiniteSet(Names[kind]) /\ NoObject \in Maybe(Objects[kind])
    /\ \A kind \in StreamKinds \ {"bindings"} : Objects[kind] = Specs[kind]
BY CacheViewAssumption DEF StreamKinds, Names, Objects, Maybe

\* A process that starts has been told of nothing.
LEMMA FreshViews ==
    ASSUME NEW api, \A kind \in StreamKinds : api[kind] \in [Names[kind] -> Maybe(Objects[kind])],
           NEW s, s = Fresh(api)
    PROVE  /\ s = [kind \in StreamKinds |-> s[kind]]
           /\ \A kind \in StreamKinds :
                /\ StreamOK(s[kind], Names[kind], Maybe(Objects[kind]))
                /\ s[kind].api = api[kind]
                /\ Replay(s[kind], [i \in {0} |-> [x \in Names[kind] |-> NoObject]],
                          Names[kind], Maybe(Objects[kind]))
<1>1. s = [kind \in StreamKinds |-> Stream(api[kind])]
  BY DEF Fresh
<1>2. ASSUME NEW kind \in StreamKinds
      PROVE  /\ StreamOK(s[kind], Names[kind], Maybe(Objects[kind]))
             /\ s[kind].api = api[kind]
             /\ Replay(s[kind], [i \in {0} |-> [x \in Names[kind] |-> NoObject]],
                       Names[kind], Maybe(Objects[kind]))
  <2>1. s[kind] = Stream(api[kind]) /\ api[kind] \in [Names[kind] -> Maybe(Objects[kind])]
    BY <1>1
  <2>2. NoObject \in Maybe(Objects[kind])
    BY DEF Maybe
  <2>3. Stream(api[kind]).api = api[kind]
    BY DEF Stream
  <2> DEFINE N == Names[kind]
             O == Maybe(Objects[kind])
             v == [i \in {0} |-> [x \in N |-> NoObject]]
  <2>4. StreamOK(Stream(api[kind]), N, O) /\ Replay(Stream(api[kind]), v, N, O)
    <3> HIDE DEF N, O
    <3> QED
      BY <2>1, <2>2, FreshStream DEF N, O
  <2> HIDE DEF v, N, O
  <2>5. /\ StreamOK(s[kind], N, O) /\ Replay(s[kind], v, N, O)
        /\ s[kind].api = api[kind]
    BY <2>1, <2>3, <2>4
  <2> QED
    BY Zenon, <2>5 DEF v, N, O
<1> QED
  BY <1>1, <1>2

LEMMA SameMoves ==
    ASSUME NEW kind, streams'[kind] = streams[kind]
    PROVE  MovesOf(kind)
BY DEF MovesOf, Moves

\* One stream becomes t, the others stay.
LEMMA OneMoves ==
    ASSUME Typed, NEW kind \in StreamKinds, NEW t, streams' = [streams EXCEPT ![kind] = t]
    PROVE  /\ streams' = [k \in StreamKinds |-> streams'[k]]
           /\ streams'[kind] = t
           /\ \A k \in StreamKinds \ {kind} : streams'[k] = streams[k] /\ MovesOf(k)
<1>1. /\ streams' = [k \in StreamKinds |-> streams'[k]]
      /\ streams'[kind] = t
      /\ \A k \in StreamKinds \ {kind} : streams'[k] = streams[k]
  BY DEF Typed
<1> QED
  BY <1>1, SameMoves

LEMMA WriteMoves ==
    ASSUME Typed, NEW kind \in StreamKinds, NEW x \in Names[kind],
           NEW obj \in Maybe(Objects[kind]), obj # NoObject \/ Api(kind)[x] # NoObject,
           WriteTo(kind, x, obj)
    PROVE  /\ streams' = [k \in StreamKinds |-> streams'[k]]
           /\ \A k \in StreamKinds : MovesOf(k)
           /\ \A k \in StreamKinds \ {kind} : streams'[k] = streams[k]
           /\ Api(kind)' = [Api(kind) EXCEPT ![x] = obj]
<1>1. /\ streams' = [k \in StreamKinds |-> streams'[k]]
      /\ streams'[kind] = Write(streams[kind], x, obj)
      /\ \A k \in StreamKinds \ {kind} : streams'[k] = streams[k] /\ MovesOf(k)
  BY OneMoves DEF WriteTo
<1>2. MovesOf(kind)
  BY <1>1 DEF MovesOf, Moves, Api
<1>3. Write(streams[kind], x, obj).api = [streams[kind].api EXCEPT ![x] = obj]
  BY DEF Write, Typed, StreamTyped, StreamOK
<1> QED
  BY <1>1, <1>2, <1>3 DEF Api

LEMMA CreateMoves ==
    ASSUME Typed, ApplyCreate
    PROVE  /\ streams' = [k \in StreamKinds |-> streams'[k]]
           /\ \A k \in StreamKinds : MovesOf(k)
           /\ \A k \in StreamKinds \ {"queues"} : streams'[k] = streams[k]
           /\ Api("queues")'[DefaultQueue] # NoObject
<1>1. CASE Api("queues")[DefaultQueue] = NoObject
  <2>1. WriteTo("queues", DefaultQueue, 0)
    BY <1>1 DEF ApplyCreate
  <2>2. /\ DefaultQueue \in Names["queues"] /\ 0 \in Maybe(Objects["queues"]) /\ 0 # NoObject
        /\ "queues" \in StreamKinds
    BY KindsOf, CacheViewAssumption DEF Maybe
  <2>3. /\ streams' = [k \in StreamKinds |-> streams'[k]]
        /\ \A k \in StreamKinds : MovesOf(k)
        /\ \A k \in StreamKinds \ {"queues"} : streams'[k] = streams[k]
        /\ Api("queues")' = [Api("queues") EXCEPT ![DefaultQueue] = 0]
    BY <2>1, <2>2, WriteMoves
  <2>4. Api("queues") \in [Queues -> Maybe(Objects["queues"])]
    BY KindsOf DEF Typed, TypeOK
  <2> QED
    BY <2>2, <2>3, <2>4, KindsOf
<1>2. CASE Api("queues")[DefaultQueue] # NoObject
  <2>1. UNCHANGED streams
    BY <1>2 DEF ApplyCreate
  <2> QED
    BY <1>2, <2>1, SameMoves DEF Typed, Api
<1> QED
  BY <1>1, <1>2

\* A view lives through whatever is not a notification handled.
LEMMA KeepView ==
    ASSUME Typed, NEW kind \in StreamKinds, MovesOf(kind), NEW v, View(kind, v)
    PROVE  /\ StreamTyped(kind)'
           /\ \E w : /\ View(kind, w)'
                    /\ Carried(streams[kind], streams'[kind], v, w, Names[kind])
<1> DEFINE N == Names[kind]
           O == Maybe(Objects[kind])
           s == streams[kind]
           t == streams'[kind]
<1>1. /\ IsFiniteSet(N) /\ NoObject \in O
      /\ StreamOK(s, N, O) /\ Replay(s, v, N, O) /\ Moves(s, t, N, O)
  BY KindsOf DEF Typed, StreamTyped, View, MovesOf
<1> HIDE DEF N, O, s, t
<1>2. StreamOK(t, N, O) /\ \E w : Replay(t, w, N, O) /\ Carried(s, t, v, w, N)
  BY <1>1, MovesStream
<1> QED
  BY <1>2 DEF N, O, s, t, StreamTyped, View

Notes(kind) == [name : Names[kind], old : Maybe(Objects[kind]),
                new : Maybe(Objects[kind]), tombstone : BOOLEAN]

LEMMA TakeMoves ==
    ASSUME Typed, NEW kind \in StreamKinds, Take(kind)
    PROVE  /\ streams' = [k \in StreamKinds |-> streams'[k]]
           /\ streams'[kind] = [streams[kind] EXCEPT !.events = Tail(@)]
           /\ \A k \in StreamKinds \ {kind} : streams'[k] = streams[k] /\ MovesOf(k)
<1> DEFINE t == [streams[kind] EXCEPT !.events = Tail(@)]
<1>1. streams' = [streams EXCEPT ![kind] = t]
  BY DEF Take
<1> HIDE DEF t
<1>2. /\ streams' = [k \in StreamKinds |-> streams'[k]]
      /\ streams'[kind] = t
      /\ \A k \in StreamKinds \ {kind} : streams'[k] = streams[k] /\ MovesOf(k)
  BY <1>1, OneMoves
<1> QED
  BY <1>2 DEF t

LEMMA TakeView ==
    ASSUME Typed, NEW kind \in StreamKinds, Take(kind), NEW v, View(kind, v)
    PROVE  /\ streams' = [k \in StreamKinds |-> streams'[k]]
           /\ \A k \in StreamKinds \ {kind} : streams'[k] = streams[k] /\ MovesOf(k)
           /\ StreamTyped(kind)'
           /\ Api(kind)' = Api(kind) /\ streams'[kind].intact = streams[kind].intact
           /\ FirstOf(kind) \in Notes(kind)
           /\ \E w : View(kind, w)' /\ Passed(FirstOf(kind), v, w)
<1> DEFINE N == Names[kind]
           O == Maybe(Objects[kind])
           s == streams[kind]
           t == [s EXCEPT !.events = Tail(@)]
<1>1. /\ StreamOK(s, N, O) /\ Replay(s, v, N, O) /\ s.events # << >>
  BY DEF Typed, StreamTyped, View, Take
<1>2. /\ streams' = [k \in StreamKinds |-> streams'[k]]
      /\ streams'[kind] = t
      /\ \A k \in StreamKinds \ {kind} : streams'[k] = streams[k] /\ MovesOf(k)
  BY TakeMoves
<1>3. t.api = s.api /\ t.intact = s.intact
  BY <1>1 DEF StreamOK
<1>4. /\ Head(s.events) \in [name : N, old : O, new : O, tombstone : BOOLEAN]
      /\ StreamOK(t, N, O)
      /\ \E w : Replay(t, w, N, O) /\ Passed(Head(s.events), v, w)
  <2> HIDE DEF s, N, O
  <2> QED
    BY <1>1, TakeStream
<1> HIDE DEF t
<1> QED
  BY <1>2, <1>3, <1>4 DEF StreamTyped, View, FirstOf, Notes, Api

LEMMA ListMoves ==
    ASSUME Typed, NEW kind \in StreamKinds, List(kind)
    PROVE  /\ streams' = [k \in StreamKinds |-> streams'[k]]
           /\ \A k \in StreamKinds : MovesOf(k) /\ Api(k)' = Api(k)
<1>1. PICK s \in Lists(streams[kind]) : streams' = [streams EXCEPT ![kind] = s]
  BY DEF List
<1>2. /\ streams' = [k \in StreamKinds |-> streams'[k]]
      /\ streams'[kind] = s
      /\ \A k \in StreamKinds \ {kind} : streams'[k] = streams[k] /\ MovesOf(k)
  BY <1>1, OneMoves
<1>3. MovesOf(kind)
  BY <1>1, <1>2 DEF MovesOf, Moves, List
<1>4. s.api = streams[kind].api
  <2>1. PICK f \in Orders(Live(streams[kind].api)),
             g \in Orders(Live(streams[kind].known) \ Live(streams[kind].api)) :
          s = Listed(streams[kind], f, g)
    BY <1>1 DEF Lists
  <2> QED
    BY <2>1 DEF Listed, Typed, StreamTyped, StreamOK
<1> QED
  BY <1>2, <1>3, <1>4 DEF Api

LEMMA LoseMoves ==
    ASSUME Typed, NEW kind \in StreamKinds, LoseWatch(kind)
    PROVE  /\ streams' = [k \in StreamKinds |-> streams'[k]]
           /\ \A k \in StreamKinds : MovesOf(k) /\ Api(k)' = Api(k)
<1>1. /\ streams' = [k \in StreamKinds |-> streams'[k]]
      /\ streams'[kind] = Lose(streams[kind])
      /\ \A k \in StreamKinds \ {kind} : streams'[k] = streams[k] /\ MovesOf(k)
  BY OneMoves DEF LoseWatch
<1>2. MovesOf(kind)
  BY <1>1 DEF MovesOf, Moves, LoseWatch
<1>3. Lose(streams[kind]).api = streams[kind].api
  BY DEF Lose, Typed, StreamTyped, StreamOK
<1> QED
  BY <1>1, <1>2, <1>3 DEF Api
-----------------------------------------------------------------------------
(* What the handlers make of a notification that says truly what was before. *)

LEMMA QueueHandler ==
    ASSUME NEW d \in Cache, NEW n \in Notes("queues"), NEW after, Tells(n, d.queues, after)
    PROVE  /\ Handled(n, AddQueue(d, n), UpdateQueue(d, n), DeleteQueue(d, n))
              = [d EXCEPT !.queues = after]
           /\ after \in [Queues -> Maybe(Specs.queues)]
<1>1. /\ n.name \in Queues /\ n.new \in Maybe(Specs.queues)
      /\ d.queues \in [Queues -> Maybe(Specs.queues)]
      /\ after = [d.queues EXCEPT ![n.name] = n.new] /\ n.old = d.queues[n.name]
      /\ n.old # NoObject \/ n.new # NoObject
  BY KindsOf DEF Notes, Cache, Tells
<1>2. after \in [Queues -> Maybe(Specs.queues)]
  BY <1>1
<1>3. [d EXCEPT !.queues[n.name] = n.new] = [d EXCEPT !.queues = after]
  BY <1>1
<1>4. CASE n.old = NoObject
  BY <1>2, <1>3, <1>4 DEF Handled, AddQueue, SetQueue
<1>5. CASE n.old # NoObject /\ n.new = NoObject
  BY <1>2, <1>3, <1>5 DEF Handled, DeleteQueue, Final
<1>6. CASE n.old # NoObject /\ n.new # NoObject
  <2>1. CASE Unchanged(n)
    <3>1. after = d.queues
      BY <1>1, <2>1 DEF Unchanged
    <3>2. [d EXCEPT !.queues = after] = d
      BY <3>1 DEF Cache
    <3> QED
      BY <1>2, <1>6, <2>1, <3>2 DEF Handled, UpdateQueue
  <2>2. CASE ~Unchanged(n)
    BY <1>2, <1>3, <1>6, <2>2 DEF Handled, UpdateQueue, SetQueue
  <2> QED
    BY <2>1, <2>2
<1> QED
  BY <1>4, <1>5, <1>6

\* The default that a handler leaves.
Elected(d, n) ==
    IF Unchanged(n) THEN d.default
    ELSE IF n.new # NoObject /\ n.new.default THEN [name |-> n.name, class |-> n.new]
    ELSE IF n.old # NoObject /\ n.old.default THEN NoObject ELSE d.default

LEMMA ClassHandler ==
    ASSUME NEW d \in Cache, NEW n \in Notes("classes"), NEW after, Tells(n, d.classes, after)
    PROVE  /\ Handled(n, AddPriorityClass(d, n), UpdatePriorityClass(d, n),
                      DeletePriorityClass(d, n))
              = [d EXCEPT !.classes = after, !.default = Elected(d, n)]
           /\ after \in [Classes -> Maybe(Specs.classes)]
           /\ Elected(d, n) \in Maybe(Default)
<1>1. /\ n.name \in Classes /\ n.new \in Maybe(Specs.classes)
      /\ d.classes \in [Classes -> Maybe(Specs.classes)] /\ d.default \in Maybe(Default)
      /\ after = [d.classes EXCEPT ![n.name] = n.new] /\ n.old = d.classes[n.name]
      /\ n.old # NoObject \/ n.new # NoObject
  BY KindsOf DEF Notes, Cache, Tells
<1>2. after \in [Classes -> Maybe(Specs.classes)] /\ Elected(d, n) \in Maybe(Default)
  BY <1>1 DEF Elected, Maybe, Default
<1>3. /\ [d EXCEPT !.classes[n.name] = n.new] = [d EXCEPT !.classes = after]
      /\ \A e : [d EXCEPT !.classes[n.name] = n.new, !.default = e]
                = [d EXCEPT !.classes = after, !.default = e]
  BY <1>1
<1>4. CASE n.old = NoObject
  <2>1. Elected(d, n) = IF n.new.default THEN [name |-> n.name, class |-> n.new] ELSE d.default
    BY <1>1, <1>4 DEF Elected, Unchanged
  <2> QED
    BY <1>2, <1>3, <1>4, <2>1 DEF Handled, AddPriorityClass, SetPriorityClass, Cache
<1>5. CASE n.old # NoObject /\ n.new = NoObject
  <2>1. Elected(d, n) = IF n.old.default THEN NoObject ELSE d.default
    BY <1>1, <1>5 DEF Elected, Unchanged
  <2>2. DeletePriorityClass(d, n)
        = [d EXCEPT !.classes[n.name] = n.new, !.default = Elected(d, n)]
    BY <1>5, <2>1 DEF DeletePriorityClass, ClearDefault, Final, Cache
  <2> QED
    BY <1>2, <1>3, <1>5, <2>2 DEF Handled
<1>6. CASE n.old # NoObject /\ n.new # NoObject
  <2>1. CASE Unchanged(n)
    <3>1. after = d.classes
      BY <1>1, <2>1 DEF Unchanged
    <3>2. [d EXCEPT !.classes = after, !.default = Elected(d, n)] = d
      BY <2>1, <3>1 DEF Cache, Elected
    <3> QED
      BY <1>2, <1>6, <2>1, <3>2 DEF Handled, UpdatePriorityClass
  <2>2. CASE ~Unchanged(n)
    <3>1. Elected(d, n) = IF n.new.default THEN [name |-> n.name, class |-> n.new]
                          ELSE IF n.old.default THEN NoObject ELSE d.default
      BY <1>6, <2>2 DEF Elected
    <3>2. UpdatePriorityClass(d, n)
          = [d EXCEPT !.classes[n.name] = n.new, !.default = Elected(d, n)]
      BY <2>2, <3>1 DEF UpdatePriorityClass, SetPriorityClass, ClearDefault, Cache
    <3> QED
      BY <1>2, <1>3, <1>6, <3>2 DEF Handled
  <2> QED
    BY <2>1, <2>2
<1> QED
  BY <1>4, <1>5, <1>6

LEMMA ClusterHandler ==
    ASSUME NEW d \in Cache, NEW n \in Notes("clusters"), NEW before, NEW after,
           Tells(n, before, after), before \in [Clusters -> Maybe(Specs.clusters)],
           NEW c, c = Handled(n, AddCluster(d, n), UpdateCluster(d, n), DeleteCluster(d, n))
    PROVE  /\ c = [d EXCEPT !.clusters[n.name] = c.clusters[n.name]]
           /\ \/ c.clusters[n.name] = n.new
              \/ c.clusters[n.name] = d.clusters[n.name] /\ n.old = n.new
              \/ /\ c.clusters[n.name] = d.clusters[n.name] /\ n.old = NoObject
                 /\ n.new # NoObject /\ ~CheckClusterReady(n.new)
<1>1. /\ n.name \in Clusters
      /\ n.old # NoObject \/ n.new # NoObject
      /\ d.clusters \in [Clusters -> Maybe(Specs.clusters)]
  BY KindsOf DEF Notes, Cache, Tells
<1>2. d = [d EXCEPT !.clusters[n.name] = d.clusters[n.name]]
  <2>1. d.clusters = [d.clusters EXCEPT ![n.name] = d.clusters[n.name]]
    BY <1>1
  <2>2. d = [d EXCEPT !.clusters = d.clusters]
    BY DEF Cache
  <2>3. [d EXCEPT !.clusters[n.name] = d.clusters[n.name]]
        = [d EXCEPT !.clusters = [d.clusters EXCEPT ![n.name] = d.clusters[n.name]]]
    OBVIOUS
  <2> QED
    BY <2>1, <2>2, <2>3
<1>3. [d EXCEPT !.clusters[n.name] = n.new].clusters[n.name] = n.new
  BY <1>1 DEF Cache
<1>4. CASE n.old = NoObject
  BY <1>1, <1>2, <1>3, <1>4 DEF Handled, AddCluster, SetCluster
<1>5. CASE n.old # NoObject /\ n.new = NoObject
  BY <1>2, <1>3, <1>5 DEF Handled, DeleteCluster, Final
<1>6. CASE n.old # NoObject /\ n.new # NoObject
  BY <1>2, <1>3, <1>6 DEF Handled, UpdateCluster, SetCluster, Unchanged
<1> QED
  BY <1>4, <1>5, <1>6

\* The handlers set the info of the binding, delete it or leave it.
LEMMA BindingHandler ==
    ASSUME NEW d \in Cache, NEW n \in Notes("bindings"),
           n.old # NoObject \/ n.new # NoObject,
           NEW got \in Maybe(Templates(Queues, Classes))
    PROVE  Handled(n, AddResourceBinding(d, n, got), UpdateResourceBinding(d, n, got),
                   DeleteResourceBinding(d, n))
           = IF n.new = NoObject THEN [d EXCEPT !.infos[n.name] = NoObject]
             ELSE IF Unchanged(n) \/ ~Reads(n.new) \/ got = NoObject THEN d
             ELSE [d EXCEPT !.infos[n.name] = InfoOf(n.new, got)]
<1>1. CASE n.old = NoObject
  <2>1. n.new # NoObject /\ ~Unchanged(n)
    BY <1>1 DEF Unchanged
  <2> QED
    BY <1>1, <2>1 DEF Handled, AddResourceBinding, SetResourceBinding
<1>2. CASE n.old # NoObject /\ n.new = NoObject
  BY <1>2 DEF Handled, DeleteResourceBinding, Final
<1>3. CASE n.old # NoObject /\ n.new # NoObject
  BY <1>3 DEF Handled, UpdateResourceBinding, SetResourceBinding
<1> QED
  BY <1>1, <1>2, <1>3

LEMMA InfoType ==
    ASSUME NEW rb \in Binding, NEW got \in Templates(Queues, Classes)
    PROVE  /\ InfoOf(rb, got) \in Info /\ InfoOf(rb, got) # NoObject
           /\ InfoOf(rb, got).queue = NewWorkload(got).queue
           /\ InfoOf(rb, got).class = got.class
           /\ InfoOf(rb, got).status = "Suspended" <=> rb.suspended
           /\ InfoOf(rb, got).status = "UnSuspended" <=> ~rb.suspended
<1>1. NewWorkload(got).queue \in Queues \cup {Unnamed} /\ NewWorkload(got).class = got.class
  BY DEF NewWorkload, DeploymentWorkload, VolcanoJobWorkload, GetObjQueue, Templates
<1>2. got.class \in Classes \cup {NoClass}
  BY DEF Templates
<1>3. rb.suspended \in BOOLEAN
  BY DEF Binding
<1>4. InfoOf(rb, got) \in Info
  BY <1>1, <1>2 DEF InfoOf, Info, Status
<1>5. InfoOf(rb, got) # NoObject
  BY <1>4, CacheViewAssumption
<1> QED
  BY <1>1, <1>3, <1>4, <1>5 DEF InfoOf
-----------------------------------------------------------------------------
(* The steps: what they do to each kind's stream and to its part of the cache. *)

LEMMA ViewExists ==
    ASSUME IInv
    PROVE  \A kind \in StreamKinds : \E v : View(kind, v)
BY DEF IInv, QueueInv, ClassInv, ClusterInv, BindingInv, StreamKinds

\* The bindings that Karmada and the dispatcher write are bindings.
LEMMA BindingWrites ==
    ASSUME Typed, NEW k \in Bindings, SyncBinding(k) \/ ApplyPatch(k)
    PROVE  /\ streams' = [kind \in StreamKinds |-> streams'[kind]]
           /\ \A kind \in StreamKinds : MovesOf(kind)
           /\ \A kind \in StreamKinds \ {"bindings"} : streams'[kind] = streams[kind]
<1>1. /\ workloads \in [Bindings -> Maybe(Workload)]
      /\ Api("bindings") \in [Bindings -> Maybe(Binding)]
      /\ k \in Names["bindings"] /\ "bindings" \in StreamKinds
      /\ Maybe(Objects["bindings"]) = Maybe(Binding)
  BY KindsOf DEF Typed, TypeOK
<1>2. NoObject \notin Binding
  BY CacheViewAssumption
<1>3. ASSUME NEW obj \in Maybe(Binding), WriteTo("bindings", k, obj),
             obj # NoObject \/ Api("bindings")[k] # NoObject
      PROVE  /\ streams' = [kind \in StreamKinds |-> streams'[kind]]
             /\ \A kind \in StreamKinds : MovesOf(kind)
             /\ \A kind \in StreamKinds \ {"bindings"} : streams'[kind] = streams[kind]
  <2> DEFINE b == "bindings"
  <2>1. obj \in Maybe(Objects[b])
    BY <1>1
  <2> QED
    BY <1>1, <1>3, <2>1, WriteMoves
<1>4. CASE CreateBinding(k)
  <2>1. /\ workloads[k] \in Workload /\ workloads[k].spec \in Templates(Queues, Classes)
    BY <1>1, <1>4, CacheViewAssumption DEF CreateBinding, Maybe, Workload
  <2>2. PICK asked \in BOOLEAN :
          WriteTo("bindings", k,
                  [kind |-> workloads[k].spec.kind, ref |-> workloads[k].version, asked |-> asked,
                   suspended |-> ResourceBindings(workloads[k].spec.kind, asked).suspended])
    BY <1>4 DEF CreateBinding
  <2>3. [kind |-> workloads[k].spec.kind, ref |-> workloads[k].version, asked |-> asked,
         suspended |-> ResourceBindings(workloads[k].spec.kind, asked).suspended] \in Binding
    BY <2>1 DEF Binding, Workload, Templates, ResourceBindings
  <2> QED
    BY <1>2, <1>3, <2>2, <2>3 DEF Maybe
<1>5. CASE UpdateBinding(k)
  <2>1. /\ workloads[k] \in Workload /\ Api("bindings")[k] \in Binding
    BY <1>1, <1>5 DEF UpdateBinding, Maybe
  <2>2. [Api("bindings")[k] EXCEPT !.ref = workloads[k].version] \in Binding
    BY <2>1 DEF Binding, Workload
  <2> QED
    BY <1>2, <1>3, <1>5, <2>2 DEF Maybe, UpdateBinding
<1>6. CASE DeleteBinding(k)
  BY <1>3, <1>6 DEF Maybe, DeleteBinding
<1>7. CASE ApplyPatch(k)
  <2>1. CASE Api("bindings")[k].suspended
    <3>1. Api("bindings")[k] \in Binding
      BY <1>1, <1>7 DEF ApplyPatch, Maybe
    <3>2. [Api("bindings")[k] EXCEPT !.suspended = FALSE] \in Binding
      BY <3>1 DEF Binding
    <3> QED
      BY <1>2, <1>3, <1>7, <2>1, <3>2 DEF Maybe, ApplyPatch
  <2>2. CASE ~Api("bindings")[k].suspended
    <3>1. streams' = streams
      BY <1>7, <2>2 DEF ApplyPatch
    <3> QED
      BY <3>1, SameMoves DEF Typed
  <2> QED
    BY <2>1, <2>2
<1> QED
  BY <1>4, <1>5, <1>6, <1>7 DEF SyncBinding

LEMMA ObjectMoves ==
    ASSUME Typed, NEW kind \in StreamKinds \ {"bindings"}, NEW x \in Names[kind],
           NEW obj \in Specs[kind] \cup {NoObject}, ChangeObject(kind, x, obj)
    PROVE  /\ streams' = [k \in StreamKinds |-> streams'[k]]
           /\ \A k \in StreamKinds : MovesOf(k)
           /\ \A k \in StreamKinds \ {kind} : streams'[k] = streams[k]
           /\ Api(kind)' = [Api(kind) EXCEPT ![x] = obj]
<1>1. obj \in Maybe(Objects[kind])
  BY KindsOf DEF Maybe
<1>2. obj # NoObject \/ Api(kind)[x] # NoObject
  BY DEF ChangeObject
<1>3. WriteTo(kind, x, obj)
  BY DEF ChangeObject
<1> QED
  BY <1>1, <1>2, <1>3, WriteMoves

LEMMA QueueTaken ==
    ASSUME Typed, QueueInv, HandleQueue
    PROVE  \E w : /\ View("queues", w)'
                 /\ dc' = [dc EXCEPT !.queues = w[0]]
                 /\ w[0] \in [Queues -> Maybe(Specs.queues)]
<1>1. PICK v : View("queues", v) /\ v[0] = dc.queues
  BY DEF QueueInv
<1>2. Take("queues") /\ "queues" \in StreamKinds /\ dc \in Cache
  BY DEF HandleQueue, StreamKinds, Typed, TypeOK
<1> DEFINE n == FirstOf("queues")
<1>3. n \in Notes("queues") /\ \E w : View("queues", w)' /\ Passed(n, v, w)
  BY <1>1, <1>2, TakeView
<1>4. PICK w : View("queues", w)' /\ Passed(n, v, w)
  BY <1>3
<1>5. Tells(n, dc.queues, w[0])
  BY <1>1, <1>4 DEF Passed
<1>6. dc' = Handled(n, AddQueue(dc, n), UpdateQueue(dc, n), DeleteQueue(dc, n))
  BY DEF HandleQueue
<1> HIDE DEF n
<1>7. dc' = [dc EXCEPT !.queues = w[0]] /\ w[0] \in [Queues -> Maybe(Specs.queues)]
  BY <1>2, <1>3, <1>5, <1>6, QueueHandler
<1> QED
  BY <1>4, <1>7

LEMMA ClassTaken ==
    ASSUME Typed, HandlePriorityClass, NEW v, View("classes", v), v[0] = dc.classes
    PROVE  \E w : /\ View("classes", w)'
                 /\ Passed(FirstOf("classes"), v, w)
                 /\ dc' = [dc EXCEPT !.classes = w[0], !.default = Elected(dc, FirstOf("classes"))]
                 /\ w[0] \in [Classes -> Maybe(Specs.classes)]
                 /\ Elected(dc, FirstOf("classes")) \in Maybe(Default)
                 /\ FirstOf("classes") \in Notes("classes")
                 /\ Api("classes")' = Api("classes")
                 /\ streams'["classes"].intact = streams["classes"].intact
<1>1. Take("classes") /\ "classes" \in StreamKinds /\ dc \in Cache
  BY DEF HandlePriorityClass, StreamKinds, Typed, TypeOK
<1> DEFINE n == FirstOf("classes")
<1>2. /\ n \in Notes("classes") /\ \E w : View("classes", w)' /\ Passed(n, v, w)
      /\ Api("classes")' = Api("classes")
      /\ streams'["classes"].intact = streams["classes"].intact
  BY <1>1, TakeView
<1>3. PICK w : View("classes", w)' /\ Passed(n, v, w)
  BY <1>2
<1>4. Tells(n, dc.classes, w[0])
  BY <1>3 DEF Passed
<1>5. dc' = Handled(n, AddPriorityClass(dc, n), UpdatePriorityClass(dc, n),
                    DeletePriorityClass(dc, n))
  BY DEF HandlePriorityClass
<1> HIDE DEF n
<1>6. /\ dc' = [dc EXCEPT !.classes = w[0], !.default = Elected(dc, n)]
      /\ w[0] \in [Classes -> Maybe(Specs.classes)] /\ Elected(dc, n) \in Maybe(Default)
  BY <1>1, <1>2, <1>4, <1>5, ClassHandler
<1> QED
  BY <1>2, <1>3, <1>6 DEF n

LEMMA ClusterTaken ==
    ASSUME Typed, HandleCluster, ClusterInv
    PROVE  /\ dc' = [dc EXCEPT !.clusters = dc'.clusters]
           /\ dc'.clusters \in [Clusters -> Maybe(Specs.clusters)]
           /\ ClusterInv'
<1>1. PICK v : View("clusters", v) /\ ClusterTold(v[0])
  BY DEF ClusterInv
<1>2. Take("clusters") /\ "clusters" \in StreamKinds /\ dc \in Cache
  BY DEF HandleCluster, StreamKinds, Typed, TypeOK
<1> DEFINE n == FirstOf("clusters")
<1>3. n \in Notes("clusters") /\ \E w : View("clusters", w)' /\ Passed(n, v, w)
  BY <1>1, <1>2, TakeView
<1>4. PICK w : View("clusters", w)' /\ Passed(n, v, w)
  BY <1>3
<1>5. Tells(n, v[0], w[0])
  BY <1>4 DEF Passed
<1>6. dc' = Handled(n, AddCluster(dc, n), UpdateCluster(dc, n), DeleteCluster(dc, n))
  BY DEF HandleCluster
<1>7. v[0] \in [Clusters -> Maybe(Specs.clusters)]
  <2>1. streams["clusters"].events \in Seq(Notes("clusters"))
    BY <1>2 DEF Typed, StreamTyped, StreamOK, Notes
  <2>2. 0 \in 0..Len(streams["clusters"].events)
    BY <2>1
  <2> QED
    BY <1>1, <2>2, KindsOf DEF View, Replay
<1> HIDE DEF n
<1>8. /\ dc' = [dc EXCEPT !.clusters[n.name] = dc'.clusters[n.name]]
      /\ \/ dc'.clusters[n.name] = n.new
         \/ dc'.clusters[n.name] = dc.clusters[n.name] /\ n.old = n.new
         \/ /\ dc'.clusters[n.name] = dc.clusters[n.name] /\ n.old = NoObject
            /\ n.new # NoObject /\ ~CheckClusterReady(n.new)
  BY <1>2, <1>3, <1>5, <1>6, <1>7, ClusterHandler
<1>9. /\ n.name \in Clusters /\ n.new \in Maybe(Specs.clusters)
      /\ dc.clusters \in [Clusters -> Maybe(Specs.clusters)]
      /\ n.old = v[0][n.name] /\ w[0] = [v[0] EXCEPT ![n.name] = n.new]
  BY <1>2, <1>3, <1>5, KindsOf DEF Notes, Cache, Tells
<1> DEFINE a == dc'.clusters[n.name]
<1> HIDE DEF a
<1>10. dc' = [dc EXCEPT !.clusters[n.name] = a]
  BY <1>8 DEF a
<1>11. /\ dc'.clusters = [dc.clusters EXCEPT ![n.name] = a]
       /\ dc' = [dc EXCEPT !.clusters = dc'.clusters]
  <2>1. [dc EXCEPT !.clusters[n.name] = a] = [dc EXCEPT !.clusters = [dc.clusters EXCEPT ![n.name] = a]]
    OBVIOUS
  <2>2. dc'.clusters = [dc.clusters EXCEPT ![n.name] = a]
    BY <1>2, <1>10, <2>1 DEF Cache
  <2> QED
    BY <1>10, <2>1, <2>2
<1>12. a \in Maybe(Specs.clusters)
  BY <1>8, <1>9 DEF a
<1>13. dc'.clusters \in [Clusters -> Maybe(Specs.clusters)]
  BY <1>9, <1>11, <1>12
<1>14. ASSUME NEW m \in Clusters
       PROVE  /\ dc'.clusters[m] \in {NoObject, w[0][m]}
              /\ w[0][m] # NoObject /\ CheckClusterReady(w[0][m]) => dc'.clusters[m] # NoObject
  <2>1. /\ dc.clusters[m] \in {NoObject, v[0][m]}
        /\ v[0][m] # NoObject /\ CheckClusterReady(v[0][m]) => dc.clusters[m] # NoObject
    BY <1>1 DEF ClusterTold
  <2>2. CASE m = n.name
    <3>1. w[0][m] = n.new /\ dc'.clusters[m] = a /\ v[0][m] = n.old
      BY <1>7, <1>9, <1>11, <2>2
    <3>2. \/ a = n.new
          \/ a = dc.clusters[m] /\ n.old = n.new
          \/ a = dc.clusters[m] /\ n.old = NoObject /\ n.new # NoObject /\ ~CheckClusterReady(n.new)
      BY <1>8, <2>2 DEF a
    <3> QED
      BY <2>1, <3>1, <3>2
  <2>3. CASE m # n.name
    <3>1. w[0][m] = v[0][m] /\ dc'.clusters[m] = dc.clusters[m]
      BY <1>7, <1>9, <1>11, <2>3
    <3> QED
      BY <2>1, <3>1
  <2> QED
    BY <2>2, <2>3
<1>15. ClusterTold(w[0])'
  BY <1>14 DEF ClusterTold
<1> QED
  BY <1>4, <1>11, <1>13, <1>15 DEF ClusterInv

\* What the handler of n does when its GET is answered by got.
Got(n, got) ==
    /\ dc' = IF n.new = NoObject THEN [dc EXCEPT !.infos[n.name] = NoObject]
             ELSE IF Unchanged(n) \/ ~Reads(n.new) \/ got = NoObject THEN dc
             ELSE [dc EXCEPT !.infos[n.name] = InfoOf(n.new, got)]
    /\ unread' = IF n.new # NoObject /\ ~Unchanged(n) /\ Reads(n.new) /\ got = NoObject
                 THEN unread \cup {n.name}
                 ELSE IF Unchanged(n) THEN unread ELSE unread \ {n.name}
    /\ recovered' = IF \/ Unchanged(n)
                       \/ n.new # NoObject /\ ~Unchanged(n) /\ Reads(n.new) /\ got = NoObject
                    THEN recovered ELSE recovered \ {n.name}

LEMMA BindingTaken ==
    ASSUME Typed, HandleBinding, NEW v, View("bindings", v)
    PROVE  /\ FirstOf("bindings") \in Notes("bindings")
           /\ Api("bindings")' = Api("bindings")
           /\ \E w : View("bindings", w)' /\ Passed(FirstOf("bindings"), v, w)
           /\ \E got \in Maybe(Templates(Queues, Classes)) :
                /\ got # NoObject => /\ workloads[FirstOf("bindings").name] # NoObject
                                     /\ got = workloads[FirstOf("bindings").name].spec
                /\ Got(FirstOf("bindings"), got)
<1> DEFINE n == FirstOf("bindings")
<1>1. Take("bindings") /\ "bindings" \in StreamKinds /\ dc \in Cache
  BY DEF HandleBinding, StreamKinds, Typed, TypeOK
<1>2. /\ n \in Notes("bindings") /\ \E w : View("bindings", w)' /\ Passed(n, v, w)
      /\ Api("bindings")' = Api("bindings")
  BY <1>1, TakeView
<1>3. n.old # NoObject \/ n.new # NoObject
  BY <1>2 DEF Passed, Tells
<1> DEFINE set == n.new # NoObject /\ ~Unchanged(n) /\ Reads(n.new)
           got == IF workloads[n.name] = NoObject THEN NoObject ELSE workloads[n.name].spec
           H(g) == Handled(n, AddResourceBinding(dc, n, g), UpdateResourceBinding(dc, n, g),
                           DeleteResourceBinding(dc, n))
           U(g) == IF set /\ g = NoObject THEN unread \cup {n.name}
                   ELSE IF Unchanged(n) THEN unread ELSE unread \ {n.name}
           R(g) == IF Unchanged(n) \/ (set /\ g = NoObject) THEN recovered
                   ELSE recovered \ {n.name}
<1>4. \/ dc' = H(got) /\ unread' = U(got) /\ recovered' = R(got)
      \/ dc' = H(NoObject) /\ unread' = U(NoObject) /\ recovered' = R(NoObject)
  BY DEF HandleBinding
<1>5. got \in Maybe(Templates(Queues, Classes)) /\ NoObject \in Maybe(Templates(Queues, Classes))
  <2>1. n.name \in Bindings /\ workloads[n.name] \in Maybe(Workload)
    BY <1>2, KindsOf DEF Notes, Typed, TypeOK
  <2> QED
    BY <2>1, CacheViewAssumption DEF Maybe, Workload
<1>6. ASSUME NEW g \in Maybe(Templates(Queues, Classes)), dc' = H(g), unread' = U(g),
             recovered' = R(g)
      PROVE  Got(n, g)
  <2>1. H(g) = IF n.new = NoObject THEN [dc EXCEPT !.infos[n.name] = NoObject]
               ELSE IF Unchanged(n) \/ ~Reads(n.new) \/ g = NoObject THEN dc
               ELSE [dc EXCEPT !.infos[n.name] = InfoOf(n.new, g)]
    <3> HIDE DEF n
    <3> QED
      BY <1>1, <1>2, <1>3, BindingHandler
  <2> HIDE DEF n, H
  <2> QED
    BY <1>6, <2>1 DEF Got
<1>7. got # NoObject => workloads[n.name] # NoObject /\ got = workloads[n.name].spec
  OBVIOUS
<1> HIDE DEF n, got, H, U, R
<1>8. \E g \in Maybe(Templates(Queues, Classes)) :
        /\ g # NoObject => workloads[n.name] # NoObject /\ g = workloads[n.name].spec
        /\ Got(n, g)
  BY <1>4, <1>5, <1>6, <1>7
<1> QED
  BY <1>2, <1>8 DEF n

LEMMA BindingInfos ==
    ASSUME Typed, HandleBinding
    PROVE  \A v : View("bindings", v) =>
             /\ dc' = [dc EXCEPT !.infos = dc'.infos]
             /\ dc'.infos \in [Bindings -> Maybe(Info)]
             /\ unread' \subseteq Bindings /\ recovered' \subseteq Bindings
<1> SUFFICES ASSUME NEW v, View("bindings", v)
             PROVE  /\ dc' = [dc EXCEPT !.infos = dc'.infos]
                    /\ dc'.infos \in [Bindings -> Maybe(Info)]
                    /\ unread' \subseteq Bindings /\ recovered' \subseteq Bindings
  OBVIOUS
<1> DEFINE n == FirstOf("bindings")
<1>1. /\ n \in Notes("bindings")
      /\ \E got \in Maybe(Templates(Queues, Classes)) : Got(n, got)
  BY BindingTaken
<1> HIDE DEF n
<1>2. PICK got \in Maybe(Templates(Queues, Classes)) : Got(n, got)
  BY <1>1
<1>3. /\ n.name \in Bindings /\ n.new \in Maybe(Binding)
      /\ dc \in Cache /\ dc.infos \in [Bindings -> Maybe(Info)]
      /\ unread \subseteq Bindings /\ recovered \subseteq Bindings
  BY <1>1, KindsOf DEF Notes, Typed, TypeOK, Cache
<1>4. ASSUME NEW i \in Maybe(Info), dc' = [dc EXCEPT !.infos[n.name] = i]
      PROVE  dc' = [dc EXCEPT !.infos = dc'.infos] /\ dc'.infos \in [Bindings -> Maybe(Info)]
  <2> DEFINE f == [dc.infos EXCEPT ![n.name] = i]
  <2>1. dc' = [dc EXCEPT !.infos = f] /\ f \in [Bindings -> Maybe(Info)]
    BY <1>3, <1>4
  <2> HIDE DEF f
  <2> QED
    BY <1>3, <2>1 DEF Cache
<1>8. unread' \subseteq Bindings /\ recovered' \subseteq Bindings
  BY <1>2, <1>3 DEF Got
<1>5. CASE dc' = dc
  BY <1>3, <1>5, <1>8 DEF Cache
<1>6. CASE n.new = NoObject
  <2>1. dc' = [dc EXCEPT !.infos[n.name] = NoObject] /\ NoObject \in Maybe(Info)
    BY <1>2, <1>6 DEF Got, Maybe
  <2> QED
    BY <1>4, <1>8, <2>1
<1>7. CASE n.new # NoObject /\ got # NoObject /\ dc' = [dc EXCEPT !.infos[n.name] = InfoOf(n.new, got)]
  <2>1. InfoOf(n.new, got) \in Maybe(Info)
    BY <1>3, <1>7, InfoType DEF Maybe
  <2> QED
    BY <1>4, <1>7, <1>8, <2>1
<1> QED
  BY <1>2, <1>5, <1>6, <1>7 DEF Got

\* A snapshot changes nothing but priorities, to what some class is worth.
LEMMA SnapshotInfos ==
    ASSUME NEW d \in Cache
    PROVE  /\ Snapshot(d) = [d EXCEPT !.infos = Snapshot(d).infos]
           /\ Snapshot(d).infos \in [Bindings -> Maybe(Info)]
           /\ \A k \in Bindings :
                /\ Snapshot(d).infos[k] = NoObject <=> d.infos[k] = NoObject
                /\ d.infos[k] # NoObject =>
                     \E p \in Nat : Snapshot(d).infos[k] = [d.infos[k] EXCEPT !.priority = p]
<1> DEFINE f == [k \in DOMAIN d.infos |->
                   IF k \in Seen(d) THEN [d.infos[k] EXCEPT !.priority = PriorityOf(d, k)]
                   ELSE d.infos[k]]
<1>1. /\ d.infos \in [Bindings -> Maybe(Info)] /\ d.default \in Maybe(Default)
      /\ d.classes \in [Classes -> Maybe(Specs.classes)] /\ Specs.classes \subseteq Class
  BY CacheViewAssumption DEF Cache
<1>2. Snapshot(d) = [d EXCEPT !.infos = f]
  BY DEF Snapshot
<1>3. NoObject \notin Info
  BY CacheViewAssumption
<1>4. ASSUME NEW k \in Bindings, k \in Seen(d)
      PROVE  d.infos[k] \in Info /\ PriorityOf(d, k) \in Nat
  <2>1. d.infos[k] \in Info
    BY <1>1, <1>4 DEF Seen, Live, Maybe
  <2>2. CASE d.infos[k].class # NoClass
    <3>1. d.infos[k].class \in Classes /\ d.classes[d.infos[k].class] # NoObject
      BY <1>4, <2>1, <2>2 DEF Seen, Info
    <3>2. d.classes[d.infos[k].class] \in Class
      BY <1>1, <3>1 DEF Maybe
    <3> QED
      BY <2>1, <2>2, <3>2 DEF PriorityOf, Class
  <2>3. CASE d.infos[k].class = NoClass /\ d.default # NoObject
    <3>1. d.default.class \in Class
      BY <1>1, <2>3 DEF Maybe, Default
    <3> QED
      BY <2>1, <2>3, <3>1 DEF PriorityOf, Class
  <2>4. CASE d.infos[k].class = NoClass /\ d.default = NoObject
    BY <2>1, <2>4 DEF PriorityOf, Info
  <2> QED
    BY <2>1, <2>2, <2>3, <2>4
<1>5. ASSUME NEW k \in Bindings
      PROVE  /\ f[k] \in Maybe(Info)
             /\ f[k] = NoObject <=> d.infos[k] = NoObject
             /\ d.infos[k] # NoObject =>
                  \E p \in Nat : f[k] = [d.infos[k] EXCEPT !.priority = p]
  <2>1. d.infos[k] \in Maybe(Info)
    BY <1>1
  <2>2. CASE k \in Seen(d)
    <3> DEFINE p == PriorityOf(d, k)
    <3>1. d.infos[k] \in Info /\ p \in Nat
      BY <1>4, <2>2
    <3>2. f[k] = [d.infos[k] EXCEPT !.priority = p]
      BY <1>1, <2>2
    <3> HIDE DEF f, p
    <3>3. f[k] \in Info
      BY <3>1, <3>2 DEF Info
    <3> QED
      BY <1>3, <3>1, <3>2, <3>3 DEF Maybe
  <2>3. CASE k \notin Seen(d)
    <3>1. f[k] = d.infos[k]
      BY <1>1, <2>3
    <3>2. ASSUME d.infos[k] # NoObject
          PROVE  \E p \in Nat : f[k] = [d.infos[k] EXCEPT !.priority = p]
      <4>1. d.infos[k] \in Info
        BY <2>1, <3>2 DEF Maybe
      <4>2. d.infos[k] = [d.infos[k] EXCEPT !.priority = d.infos[k].priority]
        BY <4>1 DEF Info
      <4>3. d.infos[k].priority \in Nat
        BY <4>1 DEF Info
      <4> HIDE DEF f
      <4> QED
        BY <3>1, <4>2, <4>3
    <3> HIDE DEF f
    <3> QED
      BY <2>1, <3>1, <3>2
  <2> QED
    BY <2>2, <2>3
<1>6. f \in [Bindings -> Maybe(Info)]
  BY <1>1, <1>5
<1> HIDE DEF f
<1>7. Snapshot(d).infos = f
  BY <1>2 DEF Cache
<1> QED
  BY <1>2, <1>5, <1>6, <1>7

\* A dispatch and a failed patch change nothing but one status.
LEMMA StatusInfos ==
    ASSUME dc \in Cache, NEW x \in Bindings, NEW st \in Status, dc.infos[x] # NoObject,
           dc' = [dc EXCEPT !.infos[x].status = st]
    PROVE  /\ dc' = [dc EXCEPT !.infos = dc'.infos]
           /\ dc'.infos \in [Bindings -> Maybe(Info)]
           /\ \A k \in Bindings \ {x} : dc'.infos[k] = dc.infos[k]
           /\ dc'.infos[x] # NoObject /\ dc'.infos[x].status = st
           /\ dc'.infos[x].queue = dc.infos[x].queue /\ dc'.infos[x].class = dc.infos[x].class
<1>1. dc.infos \in [Bindings -> Maybe(Info)]
  BY DEF Cache
<1>2. PICK info \in Info : info = dc.infos[x]
  BY <1>1 DEF Maybe
<1>3. PICK new : new = [info EXCEPT !.status = st]
  OBVIOUS
<1>4. /\ new \in Info /\ new.queue = info.queue /\ new.class = info.class
      /\ new.status = st
  BY <1>2, <1>3 DEF Info, Status
<1>5. new # NoObject
  BY <1>4, CacheViewAssumption
<1>6. dc' = [dc EXCEPT !.infos = [dc.infos EXCEPT ![x] = new]]
  BY <1>2, <1>3
<1>7. PICK f : f = [dc.infos EXCEPT ![x] = new]
  OBVIOUS
<1>8. f \in [Bindings -> Maybe(Info)] /\ dc' = [dc EXCEPT !.infos = f]
  BY <1>1, <1>4, <1>6, <1>7 DEF Maybe
<1>9. dc'.infos = f
  BY <1>8 DEF Cache
<1> QED
  BY <1>1, <1>2, <1>4, <1>5, <1>7, <1>8, <1>9

\* A step other than a restart, part by part.
Parts ==
    /\ streams' = [kind \in StreamKinds |-> streams'[kind]]
    /\ HandleQueue \/ (MovesOf("queues") /\ dc'.queues = dc.queues)
    /\ \/ HandlePriorityClass
       \/ MovesOf("classes") /\ dc'.classes = dc.classes /\ dc'.default = dc.default
    /\ HandleCluster \/ (MovesOf("clusters") /\ dc'.clusters = dc.clusters)
    /\ HandleBinding \/ MovesOf("bindings")
    /\ dc' \in Cache

LEMMA StreamParts ==
    ASSUME Typed, streams' = [kind \in StreamKinds |-> streams'[kind]],
           \A kind \in StreamKinds : MovesOf(kind),
           dc' = dc \/ (/\ dc' = [dc EXCEPT !.infos = dc'.infos]
                        /\ dc'.infos \in [Bindings -> Maybe(Info)])
    PROVE  Parts
<1>1. dc \in Cache
  BY DEF Typed, TypeOK
<1>2. /\ dc'.queues = dc.queues /\ dc'.classes = dc.classes /\ dc'.default = dc.default
      /\ dc'.clusters = dc.clusters /\ dc' \in Cache
  BY <1>1 DEF Cache
<1> QED
  BY <1>2, KindsOf DEF Parts

LEMMA NextParts ==
    ASSUME IInv, Next, ~Restart
    PROVE  Parts
<1>1. Typed /\ dc \in Cache
  BY DEF IInv, Typed, TypeOK
<1>2. CASE CreateAnswered \/ \E applied \in BOOLEAN : CreateFails(applied)
  <2>1. dc' = dc /\ (ApplyCreate \/ UNCHANGED streams)
    BY <1>2 DEF CreateAnswered, CreateFails
  <2>2. CASE ApplyCreate
    BY <1>1, <2>1, <2>2, CreateMoves, StreamParts
  <2>3. CASE UNCHANGED streams
    <3>1. streams' = [kind \in StreamKinds |-> streams'[kind]]
      BY <1>1, <2>3 DEF Typed
    <3> QED
      BY <1>1, <2>1, <2>3, <3>1, SameMoves, StreamParts
  <2> QED
    BY <2>1, <2>2, <2>3
<1>3. ASSUME NEW kind \in StreamKinds, List(kind) \/ LoseWatch(kind)
      PROVE  Parts
  <2>1. dc' = dc
    BY <1>3 DEF List, LoseWatch
  <2> QED
    BY <1>1, <1>3, <2>1, ListMoves, LoseMoves, StreamParts
<1>4. CASE HandleQueue
  <2>1. /\ streams' = [k \in StreamKinds |-> streams'[k]]
        /\ \A k \in StreamKinds \ {"queues"} : MovesOf(k)
    BY <1>1, <1>4, TakeMoves DEF HandleQueue, StreamKinds
  <2>2. \E w : /\ dc' = [dc EXCEPT !.queues = w[0]]
              /\ w[0] \in [Queues -> Maybe(Specs.queues)]
    BY <1>1, <1>4, QueueTaken DEF IInv
  <2>3. /\ dc'.classes = dc.classes /\ dc'.default = dc.default /\ dc'.clusters = dc.clusters
        /\ dc' \in Cache
    BY <1>1, <2>2 DEF Cache
  <2> QED
    BY <1>4, <2>1, <2>3, KindsOf DEF Parts
<1>5. CASE HandlePriorityClass
  <2>1. /\ streams' = [k \in StreamKinds |-> streams'[k]]
        /\ \A k \in StreamKinds \ {"classes"} : MovesOf(k)
    BY <1>1, <1>5, TakeMoves DEF HandlePriorityClass, StreamKinds
  <2>2. PICK v : View("classes", v) /\ v[0] = dc.classes
    BY DEF IInv, ClassInv, ClassTold
  <2>3. \E w : /\ dc' = [dc EXCEPT !.classes = w[0], !.default = Elected(dc, FirstOf("classes"))]
              /\ w[0] \in [Classes -> Maybe(Specs.classes)]
              /\ Elected(dc, FirstOf("classes")) \in Maybe(Default)
    BY <1>1, <1>5, <2>2, ClassTaken
  <2>4. dc'.queues = dc.queues /\ dc'.clusters = dc.clusters /\ dc' \in Cache
    BY <1>1, <2>3 DEF Cache
  <2> QED
    BY <1>5, <2>1, <2>4, KindsOf DEF Parts
<1>6. CASE HandleCluster
  <2>1. /\ streams' = [k \in StreamKinds |-> streams'[k]]
        /\ \A k \in StreamKinds \ {"clusters"} : MovesOf(k)
    BY <1>1, <1>6, TakeMoves DEF HandleCluster, StreamKinds
  <2>2. /\ dc' = [dc EXCEPT !.clusters = dc'.clusters]
        /\ dc'.clusters \in [Clusters -> Maybe(Specs.clusters)]
    BY <1>1, <1>6, ClusterTaken DEF IInv
  <2>3. /\ dc'.queues = dc.queues /\ dc'.classes = dc.classes /\ dc'.default = dc.default
        /\ dc' \in Cache
    BY <1>1, <2>2 DEF Cache
  <2> QED
    BY <1>6, <2>1, <2>3, KindsOf DEF Parts
<1>7. CASE HandleBinding
  <2>1. /\ streams' = [k \in StreamKinds |-> streams'[k]]
        /\ \A k \in StreamKinds \ {"bindings"} : MovesOf(k)
    BY <1>1, <1>7, TakeMoves DEF HandleBinding, StreamKinds
  <2>2. PICK v : View("bindings", v)
    BY DEF IInv, BindingInv
  <2>3. /\ dc' = [dc EXCEPT !.infos = dc'.infos]
        /\ dc'.infos \in [Bindings -> Maybe(Info)]
    BY <1>1, <1>7, <2>2, BindingInfos
  <2>4. /\ dc'.queues = dc.queues /\ dc'.classes = dc.classes /\ dc'.default = dc.default
        /\ dc'.clusters = dc.clusters /\ dc' \in Cache
    BY <1>1, <2>3 DEF Cache
  <2> QED
    BY <1>7, <2>1, <2>4, KindsOf DEF Parts
<1>8. CASE TakeSnapshot
  <2>1. UNCHANGED streams /\ (dc' = dc \/ dc' = Snapshot(dc))
    BY <1>8 DEF TakeSnapshot
  <2>2. streams' = [kind \in StreamKinds |-> streams'[kind]]
    BY <1>1, <2>1 DEF Typed
  <2>3. dc' = dc \/ (/\ dc' = [dc EXCEPT !.infos = dc'.infos]
                     /\ dc'.infos \in [Bindings -> Maybe(Info)])
    BY <1>1, <2>1, SnapshotInfos
  <2> QED
    BY <1>1, <2>1, <2>2, <2>3, SameMoves, StreamParts
<1>9. ASSUME NEW kind \in StreamKinds \ {"bindings"}, NEW x \in Names[kind],
             NEW obj \in Specs[kind] \cup {NoObject}, ChangeObject(kind, x, obj)
      PROVE  Parts
  <2>1. dc' = dc
    BY <1>9 DEF ChangeObject
  <2> QED
    BY <1>1, <1>9, <2>1, ObjectMoves, StreamParts
<1>10. ASSUME NEW k \in Bindings, NEW spec \in Workloads \cup {NoObject}, ChangeWorkload(k, spec)
       PROVE  Parts
  <2>1. dc' = dc /\ UNCHANGED streams
    BY <1>10 DEF ChangeWorkload
  <2>2. streams' = [kind \in StreamKinds |-> streams'[kind]]
    BY <1>1, <2>1 DEF Typed
  <2> QED
    BY <1>1, <2>1, <2>2, SameMoves, StreamParts
<1>11. ASSUME NEW k \in Bindings, SyncBinding(k)
       PROVE  Parts
  <2>1. dc' = dc
    BY <1>11 DEF SyncBinding, CreateBinding, UpdateBinding, DeleteBinding
  <2> QED
    BY <1>1, <1>11, <2>1, BindingWrites, StreamParts
<1>12. ASSUME NEW k \in Bindings, UnSuspendResourceBinding(k) \/ PatchRecovers(k)
       PROVE  Parts
  <2>1. /\ UNCHANGED streams
        /\ \/ dc' = dc
           \/ /\ dc.infos[k] # NoObject
              /\ \/ dc' = [dc EXCEPT !.infos[k].status = "UnSuspending"]
                 \/ dc' = [dc EXCEPT !.infos[k].status = "Suspended"]
    BY <1>12 DEF UnSuspendResourceBinding, PatchRecovers
  <2>2. streams' = [kind \in StreamKinds |-> streams'[kind]]
    BY <1>1, <2>1 DEF Typed
  <2>3. "UnSuspending" \in Status /\ "Suspended" \in Status
    BY DEF Status
  <2>4. dc' = dc \/ (/\ dc' = [dc EXCEPT !.infos = dc'.infos]
                     /\ dc'.infos \in [Bindings -> Maybe(Info)])
    BY <1>1, <2>1, <2>3, StatusInfos
  <2> QED
    BY <1>1, <2>1, <2>2, <2>4, SameMoves, StreamParts
<1>13. ASSUME NEW k \in Bindings, NEW applied \in BOOLEAN,
              TaskWorker(k) \/ PatchAnswered(k) \/ PatchFails(k, applied)
       PROVE  Parts
  <2>1. dc' = dc /\ (UNCHANGED streams \/ ApplyPatch(k))
    BY <1>13 DEF TaskWorker, PatchAnswered, PatchFails
  <2>2. CASE UNCHANGED streams
    <3>1. streams' = [kind \in StreamKinds |-> streams'[kind]]
      BY <1>1, <2>2 DEF Typed
    <3> QED
      BY <1>1, <2>1, <2>2, <3>1, SameMoves, StreamParts
  <2>3. CASE ApplyPatch(k)
    BY <1>1, <2>1, <2>3, BindingWrites, StreamParts
  <2> QED
    BY <2>1, <2>2, <2>3
<1> QED
  BY <1>2, <1>3, <1>4, <1>5, <1>6, <1>7, <1>8, <1>9, <1>10, <1>11, <1>12, <1>13
  DEF Next, Handle, Patching
-----------------------------------------------------------------------------
(* Type correctness. *)

LEMMA StreamsStayTyped ==
    ASSUME IInv, Next, ~Restart
    PROVE  \A kind \in StreamKinds : StreamTyped(kind)'
<1>1. Typed /\ Parts
  BY NextParts DEF IInv
<1>2. ASSUME NEW kind \in StreamKinds
      PROVE  StreamTyped(kind)'
  <2>1. PICK v : View(kind, v)
    BY ViewExists
  <2>2. MovesOf(kind) \/ Take(kind)
    BY <1>1 DEF Parts, StreamKinds, HandleQueue, HandlePriorityClass, HandleCluster, HandleBinding
  <2> QED
    BY <1>1, <2>1, <2>2, KeepView, TakeView
<1> QED
  BY <1>2

\* A process that starts has an empty cache and its streams are fresh.
LEMMA RestartFresh ==
    ASSUME Typed, Restart
    PROVE  /\ streams' = [kind \in StreamKinds |-> streams'[kind]]
           /\ \A kind \in StreamKinds :
                /\ StreamTyped(kind)' /\ Api(kind)' = Api(kind)
                /\ View(kind, [i \in {0} |-> [x \in Names[kind] |-> NoObject]])'
<1> DEFINE api == [kind \in StreamKinds |-> Api(kind)]
<1>1. \A kind \in StreamKinds : api[kind] \in [Names[kind] -> Maybe(Objects[kind])]
  BY DEF Typed, TypeOK
<1>2. streams' = Fresh(api)
  BY DEF Restart
<1> HIDE DEF api
<1>3. /\ streams' = [kind \in StreamKinds |-> streams'[kind]]
      /\ \A kind \in StreamKinds :
           /\ StreamOK(streams'[kind], Names[kind], Maybe(Objects[kind]))
           /\ streams'[kind].api = api[kind]
           /\ Replay(streams'[kind], [i \in {0} |-> [x \in Names[kind] |-> NoObject]],
                     Names[kind], Maybe(Objects[kind]))
  BY <1>1, <1>2, FreshViews
<1>4. \A kind \in StreamKinds : api[kind] = Api(kind)
  BY DEF api
<1> QED
  BY <1>3, <1>4 DEF StreamTyped, View, Api

LEMMA EmptyTyped == FreshCache \in Cache
BY DEF FreshCache, EmptyCache, Cache, Maybe


LEMMA RestTyped ==
    ASSUME IInv, Next
    PROVE  /\ phase' \in {"starting", "running", "dead"}
           /\ attempts' \in 0..Attempts
           /\ phase' = "starting" => attempts' < Attempts
           /\ workloads' \in [Bindings -> Maybe(Workload)]
           /\ unread' \in SUBSET Bindings
           /\ budget' \in [Changes -> Nat]
<1>1. /\ phase \in {"starting", "running", "dead"} /\ attempts \in 0..Attempts
      /\ phase = "starting" => attempts < Attempts
      /\ workloads \in [Bindings -> Maybe(Workload)]
      /\ unread \in SUBSET Bindings /\ budget \in [Changes -> Nat] /\ Attempts \in Nat \ {0}
  BY CacheViewAssumption DEF IInv, Typed, TypeOK
<1>2. ASSUME NEW change, Spend(change)
      PROVE  budget' \in [Changes -> Nat]
  <2>1. budget' = [budget EXCEPT ![change] = budget[change] - 1] /\ budget[change] > 0
    BY <1>2 DEF Spend
  <2>2. CASE change \in Changes
    <3>1. budget[change] - 1 \in Nat
      BY <1>1, <2>1, <2>2
    <3> QED
      BY <1>1, <2>1, <3>1
  <2>3. CASE change \notin Changes
    BY <1>1, <2>1, <2>3
  <2> QED
    BY <2>2, <2>3
<1>3. CASE CreateAnswered
  BY <1>1, <1>3 DEF CreateAnswered
<1>4. ASSUME NEW applied \in BOOLEAN, CreateFails(applied)
      PROVE  /\ phase' \in {"starting", "running", "dead"} /\ attempts' \in 0..Attempts
             /\ phase' = "starting" => attempts' < Attempts
             /\ UNCHANGED <<workloads, unread>> /\ budget' \in [Changes -> Nat]
  BY <1>1, <1>2, <1>4 DEF CreateFails
<1>5. CASE Restart
  BY <1>1, <1>5 DEF Restart
<1>6. ASSUME NEW kind \in StreamKinds, List(kind) \/ LoseWatch(kind)
      PROVE  UNCHANGED <<phase, attempts, workloads, unread>> /\ budget' \in [Changes -> Nat]
  BY <1>1, <1>2, <1>6 DEF List, LoseWatch
<1>7. CASE HandleQueue \/ HandlePriorityClass \/ HandleCluster
  BY <1>1, <1>7 DEF HandleQueue, HandlePriorityClass, HandleCluster, Take
<1>8. CASE HandleBinding
  <2>1. unread' \subseteq Bindings
    BY <1>8, BindingInfos DEF IInv, BindingInv
  <2>2. UNCHANGED <<phase, attempts, workloads>>
    BY <1>8 DEF HandleBinding, Take
  <2>3. UNCHANGED budget \/ Spend("unread")
    BY <1>8 DEF HandleBinding
  <2> QED
    BY <1>1, <1>2, <2>1, <2>2, <2>3
<1>9. CASE TakeSnapshot
  BY <1>1, <1>9 DEF TakeSnapshot
<1>10. ASSUME NEW kind, NEW x, NEW obj, ChangeObject(kind, x, obj)
       PROVE  UNCHANGED <<phase, attempts, workloads, unread>> /\ budget' \in [Changes -> Nat]
  BY <1>2, <1>10 DEF ChangeObject
<1>11. ASSUME NEW k \in Bindings, NEW spec \in Workloads \cup {NoObject}, ChangeWorkload(k, spec)
       PROVE  /\ UNCHANGED <<phase, attempts, unread>> /\ budget' \in [Changes -> Nat]
              /\ workloads' \in [Bindings -> Maybe(Workload)]
  <2>1. /\ UNCHANGED <<phase, attempts, unread>> /\ budget' \in [Changes -> Nat]
        /\ workloads' = [workloads EXCEPT ![k] =
              IF spec = NoObject THEN NoObject
              ELSE [spec |-> spec, version |-> workloads[k].version + 1]]
    BY <1>2, <1>11 DEF ChangeWorkload
  <2>2. workloads[k] \in Workload
    BY <1>1, <1>11 DEF ChangeWorkload, Maybe
  <2>3. spec # NoObject => [spec |-> spec, version |-> workloads[k].version + 1] \in Workload
    BY <2>2 DEF Workload
  <2>4. IF spec = NoObject THEN NoObject \in Maybe(Workload)
        ELSE [spec |-> spec, version |-> workloads[k].version + 1] \in Maybe(Workload)
    BY <2>3 DEF Maybe
  <2> QED
    BY <1>1, <2>1, <2>4
<1>12. ASSUME NEW k \in Bindings, SyncBinding(k)
       PROVE  UNCHANGED <<phase, attempts, workloads, unread, budget>>
  BY <1>12 DEF SyncBinding, CreateBinding, UpdateBinding, DeleteBinding
<1>13. ASSUME NEW k \in Bindings, UnSuspendResourceBinding(k) \/ TaskWorker(k) \/ Patching(k)
       PROVE  UNCHANGED <<phase, attempts, workloads, unread>> /\ budget' \in [Changes -> Nat]
  BY <1>1, <1>2, <1>13
  DEF UnSuspendResourceBinding, TaskWorker, Patching, PatchAnswered, PatchFails, PatchRecovers
<1> DEFINE Done ==
             /\ phase' \in {"starting", "running", "dead"}
             /\ attempts' \in 0..Attempts
             /\ phase' = "starting" => attempts' < Attempts
             /\ workloads' \in [Bindings -> Maybe(Workload)]
             /\ unread' \in SUBSET Bindings
             /\ budget' \in [Changes -> Nat]
<1>14. CreateAnswered \/ Restart \/ Handle \/ TakeSnapshot => Done
  BY <1>1, <1>3, <1>5, <1>7, <1>8, <1>9 DEF Handle
<1>15. (\E applied \in BOOLEAN : CreateFails(applied)) => Done
  BY <1>1, <1>4
<1>16. (\E kind \in StreamKinds : List(kind) \/ LoseWatch(kind)) => Done
  BY <1>1, <1>6
<1>17. (\E kind, x, obj : ChangeObject(kind, x, obj)) => Done
  BY <1>1, <1>10
<1>18. \A k \in Bindings : (\E spec \in Workloads \cup {NoObject} : ChangeWorkload(k, spec)) => Done
  BY <1>1, <1>11
<1>19. \A k \in Bindings : \/ SyncBinding(k)
                           \/ UnSuspendResourceBinding(k) \/ TaskWorker(k) \/ Patching(k)
                           => Done
  BY <1>1, <1>12, <1>13
<1> HIDE DEF Done
<1>20. Done
  BY Zenon, <1>14, <1>15, <1>16, <1>17, <1>18, <1>19 DEF Next
<1> QED
  BY <1>20 DEF Done

\* What a step other than a round's and a patch's does to the dispatch.
LEMMA DispatchKept ==
    ASSUME Next
    PROVE  \/ UNCHANGED <<dispatch, recovered>>
           \/ Restart \/ HandleBinding \/ TakeSnapshot
           \/ \E k \in Bindings : UnSuspendResourceBinding(k) \/ TaskWorker(k) \/ Patching(k)
<1>1. ASSUME NEW k \in Bindings, SyncBinding(k)
      PROVE  UNCHANGED <<dispatch, recovered>>
  BY <1>1 DEF SyncBinding, CreateBinding, UpdateBinding, DeleteBinding
<1>2. ASSUME NEW k, NEW w, ChangeWorkload(k, w)
      PROVE  UNCHANGED <<dispatch, recovered>>
  BY <1>2 DEF ChangeWorkload
<1>3. ASSUME NEW kind, NEW x, NEW obj, ChangeObject(kind, x, obj)
      PROVE  UNCHANGED <<dispatch, recovered>>
  BY <1>3 DEF ChangeObject
<1>4. CASE HandleQueue \/ HandlePriorityClass \/ HandleCluster
  BY <1>4 DEF HandleQueue, HandlePriorityClass, HandleCluster, Take
<1>5. ASSUME NEW kind, List(kind) \/ LoseWatch(kind)
      PROVE  UNCHANGED <<dispatch, recovered>>
  BY <1>5 DEF List, LoseWatch
<1>6. ASSUME NEW applied, CreateAnswered \/ CreateFails(applied)
      PROVE  UNCHANGED <<dispatch, recovered>>
  BY <1>6 DEF CreateAnswered, CreateFails
<1> QED
  BY Zenon, <1>1, <1>2, <1>3, <1>4, <1>5, <1>6 DEF Next, Handle

LEMMA DispatchTyped ==
    ASSUME IInv, Next
    PROVE  /\ session' \in SUBSET Bindings /\ tasks' \in SUBSET Bindings
           /\ patch' \in [Bindings -> {"none", "sent", "failed", "broken"}]
           /\ recovered' \in SUBSET Bindings
<1>1. /\ session \in SUBSET Bindings /\ tasks \in SUBSET Bindings
      /\ patch \in [Bindings -> {"none", "sent", "failed", "broken"}]
      /\ recovered \in SUBSET Bindings
      /\ dc \in Cache
  BY DEF IInv, Typed, TypeOK
<1>2. CASE UNCHANGED <<dispatch, recovered>>
  BY <1>1, <1>2 DEF dispatch
<1>3. CASE Restart
  BY <1>3 DEF Restart
<1>4. CASE HandleBinding
  <2>1. recovered' \subseteq Bindings
    BY <1>4, BindingInfos DEF IInv, BindingInv
  <2>2. UNCHANGED dispatch
    BY <1>4 DEF HandleBinding, Take
  <2> QED
    BY <1>1, <2>1, <2>2 DEF dispatch
<1>5. CASE TakeSnapshot
  <2>1. Seen(dc) \subseteq Bindings
    BY <1>1 DEF Cache, Seen, Live
  <2> QED
    BY <1>1, <1>5, <2>1 DEF TakeSnapshot
<1>6. ASSUME NEW k \in Bindings, UnSuspendResourceBinding(k)
      PROVE  /\ session' \in SUBSET Bindings /\ tasks' \in SUBSET Bindings
             /\ UNCHANGED <<patch, recovered>>
  BY <1>1, <1>6 DEF UnSuspendResourceBinding
<1>7. ASSUME NEW k \in Bindings, TaskWorker(k) \/ Patching(k)
      PROVE  /\ session' = session /\ tasks' \in SUBSET Bindings
             /\ \/ patch' = patch
                \/ \E p \in {"none", "sent", "failed", "broken"} : patch' = [patch EXCEPT ![k] = p]
             /\ recovered' \in SUBSET Bindings
  <2>1. CASE TaskWorker(k)
    BY <1>1, <2>1 DEF TaskWorker
  <2>2. CASE PatchAnswered(k)
    BY <1>1, <2>2 DEF PatchAnswered
  <2>3. CASE PatchRecovers(k)
    BY <1>1, <2>3 DEF PatchRecovers
  <2>4. ASSUME NEW applied \in BOOLEAN, PatchFails(k, applied)
        PROVE  /\ UNCHANGED <<session, tasks, recovered>>
               /\ patch' = [patch EXCEPT ![k] = "failed"]
    BY <2>4 DEF PatchFails
  <2> QED
    BY <1>1, <1>7, <2>1, <2>2, <2>3, <2>4 DEF Patching
<1>8. ASSUME NEW k \in Bindings, TaskWorker(k) \/ Patching(k)
      PROVE  patch' \in [Bindings -> {"none", "sent", "failed", "broken"}]
  BY <1>1, <1>7, <1>8
<1> QED
  BY <1>1, <1>2, <1>3, <1>4, <1>5, <1>6, <1>7, <1>8, DispatchKept

LEMMA TypedStep ==
    ASSUME IInv, Next
    PROVE  Typed'
<1>1. /\ streams' = [kind \in StreamKinds |-> streams'[kind]]
      /\ \A kind \in StreamKinds : StreamTyped(kind)'
      /\ dc' \in Cache
  <2>1. CASE Restart
    <3>1. dc' = FreshCache
      BY <2>1 DEF Restart
    <3> QED
      BY <2>1, <3>1, RestartFresh, EmptyTyped DEF IInv
  <2>2. CASE ~Restart
    BY <2>2, NextParts, StreamsStayTyped DEF Parts
  <2> QED
    BY <2>1, <2>2
<1>2. \A kind \in StreamKinds : /\ (Api(kind) \in [Names[kind] -> Maybe(Objects[kind])])'
                                /\ streams'[kind].watch \in {"unlisted", "on", "lost"}
  BY <1>1 DEF StreamTyped, StreamOK, Api
<1> QED
  BY <1>1, <1>2, RestTyped, DispatchTyped DEF Typed, TypeOK
-----------------------------------------------------------------------------
(* Queues and clusters. *)

LEMMA QueueStep ==
    ASSUME IInv, Next
    PROVE  QueueInv'
<1>1. Typed /\ QueueInv /\ "queues" \in StreamKinds
  BY KindsOf DEF IInv
<1>2. CASE Restart
  <2> DEFINE v == [i \in {0} |-> [x \in Names["queues"] |-> NoObject]]
  <2>1. View("queues", v)'
    BY <1>1, <1>2, RestartFresh
  <2>2. v[0] = dc'.queues
    BY <1>2, KindsOf DEF Restart, FreshCache, EmptyCache
  <2> HIDE DEF v
  <2> QED
    BY <2>1, <2>2 DEF QueueInv
<1>3. CASE HandleQueue
  <2>1. dc \in Cache
    BY <1>1 DEF Typed, TypeOK
  <2>2. PICK w : View("queues", w)' /\ dc' = [dc EXCEPT !.queues = w[0]]
    BY <1>1, <1>3, QueueTaken
  <2>3. dc'.queues = w[0]
    BY <2>1, <2>2 DEF Cache
  <2> QED
    BY <2>2, <2>3 DEF QueueInv
<1>4. CASE MovesOf("queues") /\ dc'.queues = dc.queues
  <2>1. PICK v : View("queues", v) /\ v[0] = dc.queues
    BY <1>1 DEF QueueInv
  <2>2. \E w : View("queues", w)' /\ Carried(streams["queues"], streams'["queues"], v, w, Names["queues"])
    BY <1>1, <1>4, <2>1, KeepView
  <2> QED
    BY <1>4, <2>1, <2>2 DEF QueueInv, Carried
<1> QED
  BY <1>2, <1>3, <1>4, NextParts DEF Parts

LEMMA ClusterStep ==
    ASSUME IInv, Next
    PROVE  ClusterInv'
<1>1. Typed /\ ClusterInv /\ "clusters" \in StreamKinds
  BY KindsOf DEF IInv
<1>2. CASE Restart
  <2> DEFINE v == [i \in {0} |-> [x \in Names["clusters"] |-> NoObject]]
  <2>1. View("clusters", v)'
    BY <1>1, <1>2, RestartFresh
  <2>2. v[0] = [m \in Clusters |-> NoObject] /\ dc'.clusters = [m \in Clusters |-> NoObject]
    BY <1>2, KindsOf DEF Restart, FreshCache, EmptyCache
  <2> HIDE DEF v
  <2>3. ClusterTold(v[0])'
    BY <2>2 DEF ClusterTold
  <2> QED
    BY <2>1, <2>3 DEF ClusterInv
<1>3. CASE HandleCluster
  BY <1>1, <1>3, ClusterTaken
<1>4. CASE MovesOf("clusters") /\ dc'.clusters = dc.clusters
  <2>1. PICK v : View("clusters", v) /\ ClusterTold(v[0])
    BY <1>1 DEF ClusterInv
  <2>2. PICK w : /\ View("clusters", w)'
                 /\ Carried(streams["clusters"], streams'["clusters"], v, w, Names["clusters"])
    BY <1>1, <1>4, <2>1, KeepView
  <2>3. ClusterTold(w[0])'
    BY <1>4, <2>1, <2>2 DEF ClusterTold, Carried
  <2> QED
    BY <2>2, <2>3 DEF ClusterInv
<1> QED
  BY <1>2, <1>3, <1>4, NextParts DEF Parts
-----------------------------------------------------------------------------
(* PriorityClasses. *)

\* Parts of a list of classes with one default have one default.
LEMMA PartsOneDefault ==
    ASSUME NEW N, NEW a, OneDefault(a), DOMAIN a = N, NEW b, DOMAIN b = N,
           \A x \in N : b[x] \in {NoObject, a[x]}
    PROVE  OneDefault(b)
BY DEF OneDefault, Live

\* Admission keeps it that one class is the default.
LEMMA ApiOneDefault ==
    ASSUME IInv, Next
    PROVE  OneDefault(Api("classes"))'
<1>1. /\ Typed /\ OneDefault(Api("classes")) /\ "classes" \in StreamKinds
      /\ Api("classes") \in [Classes -> Maybe(Specs.classes)]
  BY KindsOf DEF IInv, ClassInv, Typed, TypeOK
<1>2. CASE Restart \/ streams'["classes"] = streams["classes"]
  BY <1>1, <1>2, RestartFresh DEF Api
<1>3. CASE \E applied \in BOOLEAN : CreateAnswered \/ CreateFails(applied)
  <2>1. ApplyCreate \/ UNCHANGED streams
    BY <1>3 DEF CreateAnswered, CreateFails
  <2> QED
    BY <1>1, <1>2, <2>1, CreateMoves
<1>4. ASSUME NEW kind \in StreamKinds, List(kind) \/ LoseWatch(kind)
      PROVE  OneDefault(Api("classes"))'
  BY <1>1, <1>4, ListMoves, LoseMoves
<1>5. CASE Handle
  <2>1. HandlePriorityClass => Api("classes")' = Api("classes")
    BY <1>1, ClassTaken DEF IInv, ClassInv, ClassTold
  <2>2. ASSUME NEW kind \in StreamKinds \ {"classes"}, Take(kind)
        PROVE  OneDefault(Api("classes"))'
    BY <1>1, <1>2, <2>2, TakeMoves
  <2> QED
    BY <1>1, <1>5, <2>1, <2>2 DEF Handle, HandleQueue, HandleCluster, HandleBinding, StreamKinds
<1>6. ASSUME NEW kind \in StreamKinds \ {"bindings"}, NEW x \in Names[kind],
             NEW obj \in Specs[kind] \cup {NoObject}, ChangeObject(kind, x, obj)
      PROVE  OneDefault(Api("classes"))'
  <2>1. CASE kind # "classes"
    BY <1>1, <1>2, <1>6, <2>1, ObjectMoves
  <2>2. CASE kind = "classes"
    <3>1. Api("classes")' = [Api("classes") EXCEPT ![x] = obj]
      BY <1>1, <1>6, <2>2, ObjectMoves
    <3>2. obj # NoObject /\ obj.default
            => \A y \in Live(Api("classes")) \ {x} : ~Api("classes")[y].default
      BY <1>6, <2>2 DEF ChangeObject
    <3> DEFINE a == Api("classes")
               b == Api("classes")'
    <3> HIDE DEF a, b
    <3>3. /\ b = [a EXCEPT ![x] = obj] /\ a \in [Classes -> Maybe(Specs.classes)]
          /\ obj # NoObject /\ obj.default => \A y \in Live(a) \ {x} : ~a[y].default
          /\ OneDefault(a)
      BY <1>1, <3>1, <3>2 DEF a, b
    <3>4. OneDefault(b)
      <4> SUFFICES ASSUME NEW c \in Live(b), NEW d \in Live(b), b[c].default, b[d].default
                   PROVE  c = d
        BY DEF OneDefault
      <4>1. \A y \in Live(b) : (y = x /\ b[y] = obj /\ obj # NoObject) \/ (y # x /\ y \in Live(a) /\ b[y] = a[y])
        BY <3>3 DEF Live
      <4> QED
        BY <3>3, <4>1 DEF OneDefault
    <3> QED
      BY <3>4 DEF b
  <2> QED
    BY <2>1, <2>2
<1>7. ASSUME NEW k \in Bindings,
             SyncBinding(k) \/ UnSuspendResourceBinding(k) \/ TaskWorker(k) \/ Patching(k)
      PROVE  OneDefault(Api("classes"))'
  <2>1. SyncBinding(k) \/ ApplyPatch(k) \/ UNCHANGED streams
    BY <1>7 DEF UnSuspendResourceBinding, TaskWorker, Patching, PatchAnswered, PatchFails,
       PatchRecovers
  <2> QED
    BY <1>1, <1>2, <2>1, BindingWrites
<1>8. ASSUME NEW k, NEW spec, ChangeWorkload(k, spec)
      PROVE  OneDefault(Api("classes"))'
  BY <1>2, <1>8 DEF ChangeWorkload
<1>9. CASE TakeSnapshot
  BY <1>2, <1>9 DEF TakeSnapshot
<1> QED
  BY <1>2, <1>3, <1>4, <1>5, <1>6, <1>7, <1>8, <1>9 DEF Next

\* The election of the default from what a handler was told of a class.
LEMMA ElectedRight ==
    ASSUME NEW d \in Cache, NEW n \in Notes("classes"), NEW after, Tells(n, d.classes, after),
           NEW e, e = Elected(d, n),
           d.default # NoObject => /\ d.classes[d.default.name] = d.default.class
                                   /\ d.default.class.default
    PROVE  /\ e # NoObject => after[e.name] = e.class /\ e.class.default
           /\ /\ OneDefault(d.classes) /\ OneDefault(after)
              /\ \A c \in Live(d.classes) :
                   d.classes[c].default <=> d.default # NoObject /\ d.default.name = c
              => \A c \in Live(after) : after[c].default <=> e # NoObject /\ e.name = c
<1>1. /\ n.name \in Classes /\ n.new \in Maybe(Specs.classes)
      /\ d.classes \in [Classes -> Maybe(Specs.classes)] /\ d.default \in Maybe(Default)
      /\ after = [d.classes EXCEPT ![n.name] = n.new] /\ n.old = d.classes[n.name]
  BY KindsOf DEF Notes, Cache, Tells
<1>2. /\ d.default # NoObject => d.default.name \in Classes /\ d.default.class # NoObject
      /\ \A x, y : [name |-> x, class |-> y] # NoObject \/ x \notin Classes \/ y \notin Specs.classes
  <2>1. NoObject \notin Specs.classes /\ NoObject \notin Default
    BY CacheViewAssumption
  <2> QED
    BY <1>1, <2>1 DEF Maybe, Default
<1>3. \A c \in Classes : after[c] = IF c = n.name THEN n.new ELSE d.classes[c]
  BY <1>1
<1>4. CASE Unchanged(n)
  <2>1. e = d.default /\ after = d.classes
    BY <1>1, <1>4 DEF Elected, Unchanged
  <2> QED
    BY <2>1
<1>5. CASE ~Unchanged(n) /\ n.new # NoObject /\ n.new.default
  <2>1. e = [name |-> n.name, class |-> n.new] /\ e # NoObject
    BY <1>1, <1>2, <1>5 DEF Elected, Maybe
  <2>2. after[n.name] = n.new
    BY <1>1, <1>3
  <2>3. OneDefault(after) => \A c \in Live(after) : after[c].default <=> n.name = c
    <3>1. n.name \in Live(after)
      BY <1>1, <1>5, <2>2 DEF Live
    <3> QED
      BY <1>5, <2>2, <3>1 DEF OneDefault
  <2> QED
    BY <1>5, <2>1, <2>2, <2>3
<1>6. CASE ~Unchanged(n) /\ ~(n.new # NoObject /\ n.new.default) /\ n.old # NoObject /\ n.old.default
  <2>1. e = NoObject
    BY <1>6 DEF Elected
  <2>2. n.name \in Live(d.classes) /\ d.classes[n.name].default
    BY <1>1, <1>6 DEF Live
  <2>3. OneDefault(d.classes) => \A c \in Live(after) : ~after[c].default
    <3>1. ASSUME OneDefault(d.classes), NEW c \in Live(after), after[c].default
          PROVE  FALSE
      <4>1. c \in Classes /\ after[c] # NoObject
        BY <1>1 DEF Live
      <4>2. c # n.name
        BY <1>3, <1>6, <3>1, <4>1
      <4>3. c \in Live(d.classes) /\ d.classes[c].default
        BY <1>1, <1>3, <3>1, <4>1, <4>2 DEF Live
      <4> QED
        BY <2>2, <3>1, <4>2, <4>3 DEF OneDefault
    <3> QED
      BY <3>1
  <2> QED
    BY <2>1, <2>3
<1>7. CASE ~Unchanged(n) /\ ~(n.new # NoObject /\ n.new.default) /\ ~(n.old # NoObject /\ n.old.default)
  <2>1. e = d.default
    BY <1>7 DEF Elected
  <2>2. d.default # NoObject => d.default.name # n.name
    BY <1>1, <1>2, <1>7
  <2>3. e # NoObject => after[e.name] = e.class /\ e.class.default
    BY <1>2, <1>3, <2>1, <2>2
  <2>4. ASSUME \A c \in Live(d.classes) :
                 d.classes[c].default <=> d.default # NoObject /\ d.default.name = c,
               NEW c \in Live(after)
        PROVE  after[c].default <=> e # NoObject /\ e.name = c
    <3>1. c \in Classes /\ after[c] # NoObject
      BY <1>1 DEF Live
    <3>2. CASE c = n.name
      BY <1>3, <1>7, <2>1, <2>2, <3>1, <3>2
    <3>3. CASE c # n.name
      <4>1. after[c] = d.classes[c] /\ c \in Live(d.classes)
        BY <1>1, <1>3, <3>1, <3>3 DEF Live
      <4> QED
        BY <2>1, <2>4, <4>1
    <3> QED
      BY <3>2, <3>3
  <2> QED
    BY <2>3, <2>4
<1> QED
  BY <1>4, <1>5, <1>6, <1>7

LEMMA ClassStep ==
    ASSUME IInv, Next
    PROVE  ClassInv'
<1>1. /\ Typed /\ NoStaleDefault /\ "classes" \in StreamKinds /\ Names["classes"] = Classes
      /\ dc \in Cache /\ OneDefault(Api("classes"))' /\ Typed'
  BY KindsOf, ApiOneDefault, TypedStep DEF IInv, ClassInv, Typed, TypeOK
<1>2. PICK v : View("classes", v) /\ ClassTold(v)
  BY DEF IInv, ClassInv
<1>3. CASE Restart
  <2> DEFINE w == [i \in {0} |-> [x \in Names["classes"] |-> NoObject]]
  <2>1. View("classes", w)'
    BY <1>1, <1>3, RestartFresh
  <2>2. /\ w[0] = [c \in Classes |-> NoObject] /\ dc'.classes = [c \in Classes |-> NoObject]
        /\ dc'.default = NoObject /\ \A i \in DOMAIN w : w[i] = w[0]
    BY <1>1, <1>3 DEF Restart, FreshCache, EmptyCache
  <2> HIDE DEF w
  <2>3. ClassTold(w)' /\ NoStaleDefault'
    BY <2>2 DEF ClassTold, NoStaleDefault, DefaultIs, OneDefault, Live
  <2> QED
    BY <1>1, <2>1, <2>3 DEF ClassInv
<1>4. CASE HandlePriorityClass
  <2> DEFINE n == FirstOf("classes")
             e == Elected(dc, n)
  <2>1. PICK w : /\ View("classes", w)'
                 /\ Passed(n, v, w)
                 /\ dc' = [dc EXCEPT !.classes = w[0], !.default = e]
                 /\ n \in Notes("classes")
                 /\ streams'["classes"].intact = streams["classes"].intact
    BY <1>1, <1>2, <1>4, ClassTaken DEF ClassTold
  <2>2. dc'.classes = w[0] /\ dc'.default = e
    BY <1>1, <2>1 DEF Cache
  <2>3. Tells(n, dc.classes, w[0])
    BY <1>2, <2>1 DEF Passed, ClassTold
  <2>4. /\ e # NoObject => w[0][e.name] = e.class /\ e.class.default
        /\ /\ OneDefault(dc.classes) /\ OneDefault(w[0])
           /\ \A c \in Live(dc.classes) :
                dc.classes[c].default <=> dc.default # NoObject /\ dc.default.name = c
           => \A c \in Live(w[0]) : w[0][c].default <=> e # NoObject /\ e.name = c
    <3> HIDE DEF n
    <3> QED
      BY <1>1, <2>1, <2>3, ElectedRight DEF NoStaleDefault
  <2>5. 0 \in DOMAIN v /\ 0 \in DOMAIN w
    <3>1. Len(streams["classes"].events) \in Nat /\ Len(streams'["classes"].events) \in Nat
      BY <1>1 DEF Typed, StreamTyped, StreamOK
    <3> QED
      BY <1>2, <2>1, <3>1 DEF View, Replay
  <2> HIDE DEF n, e
  <2>6. ASSUME streams'["classes"].intact
        PROVE  DefaultIs' /\ \A i \in DOMAIN w : OneDefault(w[i])
    <3>1. DefaultIs /\ \A i \in DOMAIN v : OneDefault(v[i])
      BY <1>2, <2>1, <2>6 DEF ClassTold
    <3>2. \A i \in DOMAIN w : OneDefault(w[i])
      BY <2>1, <3>1 DEF Passed
    <3>3. OneDefault(dc.classes) /\ OneDefault(w[0])
      BY <1>2, <2>5, <3>1, <3>2 DEF ClassTold
    <3> QED
      BY <2>2, <2>4, <3>1, <3>2, <3>3 DEF DefaultIs
  <2>7. ClassTold(w)'
    BY <2>2, <2>6 DEF ClassTold
  <2>8. NoStaleDefault'
    BY <2>2, <2>4 DEF NoStaleDefault
  <2> QED
    BY <1>1, <2>1, <2>7, <2>8 DEF ClassInv
<1>5. CASE MovesOf("classes") /\ dc'.classes = dc.classes /\ dc'.default = dc.default
  <2>1. PICK w : /\ View("classes", w)'
                 /\ Carried(streams["classes"], streams'["classes"], v, w, Names["classes"])
    BY <1>1, <1>2, <1>5, KeepView
  <2>2. ASSUME streams'["classes"].intact
        PROVE  DefaultIs' /\ \A i \in DOMAIN w : OneDefault(w[i])
    <3>1. streams["classes"].intact
      BY <2>1, <2>2 DEF Carried
    <3>2. DefaultIs /\ \A i \in DOMAIN v : OneDefault(v[i])
      BY <1>2, <3>1 DEF ClassTold
    <3>3. DOMAIN Api("classes")' = Classes /\ \A i \in DOMAIN w : DOMAIN w[i] = Classes
      BY <1>1, <2>1 DEF View, Replay, Typed, StreamTyped, StreamOK, Api
    <3>4. ASSUME NEW i \in DOMAIN w
          PROVE  OneDefault(w[i])
      <4>1. CASE \E j \in DOMAIN v : w[i] = v[j]
        BY <3>2, <4>1
      <4>2. CASE \A x \in Classes : w[i][x] \in {NoObject, Api("classes")'[x]}
        <5> DEFINE a == Api("classes")'
                   b == w[i]
        <5>1. OneDefault(a) /\ DOMAIN a = Classes /\ DOMAIN b = Classes
              /\ \A x \in Classes : b[x] \in {NoObject, a[x]}
          BY <1>1, <3>3, <4>2
        <5> HIDE DEF a, b
        <5>2. OneDefault(b)
          BY <5>1, PartsOneDefault
        <5> QED
          BY <5>2 DEF b
      <4> QED
        BY <1>1, <2>1, <2>2, <4>1, <4>2 DEF Carried, Api
    <3> QED
      BY <1>5, <3>2, <3>4 DEF DefaultIs
  <2>3. w[0] = dc'.classes
    BY <1>2, <1>5, <2>1 DEF Carried, ClassTold
  <2>4. ClassTold(w)'
    BY <2>2, <2>3 DEF ClassTold
  <2>5. NoStaleDefault'
    BY <1>1, <1>5 DEF NoStaleDefault
  <2> QED
    BY <1>1, <2>1, <2>4, <2>5 DEF ClassInv
<1> QED
  BY <1>3, <1>4, <1>5, NextParts DEF Parts
-----------------------------------------------------------------------------
(* Bindings. *)

\* A step that leaves every binding genuine and every info fitting what its
\* handler was told keeps the invariant.
LEMMA BindingCarried ==
    ASSUME Typed, BindingInv, MovesOf("bindings"),
           \A k \in Bindings : Genuine(k, Api("bindings")[k])',
           \A k \in Bindings, rb \in Maybe(Binding) : Genuine(k, rb) => Genuine(k, rb)',
           \A k \in Bindings, rb \in Maybe(Binding) :
             Genuine(k, rb) /\ InfoFits(k, rb) => InfoFits(k, rb)'
    PROVE  BindingInv'
<1>1. /\ "bindings" \in StreamKinds /\ Names["bindings"] = Bindings
      /\ Maybe(Objects["bindings"]) = Maybe(Binding)
      /\ Api("bindings") \in [Bindings -> Maybe(Binding)]
  BY KindsOf DEF Typed, TypeOK
<1>2. PICK v : View("bindings", v) /\ BindingTold(v)
  BY DEF BindingInv
<1>3. PICK w : /\ View("bindings", w)'
               /\ Carried(streams["bindings"], streams'["bindings"], v, w, Names["bindings"])
  BY <1>1, <1>2, KeepView
<1>4. /\ 0 \in DOMAIN v /\ w[0] = v[0]
      /\ \A i \in DOMAIN v, k \in Bindings : v[i][k] \in Maybe(Binding)
  <2>1. Len(streams["bindings"].events) \in Nat
    BY <1>1 DEF Typed, StreamTyped, StreamOK
  <2> QED
    BY <1>1, <1>2, <1>3, <2>1 DEF View, Replay, Carried
<1>5. ASSUME NEW k \in Bindings
      PROVE  /\ InfoFits(k, w[0][k])'
             /\ \A i \in DOMAIN w : Genuine(k, w[i][k])'
  <2>1. /\ InfoFits(k, v[0][k]) /\ Genuine(k, Api("bindings")[k])
        /\ \A i \in DOMAIN v : Genuine(k, v[i][k])
    BY <1>2 DEF BindingTold, BindingInv
  <2>2. InfoFits(k, v[0][k])'
    BY <1>4, <2>1
  <2>3. ASSUME NEW i \in DOMAIN w
        PROVE  Genuine(k, w[i][k])'
    <3>1. \/ \E j \in DOMAIN v : w[i][k] = v[j][k]
          \/ w[i][k] = Api("bindings")[k]
          \/ w[i][k] = Api("bindings")'[k]
      BY <1>1, <1>3 DEF Carried, Api
    <3>2. ASSUME NEW j \in DOMAIN v, w[i][k] = v[j][k]
          PROVE  Genuine(k, w[i][k])'
      <4>1. Genuine(k, v[j][k])'
        BY <1>4, <2>1
      <4> QED
        BY <3>2, <4>1
    <3>3. CASE w[i][k] = Api("bindings")[k]
      <4>1. PICK a \in Maybe(Binding) : a = Api("bindings")[k] /\ Genuine(k, a)
        BY <1>1, <2>1
      <4>2. Genuine(k, a)' /\ w[i][k] = a
        BY <3>3, <4>1
      <4> QED
        BY <4>2
    <3>4. CASE w[i][k] = Api("bindings")'[k]
      <4>1. PICK b : b = Api("bindings")'[k]
        OBVIOUS
      <4>2. Genuine(k, Api("bindings")[k])'
        OBVIOUS
      <4>3. Genuine(k, b)'
        BY <4>1, <4>2 DEF Genuine, Admitted
      <4> QED
        BY <3>4, <4>1, <4>3
    <3> QED
      BY <3>1, <3>2, <3>3, <3>4
  <2> QED
    BY <1>4, <2>2, <2>3
<1>6. BindingTold(w)'
  BY <1>5 DEF BindingTold
<1> QED
  BY <1>3, <1>6 DEF BindingInv

\* The handler leaves the info of the binding it was told of as it should be.
LEMMA BindingHandledRight ==
    ASSUME NEW k \in Bindings, NEW n \in Notes("bindings"), n.name = k,
           dc \in Cache, workloads \in [Bindings -> Maybe(Workload)],
           InfoFits(k, n.old), Genuine(k, n.new),
           NEW got \in Maybe(Templates(Queues, Classes)), Got(n, got),
           got # NoObject => workloads[k] # NoObject /\ got = workloads[k].spec,
           Api("bindings")' = Api("bindings"), workloads' = workloads
    PROVE  InfoFits(k, n.new)'
<1>1. /\ dc.infos \in [Bindings -> Maybe(Info)]
      /\ n.new \in Maybe(Binding)
  BY KindsOf DEF Cache, Notes
<1>2. CASE n.new = NoObject
  <2>1. dc'.infos[k] = NoObject
    BY <1>1, <1>2 DEF Got, Cache
  <2> QED
    BY <1>2, <2>1 DEF InfoFits
<1>3. CASE n.new # NoObject /\ Unchanged(n)
  <2>1. dc' = dc /\ unread' = unread /\ recovered' = recovered /\ n.old = n.new
    BY <1>3 DEF Got, Unchanged
  <2> QED
    BY <2>1 DEF InfoFits
<1>4. CASE n.new # NoObject /\ ~Unchanged(n) /\ (~Reads(n.new) \/ got = NoObject)
  <2>1. dc' = dc /\ (~Reads(n.new) \/ k \in unread')
    BY <1>4 DEF Got
  <2> QED
    BY <1>4, <2>1 DEF InfoFits, Api
<1>5. CASE n.new # NoObject /\ ~Unchanged(n) /\ Reads(n.new) /\ got # NoObject
  <2>1. dc' = [dc EXCEPT !.infos[k] = InfoOf(n.new, got)]
    BY <1>5 DEF Got
  <2>2. dc'.infos[k] = InfoOf(n.new, got)
    BY <1>1, <2>1 DEF Cache
  <2>3. n.new \in Binding /\ got \in Templates(Queues, Classes)
    BY <1>1, <1>5 DEF Maybe
  <2>4. /\ dc'.infos[k] # NoObject
        /\ dc'.infos[k].queue = NewWorkload(got).queue
        /\ dc'.infos[k].class = got.class
        /\ dc'.infos[k].status = "Suspended" <=> n.new.suspended
        /\ dc'.infos[k].status = "UnSuspended" <=> ~n.new.suspended
    BY <2>2, <2>3, InfoType
  <2>5. workloads[k] # NoObject /\ got = workloads[k].spec /\ workloads' = workloads
    BY <1>5
  <2>6. TryGetNewWorkloadFunc(workloads[k].spec.kind) = "workload"
    BY <1>5, <2>5 DEF Genuine, Admitted, Reads
  <2> QED
    BY <1>5, <2>4, <2>5, <2>6 DEF InfoFits
<1> QED
  BY <1>2, <1>3, <1>4, <1>5

LEMMA BindingHandled ==
    ASSUME Typed, BindingInv, HandleBinding
    PROVE  BindingInv'
<1>1. /\ Names["bindings"] = Bindings /\ Maybe(Objects["bindings"]) = Maybe(Binding)
      /\ dc \in Cache /\ dc.infos \in [Bindings -> Maybe(Info)]
      /\ workloads \in [Bindings -> Maybe(Workload)] /\ workloads' = workloads
  BY KindsOf DEF Typed, TypeOK, Cache, HandleBinding, Take
<1>2. PICK v : View("bindings", v) /\ BindingTold(v)
  BY DEF BindingInv
<1>3. PICK n \in Notes("bindings") :
        /\ Api("bindings")' = Api("bindings")
        /\ \E w : View("bindings", w)' /\ Passed(n, v, w)
        /\ \E got \in Maybe(Templates(Queues, Classes)) :
             /\ got # NoObject => workloads[n.name] # NoObject /\ got = workloads[n.name].spec
             /\ Got(n, got)
  BY <1>2, BindingTaken
<1>4. PICK w : View("bindings", w)' /\ Passed(n, v, w)
  BY <1>3
<1>5. PICK got \in Maybe(Templates(Queues, Classes)) :
        /\ got # NoObject => workloads[n.name] # NoObject /\ got = workloads[n.name].spec
        /\ Got(n, got)
  BY <1>3
<1>6. /\ 0 \in DOMAIN w /\ n.name \in Bindings
      /\ v[0] \in [Bindings -> Maybe(Binding)]
  <2>1. /\ Len(streams["bindings"].events) \in Nat
        /\ Len(streams["bindings"].events)' \in Nat
    <3>1. StreamTyped("bindings")
      BY KindsOf DEF Typed
    <3>2. streams["bindings"].events \in Seq(Notes("bindings"))
      BY <3>1 DEF StreamTyped, StreamOK, Notes
    <3>3. streams'["bindings"].events = Tail(streams["bindings"].events)
          /\ streams["bindings"].events # << >>
      <4>1. Take("bindings") /\ "bindings" \in StreamKinds
        BY KindsOf DEF HandleBinding
      <4>2. streams'["bindings"] = [streams["bindings"] EXCEPT !.events = Tail(@)]
        BY <4>1, TakeMoves
      <4>3. "events" \in DOMAIN streams["bindings"]
        BY <3>1 DEF StreamTyped, StreamOK
      <4> QED
        BY <4>1, <4>2, <4>3 DEF Take
    <3> QED
      BY <3>2, <3>3
  <2>2. 0 \in 0..Len(streams["bindings"].events) /\ 0 \in 0..Len(streams["bindings"].events)'
    BY <2>1
  <2> QED
    BY <1>1, <1>2, <1>4, <2>2 DEF View, Replay, Notes
<1>7. /\ n.old = v[0][n.name] /\ n.new = w[0][n.name]
      /\ \A k \in Bindings \ {n.name} : w[0][k] = v[0][k]
  BY <1>4, <1>6 DEF Passed, Tells
<1>8. ASSUME NEW k \in Bindings, NEW i \in DOMAIN w
      PROVE  Genuine(k, w[i][k])'
  <2>1. PICK j \in DOMAIN v : w[i] = v[j]
    BY <1>4 DEF Passed
  <2>2. Genuine(k, v[j][k])
    BY <1>2 DEF BindingTold
  <2>3. Genuine(k, v[j][k])'
    BY <1>1, <1>3, <2>2 DEF Genuine
  <2> QED
    BY <2>1, <2>3
<1>9. ASSUME NEW k \in Bindings
      PROVE  InfoFits(k, w[0][k])'
  <2>1. InfoFits(k, v[0][k])
    BY <1>2 DEF BindingTold
  <2>2. CASE k # n.name
    <3>1. dc'.infos[k] = dc.infos[k] /\ (k \in unread' <=> k \in unread)
          /\ (k \in recovered' <=> k \in recovered)
      BY <1>1, <1>5, <2>2 DEF Got, Cache
    <3>2. w[0][k] = v[0][k]
      BY <1>7, <2>2
    <3> QED
      BY <1>1, <1>3, <2>1, <3>1, <3>2 DEF InfoFits
  <2>3. CASE k = n.name
    <3>1. PICK j \in DOMAIN v : w[0] = v[j]
      BY <1>4, <1>6 DEF Passed
    <3>2. Genuine(k, n.new)
      BY <1>2, <1>7, <2>3, <3>1 DEF BindingTold
    <3>3. InfoFits(k, n.old)
      BY <1>7, <2>1, <2>3
    <3>4. InfoFits(k, n.new)'
      BY <1>1, <1>3, <1>5, <2>3, <3>2, <3>3, BindingHandledRight
    <3> QED
      BY <1>7, <2>3, <3>4
  <2> QED
    BY <2>2, <2>3
<1>10. BindingTold(w)'
  BY <1>8, <1>9 DEF BindingTold
<1>11. \A k \in Bindings : Genuine(k, Api("bindings")[k])'
  <2> SUFFICES ASSUME NEW k \in Bindings
               PROVE  Genuine(k, Api("bindings")[k])'
    OBVIOUS
  <2>1. Genuine(k, Api("bindings")[k])
    BY DEF BindingInv
  <2> QED
    BY <1>1, <1>3, <2>1 DEF Genuine
<1> QED
  BY <1>4, <1>10, <1>11 DEF BindingInv

\* Nothing that an info is judged by changes but its status: priorities may.
LEMMA BindingKept ==
    ASSUME Typed, BindingInv, MovesOf("bindings"), Api("bindings")' = Api("bindings"),
           workloads' = workloads, unread' = unread, recovered \subseteq recovered',
           \A k \in Bindings :
             /\ dc'.infos[k] = NoObject <=> dc.infos[k] = NoObject
             /\ dc.infos[k] # NoObject => /\ dc'.infos[k].queue = dc.infos[k].queue
                                          /\ dc'.infos[k].class = dc.infos[k].class
                                          /\ \/ dc'.infos[k].status = dc.infos[k].status
                                             \/ dc'.infos[k].status = "UnSuspending"
                                             \/ /\ dc'.infos[k].status = "Suspended"
                                                /\ k \in recovered'
    PROVE  BindingInv'
<1>1. ASSUME NEW k \in Bindings, NEW rb, Genuine(k, rb)
      PROVE  Genuine(k, rb)'
  BY <1>1 DEF Genuine
<1>2. ASSUME NEW k \in Bindings, NEW rb \in Maybe(Binding), InfoFits(k, rb)
      PROVE  InfoFits(k, rb)'
  BY <1>2 DEF InfoFits
<1>3. ASSUME NEW k \in Bindings
      PROVE  Genuine(k, Api("bindings")[k])'
  <2>1. Genuine(k, Api("bindings")[k])
    BY DEF BindingInv
  <2> QED
    BY <2>1 DEF Genuine
<1> QED
  BY <1>1, <1>2, <1>3, BindingCarried

\* One binding is written, and only its info may change.
LEMMA BindingWritten ==
    ASSUME Typed, BindingInv, NEW x \in Bindings, NEW obj \in Maybe(Binding),
           obj # NoObject \/ Api("bindings")[x] # NoObject,
           WriteTo("bindings", x, obj), workloads' = workloads, unread' = unread,
           recovered' = recovered,
           \A k \in Bindings \ {x} : dc'.infos[k] = dc.infos[k],
           Genuine(x, obj)',
           \A rb \in Maybe(Binding) : Genuine(x, rb) => Genuine(x, rb)',
           \A rb \in Maybe(Binding) : Genuine(x, rb) /\ InfoFits(x, rb) => InfoFits(x, rb)'
    PROVE  BindingInv'
<1>1. /\ MovesOf("bindings")
      /\ Api("bindings")'[x] = obj
      /\ \A k \in Bindings \ {x} : Api("bindings")'[k] = Api("bindings")[k]
  <2>1. /\ x \in Names["bindings"] /\ "bindings" \in StreamKinds
        /\ obj \in Maybe(Objects["bindings"])
        /\ Api("bindings") \in [Bindings -> Maybe(Binding)]
    BY KindsOf DEF Typed, TypeOK
  <2>2. MovesOf("bindings") /\ Api("bindings")' = [Api("bindings") EXCEPT ![x] = obj]
    BY <2>1, WriteMoves
  <2> QED
    BY <2>1, <2>2
<1>2. ASSUME NEW k \in Bindings, NEW rb \in Maybe(Binding), Genuine(k, rb)
      PROVE  Genuine(k, rb)'
  <2>1. CASE k = x
    BY <1>2, <2>1
  <2>2. CASE k # x
    <3>1. Api("bindings")'[k] = Api("bindings")[k]
      BY <1>1, <2>2
    <3> QED
      BY <1>2, <3>1 DEF Genuine
  <2> QED
    BY <2>1, <2>2
<1>3. ASSUME NEW k \in Bindings, NEW rb \in Maybe(Binding), Genuine(k, rb), InfoFits(k, rb)
      PROVE  InfoFits(k, rb)'
  <2>1. CASE k = x
    BY <1>3, <2>1
  <2>2. CASE k # x
    <3>1. Api("bindings")'[k] = Api("bindings")[k] /\ dc'.infos[k] = dc.infos[k]
      BY <1>1, <2>2
    <3> QED
      BY <1>3, <3>1 DEF InfoFits
  <2> QED
    BY <2>1, <2>2
<1>4. ASSUME NEW k \in Bindings
      PROVE  Genuine(k, Api("bindings")[k])'
  <2>1. CASE k = x
    <3>1. obj = Api("bindings")'[k]
      BY <1>1, <2>1
    <3> QED
      BY <2>1, <3>1 DEF Genuine, Admitted
  <2>2. CASE k # x
    <3>1. Api("bindings")'[k] = Api("bindings")[k]
      BY <1>1, <2>2
    <3>2. Genuine(k, Api("bindings")[k])
      BY DEF BindingInv
    <3> QED
      BY <3>1, <3>2 DEF Genuine
  <2> QED
    BY <2>1, <2>2
<1> QED
  BY <1>1, <1>2, <1>3, <1>4, BindingCarried

\* A binding that is created is as the webhook leaves it.
LEMMA CreatedRight ==
    ASSUME Typed, BindingInv, NEW x \in Bindings, CreateBinding(x)
    PROVE  BindingInv'
<1>1. /\ workloads \in [Bindings -> Maybe(Workload)]
      /\ workloads[x] # NoObject /\ Api("bindings")[x] = NoObject
      /\ dc' = dc /\ workloads' = workloads /\ unread' = unread
      /\ recovered' = recovered
  BY DEF Typed, TypeOK, CreateBinding
<1>2. PICK asked \in BOOLEAN :
        WriteTo("bindings", x,
                [kind |-> workloads[x].spec.kind, ref |-> workloads[x].version, asked |-> asked,
                 suspended |-> ResourceBindings(workloads[x].spec.kind, asked).suspended])
  BY DEF CreateBinding
<1>3. PICK obj :
        obj = [kind |-> workloads[x].spec.kind, ref |-> workloads[x].version, asked |-> asked,
               suspended |-> ResourceBindings(workloads[x].spec.kind, asked).suspended]
  OBVIOUS
<1>4. workloads[x].version \in Nat /\ workloads[x].spec.kind \in Kinds
  BY <1>1, CacheViewAssumption DEF Maybe, Workload, Templates
<1>5. ResourceBindings(workloads[x].spec.kind, asked).suspended
      = (asked \/ TryGetNewWorkloadFunc(workloads[x].spec.kind) = "workload")
  BY DEF ResourceBindings
<1>6. obj \in Binding /\ obj # NoObject
  <2>1. obj \in Binding
    BY <1>3, <1>4, <1>5 DEF Binding
  <2> QED
    BY <2>1, CacheViewAssumption
<1>7. Admitted(obj, workloads[x])
  BY <1>3, <1>4, <1>5 DEF Admitted, Reads
<1>8. Api("bindings")'[x] = obj
  <2>1. /\ x \in Names["bindings"] /\ "bindings" \in StreamKinds
        /\ obj \in Maybe(Objects["bindings"])
        /\ Api("bindings") \in [Bindings -> Maybe(Binding)]
    BY <1>6, KindsOf DEF Typed, TypeOK, Maybe
  <2>2. Api("bindings")' = [Api("bindings") EXCEPT ![x] = obj]
    BY <1>2, <1>3, <1>6, <2>1, WriteMoves
  <2> QED
    BY <2>1, <2>2
<1>9. Genuine(x, obj)'
  BY <1>1, <1>6, <1>7, <1>8 DEF Genuine
<1>10. \A rb : Genuine(x, rb) => rb = NoObject
  BY <1>1 DEF Genuine
<1>11. Genuine(x, NoObject)' /\ (InfoFits(x, NoObject) => InfoFits(x, NoObject)')
  BY <1>1 DEF Genuine, InfoFits
<1> QED
  BY <1>1, <1>2, <1>3, <1>6, <1>9, <1>10, <1>11, BindingWritten DEF Maybe

\* Karmada brings the reference up to date.
LEMMA UpdatedRight ==
    ASSUME Typed, BindingInv, NEW x \in Bindings, UpdateBinding(x)
    PROVE  BindingInv'
<1>1. /\ workloads \in [Bindings -> Maybe(Workload)]
      /\ Api("bindings") \in [Bindings -> Maybe(Binding)]
      /\ workloads[x] # NoObject /\ Api("bindings")[x] # NoObject
      /\ dc' = dc /\ workloads' = workloads /\ unread' = unread
      /\ recovered' = recovered
      /\ WriteTo("bindings", x, [Api("bindings")[x] EXCEPT !.ref = workloads[x].version])
  BY KindsOf DEF Typed, TypeOK, UpdateBinding
<1>2. PICK old \in Binding : old = Api("bindings")[x]
  BY <1>1 DEF Maybe
<1>3. PICK obj : obj = [old EXCEPT !.ref = workloads[x].version]
  OBVIOUS
<1>4. workloads[x].version \in Nat
  BY <1>1, CacheViewAssumption DEF Maybe, Workload
<1>5. /\ obj \in Binding /\ obj.kind = old.kind /\ obj.ref = workloads[x].version
      /\ obj.asked = old.asked /\ obj.suspended = old.suspended
  BY <1>2, <1>3, <1>4 DEF Binding
<1>6. obj # NoObject
  BY <1>5, CacheViewAssumption
<1>7. Admitted(obj, workloads[x])
  <2>1. Admitted(old, workloads[x])
    BY <1>1, <1>2 DEF BindingInv, Genuine
  <2> QED
    BY <1>4, <1>5, <2>1 DEF Admitted, Reads
<1>8. Api("bindings")'[x] = obj
  <2>1. /\ x \in Names["bindings"] /\ "bindings" \in StreamKinds
        /\ obj \in Maybe(Objects["bindings"])
    BY <1>5, KindsOf DEF Maybe
  <2>2. Api("bindings")' = [Api("bindings") EXCEPT ![x] = obj]
    BY <1>1, <1>2, <1>3, <1>6, <2>1, WriteMoves
  <2> QED
    BY <1>1, <2>2
<1>9. Genuine(x, obj)'
  BY <1>1, <1>6, <1>7, <1>8 DEF Genuine
<1>10. ASSUME NEW rb, Genuine(x, rb)
       PROVE  Genuine(x, rb)'
  BY <1>1, <1>6, <1>8, <1>10 DEF Genuine
<1>11. ASSUME NEW rb, InfoFits(x, rb)
       PROVE  InfoFits(x, rb)'
  BY <1>1, <1>2, <1>5, <1>6, <1>8, <1>11 DEF InfoFits
<1> QED
  BY <1>1, <1>2, <1>3, <1>5, <1>6, <1>9, <1>10, <1>11, BindingWritten DEF Maybe

\* A binding is deleted when its workload is gone.
LEMMA DeletedRight ==
    ASSUME Typed, BindingInv, NEW x \in Bindings, DeleteBinding(x)
    PROVE  BindingInv'
<1>1. /\ workloads[x] = NoObject /\ Api("bindings")[x] # NoObject
      /\ dc' = dc /\ workloads' = workloads /\ unread' = unread
      /\ recovered' = recovered
      /\ WriteTo("bindings", x, NoObject) /\ NoObject \in Maybe(Binding)
  BY DEF DeleteBinding, Maybe
<1>2. Api("bindings")'[x] = NoObject
  <2>1. /\ x \in Names["bindings"] /\ "bindings" \in StreamKinds
        /\ NoObject \in Maybe(Objects["bindings"])
        /\ Api("bindings") \in [Bindings -> Maybe(Binding)]
    BY KindsOf DEF Typed, TypeOK
  <2>2. Api("bindings")' = [Api("bindings") EXCEPT ![x] = NoObject]
    BY <1>1, <2>1, WriteMoves
  <2> QED
    BY <2>1, <2>2
<1>3. ASSUME NEW rb, Genuine(x, rb)
      PROVE  Genuine(x, rb)'
  BY <1>1, <1>3 DEF Genuine
<1>4. ASSUME NEW rb, InfoFits(x, rb)
      PROVE  InfoFits(x, rb)'
  BY <1>1, <1>2, <1>4 DEF InfoFits
<1>5. Genuine(x, NoObject)'
  BY DEF Genuine
<1> QED
  BY <1>1, <1>3, <1>4, <1>5, BindingWritten

\* A patch takes effect.
LEMMA PatchedRight ==
    ASSUME Typed, BindingInv, NEW x \in Bindings, ApplyPatch(x),
           dc' = dc, workloads' = workloads, unread' = unread, recovered' = recovered,
           Api("bindings")[x].suspended
    PROVE  BindingInv'
<1>1. /\ Api("bindings") \in [Bindings -> Maybe(Binding)]
      /\ Api("bindings")[x] # NoObject
      /\ WriteTo("bindings", x, [Api("bindings")[x] EXCEPT !.suspended = FALSE])
  BY KindsOf DEF Typed, TypeOK, ApplyPatch
<1>2. PICK old \in Binding : old = Api("bindings")[x]
  BY <1>1 DEF Maybe
<1>3. PICK obj : obj = [old EXCEPT !.suspended = FALSE]
  OBVIOUS
<1>4. /\ obj \in Binding /\ obj.kind = old.kind /\ obj.ref = old.ref /\ obj.suspended = FALSE
  BY <1>2, <1>3 DEF Binding
<1>5. obj # NoObject
  BY <1>4, CacheViewAssumption
<1>6. Api("bindings")'[x] = obj
  <2>1. /\ x \in Names["bindings"] /\ "bindings" \in StreamKinds
        /\ obj \in Maybe(Objects["bindings"])
    BY <1>4, KindsOf DEF Maybe
  <2>2. Api("bindings")' = [Api("bindings") EXCEPT ![x] = obj]
    BY <1>1, <1>2, <1>3, <1>5, <2>1, WriteMoves
  <2> QED
    BY <1>1, <2>2
<1>7. Genuine(x, obj)'
  <2>1. Genuine(x, old)
    BY <1>2 DEF BindingInv
  <2>2. old # NoObject
    BY <1>1, <1>2
  <2> QED
    BY <1>1, <1>4, <1>5, <1>6, <2>1, <2>2 DEF Genuine, Admitted
<1>8. ASSUME NEW rb, Genuine(x, rb)
      PROVE  Genuine(x, rb)'
  BY <1>1, <1>5, <1>6, <1>8 DEF Genuine
<1>9. ASSUME NEW rb, InfoFits(x, rb)
      PROVE  InfoFits(x, rb)'
  BY <1>9 DEF InfoFits
<1> QED
  BY <1>1, <1>2, <1>3, <1>4, <1>5, <1>7, <1>8, <1>9, BindingWritten DEF Maybe

\* No binding refers to the version a workload has after its change.
LEMMA WorkloadChanged ==
    ASSUME Typed, BindingInv, NEW x \in Bindings, NEW spec \in Workloads \cup {NoObject},
           ChangeWorkload(x, spec)
    PROVE  BindingInv'
<1>1. /\ workloads \in [Bindings -> Maybe(Workload)] /\ workloads[x] # NoObject
      /\ spec # NoObject => spec.kind = workloads[x].spec.kind
      /\ workloads' = [workloads EXCEPT ![x] =
           IF spec = NoObject THEN NoObject ELSE [spec |-> spec, version |-> @.version + 1]]
      /\ dc' = dc /\ unread' = unread /\ recovered' = recovered
      /\ Api("bindings")' = Api("bindings")
      /\ streams' = streams
  BY DEF Typed, TypeOK, ChangeWorkload, Api
<1>2. workloads[x].version \in Nat
  BY <1>1, CacheViewAssumption DEF Maybe, Workload
<1>3. /\ \A k \in Bindings \ {x} : workloads'[k] = workloads[k]
      /\ workloads'[x] # NoObject => /\ spec # NoObject
                                     /\ workloads'[x].spec.kind = workloads[x].spec.kind
                                     /\ workloads'[x].version = workloads[x].version + 1
  BY <1>1
<1>4. ASSUME NEW k \in Bindings, NEW rb \in Maybe(Binding), Genuine(k, rb)
      PROVE  Genuine(k, rb)'
  <2>1. CASE k # x
    <3>1. workloads'[k] = workloads[k]
      BY <1>3, <2>1
    <3> QED
      BY <1>1, <1>4, <3>1 DEF Genuine
  <2>2. CASE k = x /\ rb # NoObject
    <3>1. rb.ref \in Nat
      BY <2>2 DEF Maybe, Binding
    <3>2. Admitted(rb, workloads[x]) /\ Api("bindings")[x] # NoObject
      BY <1>1, <1>4, <2>2 DEF Genuine
    <3>3. Admitted(rb, workloads'[x])
      BY <1>1, <1>2, <1>3, <3>1, <3>2 DEF Admitted
    <3> QED
      BY <1>1, <2>2, <3>2, <3>3 DEF Genuine
  <2>3. CASE rb = NoObject
    BY <2>3 DEF Genuine
  <2> QED
    BY <2>1, <2>2, <2>3
<1>5. ASSUME NEW k \in Bindings, NEW rb \in Maybe(Binding), Genuine(k, rb), InfoFits(k, rb)
      PROVE  InfoFits(k, rb)'
  <2>1. CASE k # x
    <3>1. workloads'[k] = workloads[k]
      BY <1>3, <2>1
    <3> QED
      BY <1>1, <1>5, <3>1 DEF InfoFits
  <2>2. CASE k = x
    <3>1. ASSUME rb # NoObject, workloads'[x] # NoObject
          PROVE  rb.ref # workloads'[x].version
      <4>1. rb.ref \in Nat /\ rb.ref <= workloads[x].version
        BY <1>1, <1>5, <2>2, <3>1 DEF Maybe, Binding, Genuine, Admitted
      <4> QED
        BY <1>2, <1>3, <3>1, <4>1
    <3> QED
      BY <1>1, <1>3, <1>5, <2>2, <3>1 DEF InfoFits
  <2> QED
    BY <2>1, <2>2
<1>6. ASSUME NEW k \in Bindings
      PROVE  Genuine(k, Api("bindings")[k])'
  <2>1. PICK rb \in Maybe(Binding) : rb = Api("bindings")[k] /\ Genuine(k, rb)
    BY KindsOf DEF BindingInv, Typed, TypeOK
  <2>2. Genuine(k, rb)'
    BY <1>4, <2>1
  <2> QED
    BY <1>1, <2>1, <2>2 DEF Genuine
<1> QED
  BY <1>1, <1>4, <1>5, <1>6, SameMoves, BindingCarried

LEMMA BindingRestarted ==
    ASSUME Typed, BindingInv, Restart
    PROVE  BindingInv'
<1> DEFINE v == [i \in {0} |-> [x \in Names["bindings"] |-> NoObject]]
<1>1. /\ View("bindings", v)' /\ Api("bindings")' = Api("bindings")
      /\ Names["bindings"] = Bindings
  BY RestartFresh, KindsOf
<1>2. workloads' = workloads /\ \A k \in Bindings : dc'.infos[k] = NoObject
  BY DEF Restart, FreshCache, EmptyCache
<1>3. ASSUME NEW k \in Bindings
      PROVE  InfoFits(k, NoObject)' /\ Genuine(k, NoObject)'
  BY <1>2 DEF InfoFits, Genuine
<1>4. DOMAIN v = {0} /\ \A k \in Bindings : v[0][k] = NoObject
  BY <1>1
<1> HIDE DEF v
<1>5. ASSUME NEW k \in Bindings
      PROVE  /\ InfoFits(k, v[0][k])'
             /\ \A i \in DOMAIN v : Genuine(k, v[i][k])'
  BY <1>3, <1>4
<1>6. BindingTold(v)'
  BY <1>5 DEF BindingTold
<1>7. ASSUME NEW k \in Bindings
      PROVE  Genuine(k, Api("bindings")[k])'
  <2>1. Genuine(k, Api("bindings")[k])
    BY DEF BindingInv
  <2> QED
    BY <1>1, <1>2, <2>1 DEF Genuine
<1> QED
  BY <1>1, <1>6, <1>7 DEF BindingInv

LEMMA BindingStep ==
    ASSUME IInv, Next
    PROVE  BindingInv'
<1>1. /\ Typed /\ BindingInv /\ dc \in Cache /\ dc.infos \in [Bindings -> Maybe(Info)]
      /\ "bindings" \in StreamKinds
  BY KindsOf DEF IInv, Typed, TypeOK, Cache
<1>2. CASE Restart \/ HandleBinding
  BY <1>1, <1>2, BindingRestarted, BindingHandled
<1>3. CASE ~Restart /\ ~HandleBinding
  <2>1. MovesOf("bindings")
    BY <1>3, NextParts DEF Parts
  <2>2. ASSUME Api("bindings")' = Api("bindings"), workloads' = workloads, unread' = unread,
               recovered' = recovered, dc'.infos = dc.infos
        PROVE  BindingInv'
    BY <1>1, <2>1, <2>2, BindingKept
  <2>3. CASE CreateAnswered \/ \E applied \in BOOLEAN : CreateFails(applied)
    <3>1. /\ dc' = dc /\ workloads' = workloads /\ unread' = unread
          /\ recovered' = recovered
          /\ ApplyCreate \/ UNCHANGED streams
      BY <2>3 DEF CreateAnswered, CreateFails
    <3>2. streams'["bindings"] = streams["bindings"]
      BY <1>1, <3>1, CreateMoves
    <3> QED
      BY <2>2, <3>1, <3>2 DEF Api
  <2>4. ASSUME NEW kind \in StreamKinds, List(kind) \/ LoseWatch(kind)
        PROVE  BindingInv'
    <3>1. /\ dc' = dc /\ workloads' = workloads /\ unread' = unread
          /\ recovered' = recovered
      BY <2>4 DEF List, LoseWatch
    <3>2. Api("bindings")' = Api("bindings")
      BY <1>1, <2>4, ListMoves, LoseMoves
    <3> QED
      BY <2>2, <3>1, <3>2
  <2>5. CASE HandleQueue
    <3>1. /\ workloads' = workloads /\ unread' = unread /\ recovered' = recovered
          /\ Take("queues")
      BY <2>5 DEF HandleQueue, Take
    <3>2. streams'["bindings"] = streams["bindings"]
      BY <1>1, <3>1, KindsOf, TakeMoves
    <3>3. \E w : dc' = [dc EXCEPT !.queues = w[0]]
      BY <1>1, <2>5, QueueTaken DEF IInv
    <3>4. dc'.infos = dc.infos
      BY <1>1, <3>3 DEF Cache
    <3> QED
      BY <2>2, <3>1, <3>2, <3>4 DEF Api
  <2>6. CASE HandlePriorityClass
    <3>1. /\ workloads' = workloads /\ unread' = unread /\ recovered' = recovered
          /\ Take("classes")
      BY <2>6 DEF HandlePriorityClass, Take
    <3>2. streams'["bindings"] = streams["bindings"]
      BY <1>1, <3>1, KindsOf, TakeMoves
    <3>3. PICK v : View("classes", v) /\ v[0] = dc.classes
      BY DEF IInv, ClassInv, ClassTold
    <3>4. \E w : dc' = [dc EXCEPT !.classes = w[0], !.default = Elected(dc, FirstOf("classes"))]
      BY <1>1, <2>6, <3>3, ClassTaken
    <3>5. dc'.infos = dc.infos
      BY <1>1, <3>4 DEF Cache
    <3> QED
      BY <2>2, <3>1, <3>2, <3>5 DEF Api
  <2>7. CASE HandleCluster
    <3>1. /\ workloads' = workloads /\ unread' = unread /\ recovered' = recovered
          /\ Take("clusters")
      BY <2>7 DEF HandleCluster, Take
    <3>2. streams'["bindings"] = streams["bindings"]
      BY <1>1, <3>1, KindsOf, TakeMoves
    <3>3. dc' = [dc EXCEPT !.clusters = dc'.clusters]
      BY <1>1, <2>7, ClusterTaken DEF IInv
    <3>4. dc'.infos = dc.infos
      BY <1>1, <3>3 DEF Cache
    <3> QED
      BY <2>2, <3>1, <3>2, <3>4 DEF Api
  <2>8. CASE TakeSnapshot
    <3>1. /\ UNCHANGED <<streams, workloads, unread, recovered>>
          /\ dc' = dc \/ dc' = Snapshot(dc)
      BY <2>8 DEF TakeSnapshot
    <3>2. CASE dc' = dc
      BY <2>2, <3>1, <3>2 DEF Api
    <3>3. CASE dc' = Snapshot(dc)
      <4>1. ASSUME NEW k \in Bindings
            PROVE  /\ dc'.infos[k] = NoObject <=> dc.infos[k] = NoObject
                   /\ dc.infos[k] # NoObject =>
                        /\ dc'.infos[k].queue = dc.infos[k].queue
                        /\ dc'.infos[k].class = dc.infos[k].class
                        /\ dc'.infos[k].status = dc.infos[k].status
        <5>1. /\ dc'.infos[k] = NoObject <=> dc.infos[k] = NoObject
              /\ dc.infos[k] # NoObject =>
                   \E p \in Nat : dc'.infos[k] = [dc.infos[k] EXCEPT !.priority = p]
          BY <1>1, <3>3, SnapshotInfos
        <5>2. dc.infos[k] # NoObject => dc.infos[k] \in Info
          BY <1>1 DEF Maybe
        <5> QED
          BY <5>1, <5>2 DEF Info
      <4> QED
        BY <1>1, <2>1, <3>1, <4>1, BindingKept DEF Api
    <3> QED
      BY <3>1, <3>2, <3>3
  <2>9. ASSUME NEW kind \in StreamKinds \ {"bindings"}, NEW x \in Names[kind],
               NEW obj \in Specs[kind] \cup {NoObject}, ChangeObject(kind, x, obj)
        PROVE  BindingInv'
    <3>1. /\ dc' = dc /\ workloads' = workloads /\ unread' = unread
          /\ recovered' = recovered
      BY <2>9 DEF ChangeObject
    <3>2. streams'["bindings"] = streams["bindings"]
      BY <1>1, <2>9, ObjectMoves
    <3> QED
      BY <2>2, <3>1, <3>2 DEF Api
  <2>10. ASSUME NEW k \in Bindings, NEW spec \in Workloads \cup {NoObject}, ChangeWorkload(k, spec)
         PROVE  BindingInv'
    BY <1>1, <2>10, WorkloadChanged
  <2>11. ASSUME NEW k \in Bindings, SyncBinding(k)
         PROVE  BindingInv'
    BY <1>1, <2>11, CreatedRight, UpdatedRight, DeletedRight DEF SyncBinding
  <2>12. ASSUME NEW k \in Bindings, UnSuspendResourceBinding(k) \/ PatchRecovers(k)
         PROVE  BindingInv'
    <3>1. /\ UNCHANGED <<streams, workloads, unread>>
          /\ \/ dc' = dc /\ recovered' = recovered
             \/ \E st \in Status :
                  /\ dc.infos[k] # NoObject
                  /\ dc' = [dc EXCEPT !.infos[k].status = st]
                  /\ \/ st = "UnSuspending" /\ recovered' = recovered
                     \/ st = "Suspended" /\ recovered' = recovered \cup {k}
      BY <2>12 DEF UnSuspendResourceBinding, PatchRecovers, Status
    <3>2. CASE dc' = dc /\ recovered' = recovered
      BY <2>2, <3>1, <3>2 DEF Api
    <3>3. ASSUME NEW st \in Status, dc.infos[k] # NoObject,
                 dc' = [dc EXCEPT !.infos[k].status = st],
                 \/ st = "UnSuspending" /\ recovered' = recovered
                 \/ st = "Suspended" /\ recovered' = recovered \cup {k}
          PROVE  BindingInv'
      <4>1. /\ \A x \in Bindings \ {k} : dc'.infos[x] = dc.infos[x]
            /\ dc'.infos[k] # NoObject /\ dc'.infos[k].status = st
            /\ dc'.infos[k].queue = dc.infos[k].queue /\ dc'.infos[k].class = dc.infos[k].class
        BY <1>1, <3>3, StatusInfos
      <4> QED
        BY <1>1, <2>1, <3>1, <3>3, <4>1, BindingKept DEF Api
    <3> QED
      BY <3>1, <3>2, <3>3
  <2>13. ASSUME NEW k \in Bindings, NEW applied \in BOOLEAN,
                TaskWorker(k) \/ PatchAnswered(k) \/ PatchFails(k, applied)
         PROVE  BindingInv'
    <3>1. /\ dc' = dc /\ workloads' = workloads /\ unread' = unread
          /\ recovered' = recovered
          /\ UNCHANGED streams \/ ApplyPatch(k)
      BY <2>13 DEF TaskWorker, PatchAnswered, PatchFails
    <3>2. CASE UNCHANGED streams
      BY <2>2, <3>1, <3>2 DEF Api
    <3>3. CASE ApplyPatch(k) /\ Api("bindings")[k].suspended
      BY <1>1, <3>1, <3>3, PatchedRight
    <3> QED
      BY <3>1, <3>2, <3>3 DEF ApplyPatch
  <2> QED
    BY <1>3, <2>3, <2>4, <2>5, <2>6, <2>7, <2>8, <2>9, <2>10, <2>11, <2>12, <2>13
    DEF Next, Handle, Patching
<1> QED
  BY <1>2, <1>3
-----------------------------------------------------------------------------
(* Tasks. *)

\* An info is there only if its binding is, or its workload is gone.
LEMMA InfoHasBinding ==
    ASSUME IInv, NEW k \in Bindings, dc.infos[k] # NoObject, workloads[k] # NoObject
    PROVE  Api("bindings")[k] # NoObject
<1>1. PICK v : View("bindings", v) /\ BindingTold(v)
  BY DEF IInv, BindingInv
<1>2. 0 \in DOMAIN v
  <2>1. Len(streams["bindings"].events) \in Nat
    BY KindsOf DEF IInv, Typed, StreamTyped, StreamOK
  <2> QED
    BY <1>1, <2>1 DEF View, Replay
<1>3. InfoFits(k, v[0][k]) /\ Genuine(k, v[0][k])
  BY <1>1, <1>2 DEF BindingTold
<1> QED
  BY <1>3 DEF InfoFits, Genuine

\* A binding is in question for TaskInv.
Unfinished(k) ==
    /\ dc.infos[k] # NoObject /\ dc.infos[k].status = "UnSuspending"
    /\ Api("bindings")[k] # NoObject /\ Api("bindings")[k].suspended

LEMMA TaskKept ==
    ASSUME TaskInv, UNCHANGED dispatch, \A k \in Bindings : Unfinished(k)' => Unfinished(k)
    PROVE  TaskInv'
BY DEF TaskInv, Unfinished, Owed, dispatch

\* The other kinds' handlers leave the infos alone.
LEMMA OtherHandlers ==
    ASSUME IInv, HandleQueue \/ HandlePriorityClass \/ HandleCluster
    PROVE  dc'.infos = dc.infos
<1>1. Typed /\ dc \in Cache
  BY DEF IInv, Typed, TypeOK
<1>2. CASE HandleQueue
  <2>1. \E w : dc' = [dc EXCEPT !.queues = w[0]]
    BY <1>1, <1>2, QueueTaken DEF IInv
  <2> QED
    BY <1>1, <2>1 DEF Cache
<1>3. CASE HandlePriorityClass
  <2>1. PICK v : View("classes", v) /\ v[0] = dc.classes
    BY DEF IInv, ClassInv, ClassTold
  <2>2. \E w : dc' = [dc EXCEPT !.classes = w[0], !.default = Elected(dc, FirstOf("classes"))]
    BY <1>1, <1>3, <2>1, ClassTaken
  <2> QED
    BY <1>1, <2>2 DEF Cache
<1>4. CASE HandleCluster
  <2>1. dc' = [dc EXCEPT !.clusters = dc'.clusters]
    BY <1>1, <1>4, ClusterTaken DEF IInv
  <2> QED
    BY <1>1, <2>1 DEF Cache
<1> QED
  BY <1>2, <1>3, <1>4

\* What a write makes of the bindings in the API server.
LEMMA WrittenBinding ==
    ASSUME Typed, NEW x \in Bindings, NEW obj \in Maybe(Binding),
           obj # NoObject \/ Api("bindings")[x] # NoObject, WriteTo("bindings", x, obj)
    PROVE  Api("bindings")' = [Api("bindings") EXCEPT ![x] = obj]
<1>1. /\ x \in Names["bindings"] /\ "bindings" \in StreamKinds
      /\ obj \in Maybe(Objects["bindings"])
  BY KindsOf
<1> QED
  BY <1>1, WriteMoves

LEMMA PatchedBinding ==
    ASSUME Typed, NEW x \in Bindings
    PROVE  ApplyPatch(x) => /\ \A k \in Bindings \ {x} : Api("bindings")'[k] = Api("bindings")[k]
                            /\ ~Api("bindings")'[x].suspended
<1> SUFFICES ASSUME ApplyPatch(x)
             PROVE  /\ \A k \in Bindings \ {x} : Api("bindings")'[k] = Api("bindings")[k]
                    /\ ~Api("bindings")'[x].suspended
  OBVIOUS
<1>1. Api("bindings") \in [Bindings -> Maybe(Binding)] /\ Api("bindings")[x] # NoObject
  BY KindsOf DEF Typed, TypeOK, ApplyPatch
<1>2. PICK old \in Binding : old = Api("bindings")[x]
  BY <1>1 DEF Maybe
<1>3. CASE old.suspended
  <2>1. PICK obj : obj = [old EXCEPT !.suspended = FALSE]
    OBVIOUS
  <2>2. obj \in Maybe(Binding) /\ ~obj.suspended
    BY <1>2, <2>1 DEF Binding, Maybe
  <2>3. Api("bindings")' = [Api("bindings") EXCEPT ![x] = obj]
    BY <1>1, <1>2, <1>3, <2>1, <2>2, WrittenBinding DEF ApplyPatch
  <2> QED
    BY <1>1, <2>2, <2>3
<1>4. CASE ~old.suspended
  BY <1>2, <1>4 DEF ApplyPatch, Api
<1> QED
  BY <1>3, <1>4

LEMMA SyncedBinding ==
    ASSUME IInv, NEW x \in Bindings, SyncBinding(x)
    PROVE  \E obj \in Maybe(Binding) :
             /\ Api("bindings")' = [Api("bindings") EXCEPT ![x] = obj]
             /\ \/ dc.infos[x] = NoObject \/ obj = NoObject
                \/ Api("bindings")[x] # NoObject /\ obj.suspended = Api("bindings")[x].suspended
<1>1. /\ Typed /\ Api("bindings") \in [Bindings -> Maybe(Binding)]
      /\ workloads \in [Bindings -> Maybe(Workload)]
      /\ NoObject \in Maybe(Binding) /\ NoObject \notin Binding
  BY KindsOf, CacheViewAssumption DEF IInv, Typed, TypeOK, Maybe
<1>2. CASE CreateBinding(x)
  <2>1. /\ workloads[x] # NoObject /\ Api("bindings")[x] = NoObject
        /\ dc.infos[x] = NoObject
    BY <1>2, InfoHasBinding DEF CreateBinding
  <2>2. /\ workloads[x] \in Workload /\ workloads[x].spec \in Templates(Queues, Classes)
    BY <1>1, <2>1, CacheViewAssumption DEF Maybe, Workload
  <2>3. PICK asked \in BOOLEAN :
          WriteTo("bindings", x,
                  [kind |-> workloads[x].spec.kind, ref |-> workloads[x].version, asked |-> asked,
                   suspended |-> ResourceBindings(workloads[x].spec.kind, asked).suspended])
    BY <1>2 DEF CreateBinding
  <2>4. PICK obj :
          obj = [kind |-> workloads[x].spec.kind, ref |-> workloads[x].version, asked |-> asked,
                 suspended |-> ResourceBindings(workloads[x].spec.kind, asked).suspended]
    OBVIOUS
  <2>5. obj \in Binding
    BY <2>2, <2>4 DEF Binding, Workload, Templates, ResourceBindings
  <2>6. obj \in Maybe(Binding) /\ Api("bindings")' = [Api("bindings") EXCEPT ![x] = obj]
    BY <1>1, <2>3, <2>4, <2>5, WrittenBinding DEF Maybe
  <2> QED
    BY <2>1, <2>6
<1>3. CASE UpdateBinding(x)
  <2>1. /\ workloads[x] # NoObject /\ Api("bindings")[x] # NoObject
        /\ WriteTo("bindings", x, [Api("bindings")[x] EXCEPT !.ref = workloads[x].version])
    BY <1>3 DEF UpdateBinding
  <2>2. PICK old \in Binding : old = Api("bindings")[x]
    BY <1>1, <2>1 DEF Maybe
  <2>3. PICK obj : obj = [old EXCEPT !.ref = workloads[x].version]
    OBVIOUS
  <2>4. workloads[x].version \in Nat
    BY <1>1, <2>1 DEF Maybe, Workload
  <2>5. obj \in Maybe(Binding) /\ obj.suspended = old.suspended
    BY <2>2, <2>3, <2>4 DEF Binding, Maybe
  <2>6. Api("bindings")' = [Api("bindings") EXCEPT ![x] = obj]
    BY <1>1, <2>1, <2>2, <2>3, <2>5, WrittenBinding
  <2> QED
    BY <2>1, <2>2, <2>5, <2>6
<1>4. CASE DeleteBinding(x)
  <2>1. Api("bindings")' = [Api("bindings") EXCEPT ![x] = NoObject]
    BY <1>1, <1>4, WrittenBinding DEF DeleteBinding
  <2> QED
    BY <1>1, <2>1
<1> QED
  BY <1>2, <1>3, <1>4 DEF SyncBinding

LEMMA TaskStep ==
    ASSUME IInv, Next
    PROVE  TaskInv'
<1>1. /\ Typed /\ TaskInv /\ dc \in Cache /\ dc.infos \in [Bindings -> Maybe(Info)]
      /\ Api("bindings") \in [Bindings -> Maybe(Binding)]
      /\ "bindings" \in StreamKinds /\ Names["bindings"] = Bindings
      /\ Maybe(Objects["bindings"]) = Maybe(Binding)
      /\ tasks \subseteq Bindings /\ patch \in [Bindings -> {"none", "sent", "failed", "broken"}]
  BY KindsOf DEF IInv, Typed, TypeOK, Cache
<1>2. ASSUME UNCHANGED dispatch, dc'.infos = dc.infos,
             \A k \in Bindings : Api("bindings")'[k] = Api("bindings")[k]
      PROVE  TaskInv'
  BY <1>1, <1>2, TaskKept DEF Unfinished
<1>3. CASE Restart
  <2>1. \A k \in Bindings : dc'.infos[k] = NoObject
    BY <1>3 DEF Restart, FreshCache, EmptyCache
  <2> QED
    BY <2>1 DEF TaskInv
<1>4. CASE CreateAnswered \/ \E applied \in BOOLEAN : CreateFails(applied)
  <2>1. dc' = dc /\ UNCHANGED dispatch /\ (ApplyCreate \/ UNCHANGED streams)
    BY <1>4 DEF CreateAnswered, CreateFails
  <2>2. streams'["bindings"] = streams["bindings"]
    BY <1>1, <2>1, CreateMoves
  <2> QED
    BY <1>2, <2>1, <2>2 DEF Api
<1>5. ASSUME NEW kind \in StreamKinds, List(kind) \/ LoseWatch(kind)
      PROVE  TaskInv'
  <2>1. dc' = dc /\ UNCHANGED dispatch
    BY <1>5 DEF List, LoseWatch
  <2>2. Api("bindings")' = Api("bindings")
    BY <1>1, <1>5, ListMoves, LoseMoves
  <2> QED
    BY <1>2, <2>1, <2>2
<1>6. CASE HandleQueue \/ HandlePriorityClass \/ HandleCluster
  <2>1. /\ UNCHANGED dispatch
        /\ \E kind \in {"queues", "classes", "clusters"} : Take(kind)
    BY <1>6 DEF HandleQueue, HandlePriorityClass, HandleCluster, Take
  <2>2. streams'["bindings"] = streams["bindings"]
    BY <1>1, <2>1, TakeMoves DEF StreamKinds
  <2>3. dc'.infos = dc.infos
    BY <1>1, <1>6, OtherHandlers
  <2> QED
    BY <1>2, <2>1, <2>2, <2>3 DEF Api
<1>7. CASE HandleBinding
  <2>1. UNCHANGED dispatch
    BY <1>7 DEF HandleBinding, Take
  <2>2. PICK v : View("bindings", v)
    BY DEF IInv, BindingInv
  <2>3. PICK n \in Notes("bindings") :
          /\ Api("bindings")' = Api("bindings")
          /\ \E got \in Maybe(Templates(Queues, Classes)) : Got(n, got)
    BY <1>1, <1>7, <2>2, BindingTaken
  <2>4. PICK got \in Maybe(Templates(Queues, Classes)) : Got(n, got)
    BY <2>3
  <2>5. n.name \in Bindings /\ n.new \in Maybe(Binding)
    BY <1>1 DEF Notes
  <2>6. ASSUME NEW k \in Bindings, Unfinished(k)'
        PROVE  Unfinished(k)
    <3>1. CASE dc'.infos[k] = dc.infos[k]
      BY <2>3, <2>6, <3>1 DEF Unfinished
    <3>2. CASE k = n.name /\ n.new # NoObject /\ got # NoObject
               /\ dc' = [dc EXCEPT !.infos[n.name] = InfoOf(n.new, got)]
      <4>1. dc'.infos[k] = InfoOf(n.new, got)
        BY <1>1, <3>2 DEF Cache
      <4>2. InfoOf(n.new, got).status # "UnSuspending"
        BY DEF InfoOf
      <4> QED
        BY <2>6, <4>1, <4>2 DEF Unfinished
    <3>3. CASE k = n.name /\ dc' = [dc EXCEPT !.infos[n.name] = NoObject]
      <4>1. dc'.infos[k] = NoObject
        BY <1>1, <3>3 DEF Cache
      <4> QED
        BY <2>6, <4>1 DEF Unfinished
    <3>4. k # n.name => dc'.infos[k] = dc.infos[k]
      BY <1>1, <2>4, <2>5 DEF Got, Cache
    <3> QED
      BY <2>4, <3>1, <3>2, <3>3, <3>4 DEF Got
  <2> QED
    BY <1>1, <2>1, <2>6, TaskKept
<1>8. CASE TakeSnapshot
  <2>1. /\ UNCHANGED <<streams, tasks, patch>>
        /\ dc' = dc \/ dc' = Snapshot(dc)
    BY <1>8 DEF TakeSnapshot
  <2>2. ASSUME NEW k \in Bindings, Unfinished(k)'
        PROVE  Unfinished(k)
    <3>1. CASE dc' = dc
      BY <2>1, <2>2, <3>1 DEF Unfinished, Api
    <3>2. CASE dc' = Snapshot(dc)
      <4>0. /\ Snapshot(dc).infos[k] = NoObject <=> dc.infos[k] = NoObject
            /\ dc.infos[k] # NoObject =>
                 \E p \in Nat : Snapshot(dc).infos[k] = [dc.infos[k] EXCEPT !.priority = p]
        <5>1. dc \in Cache
          BY <1>1
        <5> QED
          BY <5>1, SnapshotInfos
      <4>1. /\ dc'.infos[k] = NoObject <=> dc.infos[k] = NoObject
            /\ dc.infos[k] # NoObject =>
                 \E p \in Nat : dc'.infos[k] = [dc.infos[k] EXCEPT !.priority = p]
        BY <3>2, <4>0
      <4>2. dc.infos[k] # NoObject => dc.infos[k] \in Info
        BY <1>1 DEF Maybe
      <4>3. dc.infos[k] # NoObject => dc'.infos[k].status = dc.infos[k].status
        BY <4>1, <4>2 DEF Info
      <4> QED
        BY <2>1, <2>2, <4>1, <4>3 DEF Unfinished, Api
    <3> QED
      BY <2>1, <3>1, <3>2
  <2> QED
    BY <1>1, <2>1, <2>2 DEF TaskInv, Unfinished, Owed
<1>9. ASSUME NEW kind \in StreamKinds \ {"bindings"}, NEW x \in Names[kind],
             NEW obj \in Specs[kind] \cup {NoObject}, ChangeObject(kind, x, obj)
      PROVE  TaskInv'
  <2>1. dc' = dc /\ UNCHANGED dispatch
    BY <1>9 DEF ChangeObject
  <2>2. streams'["bindings"] = streams["bindings"]
    BY <1>1, <1>9, ObjectMoves
  <2> QED
    BY <1>2, <2>1, <2>2 DEF Api
<1>10. ASSUME NEW k \in Bindings, NEW spec, ChangeWorkload(k, spec)
       PROVE  TaskInv'
  BY <1>2, <1>10 DEF ChangeWorkload, Api
<1>11. ASSUME NEW x \in Bindings, SyncBinding(x)
       PROVE  TaskInv'
  <2>1. dc' = dc /\ UNCHANGED dispatch
    BY <1>11 DEF SyncBinding, CreateBinding, UpdateBinding, DeleteBinding
  <2>2. PICK obj \in Maybe(Binding) :
          /\ Api("bindings")' = [Api("bindings") EXCEPT ![x] = obj]
          /\ \/ dc.infos[x] = NoObject \/ obj = NoObject
             \/ Api("bindings")[x] # NoObject /\ obj.suspended = Api("bindings")[x].suspended
    BY <1>1, <1>11, SyncedBinding
  <2>3. ASSUME NEW k \in Bindings, Unfinished(k)'
        PROVE  Unfinished(k)
    <3>1. CASE k # x
      BY <1>1, <2>1, <2>2, <2>3, <3>1 DEF Unfinished
    <3>2. CASE k = x
      <4>1. Api("bindings")'[x] = obj
        BY <1>1, <2>2
      <4> QED
        BY <2>1, <2>2, <2>3, <3>2, <4>1 DEF Unfinished
    <3> QED
      BY <3>1, <3>2
  <2> QED
    BY <1>1, <2>1, <2>3, TaskKept
<1>12. ASSUME NEW x \in Bindings, UnSuspendResourceBinding(x)
       PROVE  TaskInv'
  <2>1. patch' = patch /\ streams' = streams
    BY <1>12 DEF UnSuspendResourceBinding
  <2>2. CASE dc' = dc /\ tasks' = tasks
    BY <1>1, <2>1, <2>2 DEF TaskInv, Owed, Api
  <2>3. CASE dc.infos[x] # NoObject /\ dc' = [dc EXCEPT !.infos[x].status = "UnSuspending"]
             /\ tasks' = tasks \cup {x}
    <3>1. \A k \in Bindings \ {x} : dc'.infos[k] = dc.infos[k]
      BY <1>1, <2>3
    <3> QED
      BY <1>1, <2>1, <2>3, <3>1 DEF TaskInv, Owed, Api
  <2> QED
    BY <1>12, <2>2, <2>3 DEF UnSuspendResourceBinding
<1>13. ASSUME NEW x \in Bindings, TaskWorker(x)
       PROVE  TaskInv'
  <2>1. /\ streams' = streams /\ dc' = dc /\ tasks' = tasks \ {x}
        /\ patch' = [patch EXCEPT ![x] = IF dc.infos[x] = NoObject THEN "broken" ELSE "sent"]
    BY <1>13 DEF TaskWorker
  <2>2. /\ \A k \in Bindings \ {x} : patch'[k] = patch[k]
        /\ dc.infos[x] # NoObject => patch'[x] = "sent"
    BY <1>1, <2>1
  <2> QED
    BY <1>1, <2>1, <2>2 DEF TaskInv, Owed, Api
<1>14. ASSUME NEW x \in Bindings, PatchRecovers(x)
       PROVE  TaskInv'
  <2>1. streams' = streams /\ tasks' = tasks /\ patch' = [patch EXCEPT ![x] = "none"]
    BY <1>14 DEF PatchRecovers
  <2>2. CASE dc.infos[x] = NoObject /\ dc' = dc
    BY <1>1, <2>1, <2>2 DEF TaskInv, Owed, Api
  <2>3. CASE dc.infos[x] # NoObject /\ dc' = [dc EXCEPT !.infos[x].status = "Suspended"]
    <3>1. /\ \A k \in Bindings \ {x} : dc'.infos[k] = dc.infos[k]
          /\ dc'.infos[x].status = "Suspended"
      BY <1>1, <2>3, StatusInfos DEF Status
    <3> QED
      BY <1>1, <2>1, <3>1 DEF TaskInv, Owed, Api
  <2> QED
    BY <1>14, <2>2, <2>3 DEF PatchRecovers
<1>15. ASSUME NEW x \in Bindings, NEW applied \in BOOLEAN,
              PatchAnswered(x) \/ PatchFails(x, applied)
       PROVE  TaskInv'
  <2>1. /\ dc' = dc /\ tasks' = tasks
        /\ \/ patch' = [patch EXCEPT ![x] = "none"] /\ ApplyPatch(x)
           \/ patch' = [patch EXCEPT ![x] = "failed"] /\ (ApplyPatch(x) \/ UNCHANGED streams)
    BY <1>15 DEF PatchAnswered, PatchFails
  <2>2. /\ \A k \in Bindings \ {x} : Api("bindings")'[k] = Api("bindings")[k]
        /\ ApplyPatch(x) => ~Api("bindings")'[x].suspended
        /\ UNCHANGED streams => Api("bindings")' = Api("bindings")
    BY <1>1, <2>1, PatchedBinding DEF Api
  <2> QED
    BY <1>1, <2>1, <2>2 DEF TaskInv, Owed
<1> QED
  BY <1>3, <1>4, <1>5, <1>6, <1>7, <1>8, <1>9, <1>10, <1>11, <1>12, <1>13, <1>14, <1>15
  DEF Next, Handle, Patching
\* What is gone stays so: only the binding of a workload is created.
LEMMA GoneStays ==
    ASSUME IInv, Next, NEW k \in Bindings, Gone(k)
    PROVE  Gone(k)'
<1>1. /\ Typed /\ workloads \in [Bindings -> Maybe(Workload)]
      /\ Api("bindings") \in [Bindings -> Maybe(Binding)]
      /\ "bindings" \in StreamKinds
      /\ workloads[k] = NoObject /\ Api("bindings")[k] = NoObject
  BY KindsOf DEF IInv, Typed, TypeOK, Gone
<1>2. ASSUME workloads' = workloads, Api("bindings")' = Api("bindings")
      PROVE  Gone(k)'
  BY <1>1, <1>2 DEF Gone
<1>3. CASE Restart
  <2>1. Api("bindings")' = Api("bindings") /\ workloads' = workloads
    BY <1>1, <1>3, RestartFresh DEF Restart
  <2> QED
    BY <1>2, <2>1
<1>4. CASE CreateAnswered \/ \E applied \in BOOLEAN : CreateFails(applied)
  <2>1. workloads' = workloads /\ (ApplyCreate \/ UNCHANGED streams)
    BY <1>4 DEF CreateAnswered, CreateFails
  <2>2. streams'["bindings"] = streams["bindings"]
    BY <1>1, <2>1, CreateMoves
  <2> QED
    BY <1>2, <2>1, <2>2 DEF Api
<1>5. ASSUME NEW kind \in StreamKinds, List(kind) \/ LoseWatch(kind)
      PROVE  Gone(k)'
  <2>1. workloads' = workloads
    BY <1>5 DEF List, LoseWatch
  <2>2. Api("bindings")' = Api("bindings")
    BY <1>1, <1>5, ListMoves, LoseMoves
  <2> QED
    BY <1>2, <2>1, <2>2
<1>6. CASE HandleQueue \/ HandlePriorityClass \/ HandleCluster
  <2>1. /\ workloads' = workloads
        /\ \E kind \in {"queues", "classes", "clusters"} : Take(kind)
    BY <1>6 DEF HandleQueue, HandlePriorityClass, HandleCluster, Take
  <2>2. streams'["bindings"] = streams["bindings"]
    BY <1>1, <2>1, TakeMoves DEF StreamKinds
  <2> QED
    BY <1>2, <2>1, <2>2 DEF Api
<1>7. CASE HandleBinding
  <2>1. workloads' = workloads
    BY <1>7 DEF HandleBinding, Take
  <2>2. PICK v : View("bindings", v)
    BY DEF IInv, BindingInv
  <2>3. Api("bindings")' = Api("bindings")
    BY <1>1, <1>7, <2>2, BindingTaken
  <2> QED
    BY <1>2, <2>1, <2>3
<1>8. CASE TakeSnapshot
  BY <1>2, <1>8 DEF TakeSnapshot, Api
<1>9. ASSUME NEW kind \in StreamKinds \ {"bindings"}, NEW x \in Names[kind],
             NEW obj \in Specs[kind] \cup {NoObject}, ChangeObject(kind, x, obj)
      PROVE  Gone(k)'
  <2>1. workloads' = workloads
    BY <1>9 DEF ChangeObject
  <2>2. streams'["bindings"] = streams["bindings"]
    BY <1>1, <1>9, ObjectMoves
  <2> QED
    BY <1>2, <2>1, <2>2 DEF Api
<1>10. ASSUME NEW x \in Bindings, NEW spec, ChangeWorkload(x, spec)
       PROVE  Gone(k)'
  <2>1. /\ workloads[x] # NoObject /\ streams' = streams
        /\ workloads' = [workloads EXCEPT ![x] = workloads'[x]]
    BY <1>1, <1>10 DEF ChangeWorkload
  <2>2. workloads'[k] = workloads[k]
    BY <1>1, <2>1
  <2> QED
    BY <1>1, <2>1, <2>2 DEF Gone, Api
<1>11. ASSUME NEW x \in Bindings, SyncBinding(x)
       PROVE  Gone(k)'
  <2>1. workloads' = workloads /\ x # k
    BY <1>1, <1>11 DEF SyncBinding, CreateBinding, UpdateBinding, DeleteBinding
  <2>2. PICK obj : Api("bindings")' = [Api("bindings") EXCEPT ![x] = obj]
    BY <1>11, SyncedBinding
  <2>3. Api("bindings")'[k] = Api("bindings")[k]
    BY <1>1, <2>1, <2>2
  <2> QED
    BY <1>1, <2>1, <2>3 DEF Gone
<1>12. ASSUME NEW x \in Bindings,
              UnSuspendResourceBinding(x) \/ TaskWorker(x) \/ PatchRecovers(x)
       PROVE  Gone(k)'
  BY <1>2, <1>12 DEF UnSuspendResourceBinding, TaskWorker, PatchRecovers, Api
<1>13. ASSUME NEW x \in Bindings, NEW applied \in BOOLEAN,
              PatchAnswered(x) \/ PatchFails(x, applied)
       PROVE  Gone(k)'
  <2>1. workloads' = workloads /\ (ApplyPatch(x) \/ UNCHANGED streams)
    BY <1>13 DEF PatchAnswered, PatchFails
  <2>2. CASE UNCHANGED streams
    BY <1>2, <2>1, <2>2 DEF Api
  <2>3. CASE ApplyPatch(x)
    <3>1. x # k
      BY <1>1, <2>3 DEF ApplyPatch
    <3>2. Api("bindings")'[k] = Api("bindings")[k]
      BY <1>1, <2>3, <3>1, PatchedBinding
    <3> QED
      BY <1>1, <2>1, <3>2 DEF Gone
  <2> QED
    BY <2>1, <2>2, <2>3
<1> QED
  BY <1>3, <1>4, <1>5, <1>6, <1>7, <1>8, <1>9, <1>10, <1>11, <1>12, <1>13
  DEF Next, Handle, Patching

\* What is deleted was there, so that its workload is gone before it.
LEMMA FarewellStep ==
    ASSUME IInv, FarewellInv, Next
    PROVE  FarewellInv'
<1>1. /\ Typed /\ "bindings" \in StreamKinds /\ Names["bindings"] = Bindings
      /\ Unheard \in Seq(Notes("bindings")) /\ Len(Unheard) \in Nat
  <2>1. Typed /\ StreamTyped("bindings")
    BY KindsOf DEF IInv, Typed
  <2>2. Unheard \in Seq(Notes("bindings"))
    BY <2>1 DEF StreamTyped, StreamOK, Notes, Unheard
  <2> QED
    BY <2>1, <2>2, KindsOf
<1>2. PICK w : View("bindings", w)' /\ BindingTold(w)'
  BY BindingStep DEF BindingInv
<1>3. ASSUME NEW i \in 1..Len(Unheard'), Unheard'[i].new = NoObject,
             Unheard'[i].name \in Bindings, Api("bindings")'[Unheard'[i].name] = NoObject,
             Len(Unheard') \in Nat
      PROVE  workloads'[Unheard'[i].name] = NoObject
  <2>1. PICK k \in Bindings : k = Unheard'[i].name
    BY <1>3
  <2>2. /\ Tells(Unheard'[i], w[i - 1], w[i]) /\ i - 1 \in DOMAIN w
    BY <1>1, <1>2, <1>3 DEF View, Replay, Unheard
  <2>3. w[i - 1][k] # NoObject
    BY <1>3, <2>1, <2>2 DEF Tells
  <2>4. Genuine(k, w[i - 1][k])'
    BY <1>2, <2>2 DEF BindingTold
  <2> QED
    BY <1>3, <2>1, <2>3, <2>4 DEF Genuine
<1>4. CASE Restart
  <2>1. View("bindings", [i \in {0} |-> [x \in Names["bindings"] |-> NoObject]])'
    BY <1>1, <1>4, RestartFresh
  <2>2. streams' = Fresh([kind \in StreamKinds |-> Api(kind)])
    BY <1>4 DEF Restart
  <2>3. Unheard' = << >>
    BY <1>1, <2>2 DEF Fresh, Stream, Unheard
  <2> QED
    BY <2>3 DEF FarewellInv
<1>5. CASE HandleBinding
  <2>1. Unheard' = Tail(Unheard) /\ Unheard # << >>
    <3>1. Take("bindings")
      BY <1>5 DEF HandleBinding
    <3>2. streams'["bindings"] = [streams["bindings"] EXCEPT !.events = Tail(@)]
      BY <1>1, <3>1, TakeMoves
    <3>3. "events" \in DOMAIN streams["bindings"]
      BY <1>1 DEF Typed, StreamTyped, StreamOK
    <3> QED
      BY <3>1, <3>2, <3>3 DEF Take, Unheard
  <2>2. /\ Len(Unheard') = Len(Unheard) - 1
        /\ \A i \in 1..Len(Unheard') : Unheard'[i] = Unheard[i + 1]
    BY <1>1, <2>1, HeadTailProperties
  <2>3. ASSUME NEW i \in 1..Len(Unheard'), Unheard'[i].new = NoObject
        PROVE  \E k \in Bindings : k = Unheard'[i].name /\ Gone(k)'
    <3>1. PICK j \in 1..Len(Unheard) : Unheard'[i] = Unheard[j]
      BY <1>1, <2>2
    <3>2. PICK k \in Bindings : k = Unheard[j].name
      <4>1. Unheard[j] \in Notes("bindings")
        BY <1>1
      <4> QED
        BY <1>1, <4>1 DEF Notes
    <3>3. Gone(k)
      BY <2>3, <3>1, <3>2 DEF FarewellInv
    <3>4. Gone(k)'
      BY <3>3, GoneStays
    <3> QED
      BY <3>1, <3>2, <3>4
  <2> QED
    BY <2>3 DEF FarewellInv, Gone
<1>6. CASE ~Restart /\ ~HandleBinding
  <2>1. MovesOf("bindings") /\ StreamTyped("bindings")'
    BY <1>1, <1>6, NextParts, StreamsStayTyped DEF Parts
  <2>2. Len(Unheard') \in Nat /\ \A i \in 1..Len(Unheard') : Unheard'[i].name \in Bindings
    <3>1. Unheard' \in Seq(Notes("bindings"))
      BY <2>1 DEF StreamTyped, StreamOK, Notes, Unheard
    <3>2. \A i \in 1..Len(Unheard') : Unheard'[i] \in Notes("bindings")
      BY <3>1
    <3> QED
      BY <1>1, <3>1, <3>2 DEF Notes
  <2>3. \A i \in 1..Len(Unheard') :
          \/ \E j \in 1..Len(Unheard) : Unheard'[i] = Unheard[j]
          \/ Unheard'[i].new = Api("bindings")'[Unheard'[i].name]
    <3> DEFINE N == Names["bindings"]
               O == Maybe(Objects["bindings"])
               s == streams["bindings"]
               t == streams'["bindings"]
    <3>1. /\ IsFiniteSet(N) /\ NoObject \in O
          /\ StreamOK(s, N, O) /\ Moves(s, t, N, O)
      BY <1>1, <2>1, KindsOf DEF Typed, StreamTyped, MovesOf
    <3> HIDE DEF N, O, s, t
    <3>2. \A i \in 1..Len(t.events) :
            \/ \E j \in 1..Len(s.events) : t.events[i] = s.events[j]
            \/ t.events[i].new = t.api[t.events[i].name]
      BY <3>1, MovesTell
    <3> QED
      BY <3>2 DEF s, t, Unheard, Api
  <2>4. ASSUME NEW i \in 1..Len(Unheard'), Unheard'[i].new = NoObject
        PROVE  \E k \in Bindings : k = Unheard'[i].name /\ Gone(k)'
    <3>1. PICK k \in Bindings : k = Unheard'[i].name
      BY <2>2
    <3>2. CASE \E j \in 1..Len(Unheard) : Unheard'[i] = Unheard[j]
      <4>1. Gone(k)
        BY <2>4, <3>1, <3>2 DEF FarewellInv
      <4>2. Gone(k)'
        BY <4>1, GoneStays
      <4> QED
        BY <3>1, <4>2
    <3>3. CASE Api("bindings")'[k] = NoObject
      <4>1. workloads'[k] = NoObject
        BY <1>3, <2>2, <2>4, <3>1, <3>3
      <4>2. Gone(k)'
        BY <3>3, <4>1 DEF Gone
      <4> QED
        BY <3>1, <4>2
    <3> QED
      BY <2>3, <2>4, <3>1, <3>2, <3>3
  <2> QED
    BY <2>4 DEF FarewellInv, Gone
<1> QED
  BY <1>4, <1>5, <1>6

\* Only a deletion takes an info away, and only an info is dispatched.
LEMMA BreakStep ==
    ASSUME IInv, FarewellInv, BreakInv, Next
    PROVE  BreakInv'
<1>1. /\ Typed /\ dc \in Cache /\ dc.infos \in [Bindings -> Maybe(Info)]
      /\ tasks \subseteq Bindings /\ patch \in [Bindings -> {"none", "sent", "failed", "broken"}]
  BY DEF IInv, Typed, TypeOK, Cache
<1>2. \A k \in Bindings : Gone(k) => Gone(k)'
  BY GoneStays
<1>3. ASSUME UNCHANGED dispatch,
             \A k \in Bindings : dc'.infos[k] = NoObject => dc.infos[k] = NoObject \/ Gone(k)
      PROVE  BreakInv'
  BY <1>1, <1>2, <1>3 DEF BreakInv, dispatch
<1>4. CASE Restart
  <2>1. tasks' = {} /\ patch' = [k \in Bindings |-> "none"]
    BY <1>4 DEF Restart
  <2> QED
    BY <2>1 DEF BreakInv
<1>5. CASE \/ CreateAnswered \/ \E applied \in BOOLEAN : CreateFails(applied)
           \/ \E kind \in StreamKinds : List(kind) \/ LoseWatch(kind)
           \/ \E kind \in StreamKinds \ {"bindings"} :
                \E x \in Names[kind], obj \in Specs[kind] \cup {NoObject} : ChangeObject(kind, x, obj)
           \/ \E k \in Bindings : \/ \E spec \in Workloads \cup {NoObject} : ChangeWorkload(k, spec)
                                  \/ SyncBinding(k)
  <2>1. dc' = dc /\ UNCHANGED dispatch
    BY <1>5 DEF CreateAnswered, CreateFails, List, LoseWatch, ChangeObject, ChangeWorkload,
                SyncBinding, CreateBinding, UpdateBinding, DeleteBinding
  <2> QED
    BY <1>3, <2>1
<1>6. CASE HandleQueue \/ HandlePriorityClass \/ HandleCluster
  <2>1. UNCHANGED dispatch /\ dc'.infos = dc.infos
    BY <1>6, OtherHandlers DEF HandleQueue, HandlePriorityClass, HandleCluster, Take
  <2> QED
    BY <1>3, <2>1
<1>7. CASE HandleBinding
  <2>1. PICK v : View("bindings", v)
    BY DEF IInv, BindingInv
  <2>2. PICK n \in Notes("bindings") :
          /\ n = FirstOf("bindings")
          /\ \E got \in Maybe(Templates(Queues, Classes)) : Got(n, got)
    BY <1>1, <1>7, <2>1, BindingTaken
  <2>3. PICK got \in Maybe(Templates(Queues, Classes)) : Got(n, got)
    BY <2>2
  <2>4. n.name \in Bindings /\ n.new \in Maybe(Binding)
    BY KindsOf DEF Notes
  <2>5. UNCHANGED dispatch /\ Unheard # << >>
    BY <1>7 DEF HandleBinding, Take, Unheard
  <2>6. n.new = NoObject => Gone(n.name)
    <3>1. StreamTyped("bindings")
      BY <1>1, KindsOf DEF Typed
    <3>2. Unheard \in Seq(Notes("bindings"))
      BY <3>1 DEF StreamTyped, StreamOK, Notes, Unheard
    <3>3. 1 \in 1..Len(Unheard) /\ n = Unheard[1]
      BY <2>2, <2>5, <3>2 DEF FirstOf, Unheard
    <3> QED
      BY <3>3 DEF FarewellInv
  <2>7. \A k \in Bindings : dc'.infos[k] = NoObject => dc.infos[k] = NoObject \/ Gone(k)
    <3>1. \A k \in Bindings \ {n.name} : dc'.infos[k] = dc.infos[k]
      BY <1>1, <2>3, <2>4 DEF Got, Cache
    <3>2. CASE n.new = NoObject
      BY <2>6, <3>1, <3>2
    <3>3. CASE n.new # NoObject /\ dc' = dc
      BY <3>3
    <3>4. CASE /\ n.new # NoObject /\ got # NoObject
               /\ dc' = [dc EXCEPT !.infos[n.name] = InfoOf(n.new, got)]
      <4>1. dc'.infos[n.name] = InfoOf(n.new, got)
        BY <1>1, <2>4, <3>4 DEF Cache
      <4>2. n.new \in Binding /\ got \in Templates(Queues, Classes)
        BY <2>4, <3>4 DEF Maybe
      <4>3. InfoOf(n.new, got) # NoObject
        BY <4>2, InfoType, CacheViewAssumption
      <4> QED
        BY <3>1, <4>1, <4>3
    <3> QED
      BY <2>3, <3>2, <3>3, <3>4 DEF Got
  <2> QED
    BY <1>3, <2>5, <2>7
<1>8. CASE TakeSnapshot
  <2>1. tasks' = tasks /\ patch' = patch /\ (dc' = dc \/ dc' = Snapshot(dc))
    BY <1>8 DEF TakeSnapshot
  <2>2. \A k \in Bindings : dc'.infos[k] = NoObject => dc.infos[k] = NoObject
    BY <1>1, <2>1, SnapshotInfos
  <2> QED
    BY <1>1, <1>2, <2>1, <2>2 DEF BreakInv
<1>9. ASSUME NEW x \in Bindings, UnSuspendResourceBinding(x)
      PROVE  BreakInv'
  <2>1. patch' = patch
    BY <1>9 DEF UnSuspendResourceBinding
  <2>2. CASE dc' = dc /\ tasks' = tasks
    BY <1>1, <1>2, <2>1, <2>2 DEF BreakInv
  <2>3. CASE dc.infos[x] # NoObject /\ dc' = [dc EXCEPT !.infos[x].status = "UnSuspending"]
             /\ tasks' = tasks \cup {x}
    <3>1. \A k \in Bindings : dc'.infos[k] = NoObject <=> dc.infos[k] = NoObject
      BY <1>1, <2>3, StatusInfos DEF Status
    <3> QED
      BY <1>1, <1>2, <2>1, <2>3, <3>1 DEF BreakInv
  <2> QED
    BY <1>9, <2>2, <2>3 DEF UnSuspendResourceBinding
<1>10. ASSUME NEW x \in Bindings, TaskWorker(x)
       PROVE  BreakInv'
  <2>1. /\ dc' = dc /\ x \in tasks /\ tasks' = tasks \ {x}
        /\ patch' = [patch EXCEPT ![x] = IF dc.infos[x] = NoObject THEN "broken" ELSE "sent"]
    BY <1>10 DEF TaskWorker
  <2>2. /\ \A k \in Bindings \ {x} : patch'[k] = patch[k]
        /\ patch'[x] = "broken" => dc.infos[x] = NoObject
    BY <1>1, <2>1
  <2> QED
    BY <1>1, <1>2, <2>1, <2>2 DEF BreakInv
<1>11. ASSUME NEW x \in Bindings, NEW applied \in BOOLEAN,
              PatchAnswered(x) \/ PatchFails(x, applied)
       PROVE  BreakInv'
  <2>1. /\ dc' = dc /\ tasks' = tasks
        /\ patch' = [patch EXCEPT ![x] = "none"] \/ patch' = [patch EXCEPT ![x] = "failed"]
    BY <1>11 DEF PatchAnswered, PatchFails
  <2>2. \A k \in Bindings : patch'[k] = "broken" => patch[k] = "broken"
    BY <1>1, <2>1
  <2> QED
    BY <1>1, <1>2, <2>1, <2>2 DEF BreakInv
<1>12. ASSUME NEW x \in Bindings, PatchRecovers(x)
       PROVE  BreakInv'
  <2>1. tasks' = tasks /\ patch' = [patch EXCEPT ![x] = "none"]
    BY <1>12 DEF PatchRecovers
  <2>2. \A k \in Bindings : patch'[k] = "broken" => patch[k] = "broken"
    BY <1>1, <2>1
  <2>3. \A k \in Bindings : dc'.infos[k] = NoObject => dc.infos[k] = NoObject
    <3>1. CASE dc' = dc
      BY <3>1
    <3>2. CASE dc.infos[x] # NoObject /\ dc' = [dc EXCEPT !.infos[x].status = "Suspended"]
      BY <1>1, <3>2, StatusInfos DEF Status
    <3> QED
      BY <1>12, <3>1, <3>2 DEF PatchRecovers
  <2> QED
    BY <1>1, <1>2, <2>1, <2>2, <2>3 DEF BreakInv
<1> QED
  BY <1>4, <1>5, <1>6, <1>7, <1>8, <1>9, <1>10, <1>11, <1>12
  DEF Next, Handle, Patching
-----------------------------------------------------------------------------
(* The invariant is inductive. *)

LEMMA InitInv == Init => IInv
<1> SUFFICES ASSUME Init
             PROVE  IInv
  OBVIOUS
<1>1. PICK s \in Scenarios : streams = Fresh(s.api) /\ workloads = s.workloads
                             /\ budget = s.budget
  BY DEF Init
<1>2. /\ \A kind \in StreamKinds : s.api[kind] \in [Names[kind] -> Maybe(Objects[kind])]
      /\ workloads \in [Bindings -> Maybe(Workload)] /\ budget \in [Changes -> Nat]
      /\ OneDefault(s.api["classes"])
      /\ \A k \in Live(s.api["bindings"]) : Admitted(s.api["bindings"][k], workloads[k])
  BY <1>1, CacheViewAssumption
<1> DEFINE v(kind) == [i \in {0} |-> [x \in Names[kind] |-> NoObject]]
<1>3. /\ streams = [kind \in StreamKinds |-> streams[kind]]
      /\ \A kind \in StreamKinds : /\ StreamTyped(kind) /\ View(kind, v(kind))
                                   /\ Api(kind) = s.api[kind]
  <2>1. PICK api : api = s.api
    OBVIOUS
  <2>2. /\ \A kind \in StreamKinds : api[kind] \in [Names[kind] -> Maybe(Objects[kind])]
        /\ streams = Fresh(api)
    BY <1>1, <1>2, <2>1
  <2>3. /\ streams = [kind \in StreamKinds |-> streams[kind]]
        /\ \A kind \in StreamKinds :
             /\ StreamOK(streams[kind], Names[kind], Maybe(Objects[kind]))
             /\ streams[kind].api = api[kind]
             /\ Replay(streams[kind], [i \in {0} |-> [x \in Names[kind] |-> NoObject]],
                       Names[kind], Maybe(Objects[kind]))
    BY <2>2, FreshViews
  <2>4. ASSUME NEW kind \in StreamKinds
        PROVE  /\ StreamTyped(kind) /\ View(kind, v(kind))
               /\ Api(kind) = s.api[kind]
    BY <2>1, <2>3 DEF StreamTyped, View, Api
  <2> HIDE DEF v
  <2> QED
    BY <2>3, <2>4
<1>4. /\ dc = FreshCache /\ dc \in Cache /\ dc.default = NoObject
      /\ dc.queues = [x \in Queues |-> NoObject] /\ dc.classes = [x \in Classes |-> NoObject]
      /\ dc.infos = [x \in Bindings |-> NoObject] /\ dc.clusters = [x \in Clusters |-> NoObject]
  BY EmptyTyped DEF Init, FreshCache, EmptyCache
<1>5. /\ v("queues")[0] = [x \in Queues |-> NoObject]
      /\ v("classes")[0] = [x \in Classes |-> NoObject]
      /\ v("clusters")[0] = [x \in Clusters |-> NoObject]
      /\ v("bindings")[0] = [x \in Bindings |-> NoObject]
      /\ DOMAIN v("classes") = {0} /\ DOMAIN v("bindings") = {0}
  BY KindsOf
<1> HIDE DEF v
<1>6. Typed
  <2>1. Attempts \in Nat \ {0} /\ phase = "starting" /\ attempts = 0
        /\ session = {} /\ tasks = {} /\ patch = [k \in Bindings |-> "none"]
        /\ unread = {} /\ recovered = {}
    BY CacheViewAssumption DEF Init
  <2>2. \A kind \in StreamKinds :
          /\ Api(kind) \in [Names[kind] -> Maybe(Objects[kind])]
          /\ streams[kind].watch \in {"unlisted", "on", "lost"}
    BY <1>3 DEF StreamTyped, StreamOK, Api
  <2>3. TypeOK
    BY <1>2, <1>4, <2>1, <2>2 DEF TypeOK
  <2> QED
    BY <1>3, <2>1, <2>3 DEF Typed
<1>7. QueueInv
  BY <1>3, <1>4, <1>5, KindsOf DEF QueueInv
<1>8. ClassInv
  <2>1. OneDefault(v("classes")[0])
    BY <1>5 DEF OneDefault, Live
  <2>2. DefaultIs
    BY <1>4 DEF DefaultIs, Live
  <2>3. ClassTold(v("classes"))
    BY <1>4, <1>5, <2>1, <2>2 DEF ClassTold
  <2>4. NoStaleDefault
    BY <1>4 DEF NoStaleDefault
  <2> QED
    BY <1>2, <1>3, <2>3, <2>4, KindsOf DEF ClassInv
<1>9. ClusterInv
  <2>1. ClusterTold(v("clusters")[0])
    BY <1>4, <1>5 DEF ClusterTold
  <2> QED
    BY <1>3, <2>1, KindsOf DEF ClusterInv
<1>10. BindingInv
  <2>1. ASSUME NEW k \in Bindings
        PROVE  Genuine(k, Api("bindings")[k])
    <3>1. Api("bindings") = s.api["bindings"] /\ DOMAIN Api("bindings") = Bindings
      BY <1>2, <1>3, KindsOf
    <3> QED
      BY <1>2, <2>1, <3>1 DEF Genuine, Live
  <2>2. \A k \in Bindings : InfoFits(k, NoObject) /\ Genuine(k, NoObject)
    BY <1>4 DEF InfoFits, Genuine
  <2>3. BindingTold(v("bindings"))
    BY <1>5, <2>2 DEF BindingTold
  <2> QED
    BY <1>3, <2>1, <2>3, KindsOf DEF BindingInv
<1>11. TaskInv
  BY <1>4 DEF TaskInv
<1> QED
  BY <1>6, <1>7, <1>8, <1>9, <1>10, <1>11 DEF IInv

LEMMA StutterInv == IInv /\ UNCHANGED vars => IInv'
<1> SUFFICES ASSUME IInv, UNCHANGED vars
             PROVE  IInv'
  OBVIOUS
<1>1. /\ phase' = phase /\ attempts' = attempts /\ streams' = streams /\ workloads' = workloads
      /\ dc' = dc /\ unread' = unread /\ budget' = budget
      /\ session' = session /\ tasks' = tasks /\ patch' = patch /\ recovered' = recovered
  BY DEF vars
<1>2. Typed'
  BY <1>1 DEF IInv, Typed, TypeOK, StreamTyped, Api
<1>3. QueueInv' /\ ClusterInv'
  BY <1>1 DEF IInv, QueueInv, ClusterInv, View, ClusterTold
<1>4. ClassInv'
  BY <1>1 DEF IInv, ClassInv, View, ClassTold, DefaultIs, NoStaleDefault, Api
<1>5. BindingInv'
  BY <1>1 DEF IInv, BindingInv, View, BindingTold, InfoFits, Genuine, Api
<1>6. TaskInv'
  BY <1>1 DEF IInv, TaskInv, Owed, Api
<1> QED
  BY <1>2, <1>3, <1>4, <1>5, <1>6 DEF IInv

LEMMA Inductive == Spec => []IInv
<1>1. IInv /\ [Next]_vars => IInv'
  <2>1. ASSUME IInv, Next
        PROVE  IInv'
    BY <2>1, TypedStep, QueueStep, ClassStep, ClusterStep, BindingStep, TaskStep DEF IInv
  <2> QED
    BY <2>1, StutterInv
<1> QED
  BY <1>1, InitInv, PTL DEF Spec

\* Before anything was told, and before any task, nothing is held against it.
LEMMA BreakStarts == Init => FarewellInv /\ BreakInv
<1> SUFFICES ASSUME Init
             PROVE  FarewellInv /\ BreakInv
  OBVIOUS
<1>1. PICK s \in Scenarios : streams = Fresh(s.api)
  BY DEF Init
<1>2. "bindings" \in StreamKinds
  BY KindsOf
<1>3. Unheard = << >>
  BY <1>1, <1>2 DEF Fresh, Stream, Unheard
<1>4. FarewellInv
  BY <1>3 DEF FarewellInv
<1>5. tasks = {} /\ patch = [k \in Bindings |-> "none"]
  BY DEF Init
<1>6. BreakInv
  BY <1>5 DEF BreakInv
<1> QED
  BY <1>4, <1>6

LEMMA BreakStutters ==
    FarewellInv /\ BreakInv /\ UNCHANGED vars => FarewellInv' /\ BreakInv'
<1> SUFFICES ASSUME FarewellInv, BreakInv, UNCHANGED vars
             PROVE  FarewellInv' /\ BreakInv'
  OBVIOUS
<1>1. /\ streams' = streams /\ workloads' = workloads /\ dc' = dc
      /\ tasks' = tasks /\ patch' = patch
  BY DEF vars
<1>2. FarewellInv'
  BY <1>1 DEF FarewellInv, Unheard, Gone, Api
<1>3. BreakInv'
  BY <1>1 DEF BreakInv, Gone, Api
<1> QED
  BY <1>2, <1>3

LEMMA BreakSafe == Spec => [](IInv /\ FarewellInv /\ BreakInv)
<1>1. IInv /\ FarewellInv /\ BreakInv /\ [Next]_vars => (IInv /\ FarewellInv /\ BreakInv)'
  <2>1. ASSUME IInv, FarewellInv, BreakInv, Next
        PROVE  IInv' /\ FarewellInv' /\ BreakInv'
    <3>1. IInv'
      BY <2>1, TypedStep, QueueStep, ClassStep, ClusterStep, BindingStep, TaskStep DEF IInv
    <3>2. FarewellInv'
      BY <2>1, FarewellStep
    <3>3. BreakInv'
      BY <2>1, BreakStep
    <3> QED
      BY <3>1, <3>2, <3>3
  <2> QED
    BY <2>1, StutterInv, BreakStutters
<1> QED
  BY <1>1, InitInv, BreakStarts, PTL DEF Spec

\* When every notification is handled a handler was told what there is.
LEMMA QuietView ==
    ASSUME Typed, NEW kind \in StreamKinds, NEW v, View(kind, v), Quiet(streams[kind])
    PROVE  v[0] = Api(kind) /\ 0 \in DOMAIN v
<1>1. streams[kind].watch = "on" /\ streams[kind].events = << >>
  BY DEF Quiet
<1>2. Len(streams[kind].events) = 0
  BY <1>1
<1>3. streams[kind].known = Api(kind)
  BY <1>1 DEF Typed, StreamTyped, StreamOK, Api
<1> QED
  BY <1>2, <1>3 DEF View, Replay
-----------------------------------------------------------------------------
(* The theorems. *)

\* Every variable keeps its type: among others, the cache holds of every kind
\* objects that the API server had, and no budget or counter is overdrawn.
THEOREM ViewTypeCorrect == Spec => []TypeOK
<1>1. IInv => TypeOK
  BY DEF IInv, Typed
<1> QED
  BY <1>1, Inductive, PTL

\* Once their notifications are handled the cache's queues and classes are the
\* API server's, after any losses of the watch, relists, tombstones and
\* restarts (addQueue ... deletePriorityClass).
THEOREM CacheMirrors == Spec => []Mirrors
<1>1. ASSUME IInv
      PROVE  Mirrors
  <2>1. ASSUME Quiet(streams.queues)
        PROVE  dc.queues = Api("queues")
    <3>1. PICK v : View("queues", v) /\ v[0] = dc.queues
      BY <1>1 DEF IInv, QueueInv
    <3> QED
      BY <1>1, <2>1, <3>1, KindsOf, QuietView DEF IInv
  <2>2. ASSUME Quiet(streams.classes)
        PROVE  dc.classes = Api("classes")
    <3>1. PICK v : View("classes", v) /\ v[0] = dc.classes
      BY <1>1 DEF IInv, ClassInv, ClassTold
    <3> QED
      BY <1>1, <2>2, <3>1, KindsOf, QuietView DEF IInv
  <2> QED
    BY <2>1, <2>2 DEF Mirrors
<1> QED
  BY <1>1, Inductive, PTL

\* In every order of notifications the default class is one the cache holds, as
\* it holds it (setPriorityClass, updatePriorityClass, deletePriorityClass).
THEOREM DefaultNeverStale == Spec => []NoStaleDefault
<1>1. IInv => NoStaleDefault
  BY DEF IInv, ClassInv
<1> QED
  BY <1>1, Inductive, PTL

\* While no watch was lost, the cache's default class is the API server's once
\* the notifications are handled, whatever hand-overs there were.
THEOREM DefaultIsFollowed == Spec => []DefaultFollows
<1>1. ASSUME IInv, Quiet(streams.classes), streams.classes.intact,
             NEW c \in Live(Api("classes"))
      PROVE  Api("classes")[c].default <=> dc.default # NoObject /\ dc.default.name = c
  <2>1. PICK v : View("classes", v) /\ ClassTold(v)
    BY <1>1 DEF IInv, ClassInv
  <2>2. DefaultIs /\ v[0] = dc.classes
    BY <1>1, <2>1 DEF ClassTold
  <2>3. dc.classes = Api("classes")
    BY <1>1, <2>1, <2>2, KindsOf, QuietView DEF IInv
  <2> QED
    BY <1>1, <2>2, <2>3 DEF DefaultIs
<1>2. IInv => DefaultFollows
  BY <1>1 DEF DefaultFollows
<1> QED
  BY <1>2, Inductive, PTL

\* The cached clusters are such as the API server has them, and none that is
\* ready is missing, once the notifications are handled (addCluster,
\* updateCluster, deleteCluster).
THEOREM ClustersAreFollowed == Spec => []ClustersFollow
<1>1. ASSUME IInv, Quiet(streams.clusters)
      PROVE  ClusterTold(Api("clusters"))
  <2>1. PICK v : View("clusters", v) /\ ClusterTold(v[0])
    BY <1>1 DEF IInv, ClusterInv
  <2>2. v[0] = Api("clusters")
    BY <1>1, <2>1, KindsOf, QuietView DEF IInv
  <2> QED
    BY <2>1, <2>2
<1>2. IInv => ClustersFollow
  BY <1>1 DEF ClustersFollow, ClusterTold
<1> QED
  BY <1>2, Inductive, PTL

\* What the invariant says of a binding whose notifications are handled.
LEMMA QuietBinding ==
    ASSUME IInv, Quiet(streams.bindings), NEW k \in Bindings
    PROVE  InfoFits(k, Api("bindings")[k]) /\ Genuine(k, Api("bindings")[k])
<1>1. PICK v : View("bindings", v) /\ BindingTold(v)
  BY DEF IInv, BindingInv
<1>2. v[0] = Api("bindings")
  BY <1>1, KindsOf, QuietView DEF IInv
<1> QED
  BY <1>1, <1>2 DEF BindingTold, IInv, BindingInv

\* An info has the queue and class its workload names now, although the workload
\* was read at another time than the binding was notified; a binding that is
\* gone has none (setResourceBinding).
THEOREM InfoFollows == Spec => []InfoFollowsWorkload
<1>1. ASSUME IInv, Quiet(streams.bindings), NEW k \in Bindings
      PROVE  /\ Api("bindings")[k] = NoObject => dc.infos[k] = NoObject
             /\ InStep(k) /\ Reads(Api("bindings")[k]) /\ k \notin unread =>
                  /\ dc.infos[k] # NoObject
                  /\ dc.infos[k].queue = NewWorkload(workloads[k].spec).queue
                  /\ dc.infos[k].class = workloads[k].spec.class
  <2>1. InfoFits(k, Api("bindings")[k])
    BY <1>1, QuietBinding
  <2> QED
    BY <2>1 DEF InfoFits, InStep
<1>2. IInv => InfoFollowsWorkload
  BY <1>1 DEF InfoFollowsWorkload
<1> QED
  BY <1>2, Inductive, PTL

\* An info's status is that of its binding, but for a task under way, or for a
\* patch answered by an error: of the handlers, the rounds and the goroutines
\* that write it none leaves it behind (resource_binding_processor.go).
THEOREM StatusFollows == Spec => []StatusFollowsBinding
<1>1. ASSUME IInv, BreakInv, Quiet(streams.bindings), NEW k \in Live(Api("bindings")) \ unread,
             Reads(Api("bindings")[k])
      PROVE  /\ dc.infos[k].status = "UnSuspended" => ~Api("bindings")[k].suspended
             /\ dc.infos[k].status = "UnSuspending" /\ Api("bindings")[k].suspended => InTask(k)
             /\ dc.infos[k].status = "Suspended" /\ ~Api("bindings")[k].suspended
                  => k \in recovered
  <2>1. k \in Bindings /\ Api("bindings")[k] # NoObject
    BY <1>1, KindsOf DEF IInv, Typed, TypeOK, Live
  <2>2. InfoFits(k, Api("bindings")[k])
    BY <1>1, <2>1, QuietBinding
  <2>3. dc.infos[k].status = "UnSuspending" /\ Api("bindings")[k].suspended => Owed(k)
    BY <1>1, <2>1, <2>2 DEF InfoFits, IInv, TaskInv
  <2>4. patch[k] # "broken"
    BY <1>1, <2>1 DEF BreakInv, Gone
  <2>5. Owed(k) => InTask(k)
    BY <2>4 DEF Owed, InTask
  <2> QED
    BY <1>1, <2>1, <2>2, <2>3, <2>5 DEF InfoFits, IInv, TaskInv
<1>2. IInv /\ BreakInv => StatusFollowsBinding
  BY <1>1 DEF StatusFollowsBinding
<1> QED
  BY <1>2, BreakSafe, PTL

\* What the webhook suspends on its own account has an info, unless its
\* workload could not be read: the registry's two callers never disagree.
THEOREM SuspendedHasInfo == Spec => []SuspendedIsKnown
<1>1. ASSUME IInv, Quiet(streams.bindings), NEW k \in Live(Api("bindings")) \ unread,
             Api("bindings")[k].suspended, ~Api("bindings")[k].asked
      PROVE  dc.infos[k] # NoObject
  <2>1. k \in Bindings /\ Api("bindings")[k] # NoObject
    BY <1>1, KindsOf DEF IInv, Typed, TypeOK, Live
  <2>2. InfoFits(k, Api("bindings")[k]) /\ Genuine(k, Api("bindings")[k])
    BY <1>1, <2>1, QuietBinding
  <2> QED
    BY <1>1, <2>1, <2>2 DEF InfoFits, Genuine, Admitted
<1>2. IInv => SuspendedIsKnown
  BY <1>1 DEF SuspendedIsKnown
<1> QED
  BY <1>2, Inductive, PTL

\* A snapshot ranks a binding by the class its workload names as the API server
\* has it, or by the default class, whichever informer came first (Snapshot,
\* snapshot.go).
THEOREM SnapshotRanksByClass == Spec => []RankedByItsClass
<1>1. ASSUME IInv, Quiet(streams.classes), streams.classes.intact, Quiet(streams.bindings),
             NEW k \in Seen(dc) \ unread, InStep(k)
      PROVE  LET class == workloads[k].spec.class
             IN IF class # NoClass THEN PriorityOf(dc, k) = Api("classes")[class].value
                ELSE \A c \in Defaults : PriorityOf(dc, k) = Api("classes")[c].value
  <2>1. k \in Bindings /\ dc.infos[k] # NoObject
    BY <1>1 DEF IInv, Typed, TypeOK, Cache, Seen, Live
  <2>2. InfoFits(k, Api("bindings")[k]) /\ Genuine(k, Api("bindings")[k])
    BY <1>1, <2>1, QuietBinding
  <2>3. Reads(Api("bindings")[k])
    BY <1>1, <2>1, <2>2 DEF InfoFits, Genuine, Admitted, InStep, Reads
  <2>4. dc.infos[k].class = workloads[k].spec.class
    BY <1>1, <2>2, <2>3 DEF InfoFits, InStep
  <2>5. PICK v : View("classes", v) /\ ClassTold(v)
    BY <1>1 DEF IInv, ClassInv
  <2>6. DefaultIs /\ dc.classes = Api("classes")
    BY <1>1, <2>5, KindsOf, QuietView DEF IInv, ClassTold
  <2>7. ASSUME workloads[k].spec.class = NoClass, NEW c \in Defaults
        PROVE  PriorityOf(dc, k) = Api("classes")[c].value
    <3>1. dc.default # NoObject /\ dc.default.name = c
      BY <2>6, <2>7 DEF DefaultIs, Defaults
    <3>2. dc.classes[c] = dc.default.class
      BY <1>1, <3>1 DEF IInv, ClassInv, NoStaleDefault
    <3> QED
      BY <2>4, <2>6, <2>7, <3>1, <3>2 DEF PriorityOf
  <2> QED
    BY <2>4, <2>6, <2>7 DEF PriorityOf
<1>2. IInv => RankedByItsClass
  BY <1>1 DEF RankedByItsClass
<1> QED
  BY <1>2, Inductive, PTL
=============================================================================
