------------------------------ MODULE CacheView -----------------------------
(***************************************************************************)
(* From the API server to a snapshot: the start of the controller with the *)
(* creation of its default queue, four informers that feed the handlers of *)
(* the cache, each at its own pace and each may lose its watch, Karmada    *)
(* and the webhook that create the bindings of workloads, and snapshots.   *)
(* Which bindings a round dispatches is in module DispatchRound, what else *)
(* the dispatcher promises in module Dispatcher; here a round dispatches   *)
(* any of those its snapshot showed.                                       *)
(***************************************************************************)
EXTENDS CacheHandlers

CONSTANTS
    Queues, Classes, Clusters, Bindings,  \* names
    DefaultQueue,   \* option.DefaultQueueName
    Specs,          \* Specs[kind]: the states an object of that kind may be in
    Workloads,      \* the pod or job templates a workload may have
    Attempts,       \* Steps of CreateDefaultQueue's Backoff
    Scenarios       \* what exists when the process starts, and a bound on each
                    \* sort of change that may follow

StreamKinds == {"queues", "classes", "clusters", "bindings"}
Watch == [queues |-> "queue watch", classes |-> "class watch",
          clusters |-> "cluster watch", bindings |-> "binding watch"]
Changes ==
    StreamKinds     \* an object is created, changed or deleted, a binding dispatched
    \cup {Watch[kind] : kind \in StreamKinds}  \* an informer loses its watch
    \cup
    { "workload",   \* a workload is updated or deleted
      "unread",     \* the GET of a workload fails
      "patch",      \* the patch of a binding is answered by an error
      "error" }     \* the create of the default queue is answered by an error

Class == [value : Nat, default : BOOLEAN]
Cluster == [ready : {"none", "True", "False"}, allocatable : Nat \cup {NoSummary}]
Binding == [kind : Kinds, ref : Nat, asked : BOOLEAN, suspended : BOOLEAN]

Info == [queue : Queues \cup {Unnamed}, class : Classes \cup {NoClass},
         priority : Nat, status : Status]
Default == [name : Classes, class : Specs.classes]
Workload == [spec : Workloads, version : Nat]

Names == [queues |-> Queues, classes |-> Classes, clusters |-> Clusters, bindings |-> Bindings]
Objects == [queues |-> Specs.queues, classes |-> Specs.classes,
            clusters |-> Specs.clusters, bindings |-> Binding]

Maybe(S) == S \cup {NoObject}

\* A binding as the webhook and Karmada leave it.
Admitted(rb, w) ==
    /\ rb.suspended /\ ~rb.asked => Reads(rb)
    /\ w # NoObject => rb.kind = w.spec.kind /\ rb.ref <= w.version

\* Admission lets one class at a time be the default.
OneDefault(classes) ==
    \A c, d \in Live(classes) : classes[c].default /\ classes[d].default => c = d

ASSUME CacheViewAssumption ==
    /\ DefaultQueue \in Queues
    /\ \A kind \in StreamKinds : IsFiniteSet(Names[kind])
    /\ Specs.queues \subseteq Nat /\ 0 \in Specs.queues
    /\ Specs.classes \subseteq Class /\ Specs.clusters \subseteq Cluster
    /\ Workloads \subseteq Templates(Queues, Classes)
    /\ NoObject \notin Nat \cup Class \cup Cluster \cup Binding \cup Info \cup Default
                       \cup Templates(Queues, Classes) \cup Workload
    /\ Attempts \in Nat \ {0}
    /\ \A s \in Scenarios :
         /\ \A kind \in StreamKinds : s.api[kind] \in [Names[kind] -> Maybe(Objects[kind])]
         /\ s.workloads \in [Bindings -> Maybe(Workload)]
         /\ s.budget \in [Changes -> Nat]
         /\ OneDefault(s.api["classes"])
         /\ \A k \in Live(s.api["bindings"]) : Admitted(s.api["bindings"][k], s.workloads[k])

VARIABLES
    phase,      \* of the process: "starting", "running" or "dead"
    attempts,   \* failed attempts at creating the default queue
    streams,    \* streams[kind]: the API server's objects and their informer
    workloads,  \* workloads[k]: the workload of binding k and its version
    dc,         \* the DispatcherCache
    session,    \* bindings the last snapshot showed suspended, not dispatched since
    tasks,      \* dc.unSuspendRBTaskQueue: the keys no worker has taken yet
    patch,      \* patch[k]: where the goroutine that patches k is; "broken" when a
                \* worker broke off with k, which stays in processing
    unread,     \* history: bindings whose last handler could not read the workload
    recovered,  \* history: bindings whose patch failed after they were last set
    budget      \* the changes left

vars == <<phase, attempts, streams, workloads, dc, session, tasks, patch,
          unread, recovered, budget>>

\* What belongs to the dispatch of bindings.
dispatch == <<session, tasks, patch>>

FreshCache == EmptyCache(Queues, Classes, Bindings, Clusters)
Fresh(api) == [kind \in StreamKinds |-> Stream(api[kind])]

Init ==
    /\ phase = "starting"
    /\ attempts = 0
    /\ \E s \in Scenarios : /\ streams = Fresh(s.api)
                            /\ workloads = s.workloads
                            /\ budget = s.budget
    /\ dc = FreshCache
    /\ session = {} /\ tasks = {} /\ patch = [k \in Bindings |-> "none"]
    /\ unread = {} /\ recovered = {}

Spend(change) == /\ budget[change] > 0
                 /\ budget' = [budget EXCEPT ![change] = @ - 1]

Api(kind) == streams[kind].api
WriteTo(kind, x, obj) == streams' = [streams EXCEPT ![kind] = Write(@, x, obj)]
-----------------------------------------------------------------------------
(* The process: NewDispatcherCache creates the default queue, then Run      *)
(* starts the informers; a panic ends it and it is started again.           *)

\* A create that reaches the API server does nothing if the queue exists.
ApplyCreate ==
    IF Api("queues")[DefaultQueue] = NoObject
    THEN WriteTo("queues", DefaultQueue, 0)
    ELSE UNCHANGED streams

\* The create succeeds or the queue exists; either ends the retries.
CreateAnswered ==
    /\ phase = "starting"
    /\ phase' = "running"
    /\ ApplyCreate
    /\ UNCHANGED <<attempts, workloads, dc, dispatch, unread, recovered, budget>>

\* Mutant of CreateFails: one attempt too many.
CreateFailsLate(applied) ==
    /\ phase = "starting"
    /\ Spend("error")
    /\ attempts' = attempts + 1
    /\ phase' = IF attempts' > Attempts THEN "dead" ELSE "starting"
    /\ IF applied THEN ApplyCreate ELSE UNCHANGED streams
    /\ UNCHANGED <<workloads, dc, dispatch, unread, recovered>>

\* Any other error, whether or not the create took effect, is retried; the
\* last attempt's is a panic.
CreateFails(applied) ==
    /\ phase = "starting"
    /\ Spend("error")
    /\ attempts' = attempts + 1
    /\ phase' = IF attempts' = Attempts THEN "dead" ELSE "starting"
    /\ IF applied THEN ApplyCreate ELSE UNCHANGED streams
    /\ UNCHANGED <<workloads, dc, dispatch, unread, recovered>>

Restart ==
    /\ phase = "dead"
    /\ phase' = "starting"
    /\ attempts' = 0
    /\ streams' = Fresh([kind \in StreamKinds |-> Api(kind)])
    /\ dc' = FreshCache
    /\ session' = {} /\ tasks' = {} /\ patch' = [k \in Bindings |-> "none"]
    /\ unread' = {} /\ recovered' = {}
    /\ UNCHANGED <<workloads, budget>>
-----------------------------------------------------------------------------
(* The informers and the handlers, each kind in a goroutine of its own.     *)

\* The first list, or the next after a watch was lost.
List(kind) ==
    /\ phase = "running"
    /\ streams[kind].watch # "on"
    /\ \E s \in Lists(streams[kind]) : streams' = [streams EXCEPT ![kind] = s]
    /\ UNCHANGED <<phase, attempts, workloads, dc, dispatch, unread, recovered, budget>>

LoseWatch(kind) ==
    /\ phase = "running"
    /\ streams[kind].watch = "on"
    /\ Spend(Watch[kind])
    /\ streams' = [streams EXCEPT ![kind] = Lose(@)]
    /\ UNCHANGED <<phase, attempts, workloads, dc, dispatch, unread, recovered>>

FirstOf(kind) == Head(streams[kind].events)

Take(kind) ==
    /\ phase = "running"
    /\ streams[kind].events # << >>
    /\ streams' = [streams EXCEPT ![kind].events = Tail(@)]
    /\ UNCHANGED <<phase, attempts, workloads, dispatch>>

\* Which of a kind's handlers a notification is for.
Handled(n, added, updated, deleted) ==
    IF n.old = NoObject THEN added ELSE IF n.new = NoObject THEN deleted ELSE updated

HandleQueue ==
    /\ Take("queues")
    /\ dc' = LET n == FirstOf("queues")
             IN Handled(n, AddQueue(dc, n), UpdateQueue(dc, n), DeleteQueue(dc, n))
    /\ UNCHANGED <<unread, recovered, budget>>

HandlePriorityClass ==
    /\ Take("classes")
    /\ dc' = LET n == FirstOf("classes")
             IN Handled(n, AddPriorityClass(dc, n), UpdatePriorityClass(dc, n),
                        DeletePriorityClass(dc, n))
    /\ UNCHANGED <<unread, recovered, budget>>

HandleCluster ==
    /\ Take("clusters")
    /\ dc' = LET n == FirstOf("clusters")
             IN Handled(n, AddCluster(dc, n), UpdateCluster(dc, n), DeleteCluster(dc, n))
    /\ UNCHANGED <<unread, recovered, budget>>

\* The GET returns the workload as it is now, not as the binding refers to it.
HandleBinding ==
    LET n == FirstOf("bindings")
        set == n.new # NoObject /\ ~Unchanged(n) /\ Reads(n.new)
        Got(w) == /\ dc' = Handled(n, AddResourceBinding(dc, n, w),
                                   UpdateResourceBinding(dc, n, w),
                                   DeleteResourceBinding(dc, n))
                  /\ unread' = IF set /\ w = NoObject THEN unread \cup {n.name}
                               ELSE IF Unchanged(n) THEN unread ELSE unread \ {n.name}
                  /\ recovered' = IF Unchanged(n) \/ (set /\ w = NoObject) THEN recovered
                                  ELSE recovered \ {n.name}
    IN /\ Take("bindings")
       /\ \/ /\ Got(IF workloads[n.name] = NoObject THEN NoObject ELSE workloads[n.name].spec)
             /\ UNCHANGED budget
          \/ /\ set /\ Spend("unread")
             /\ Got(NoObject)

\* A dispatch round's snapshot; the first waits for every informer's list.
TakeSnapshot ==
    /\ phase = "running"
    /\ \A kind \in StreamKinds : streams[kind].watch # "unlisted"
    /\ IF Panics(dc) THEN phase' = "dead" /\ UNCHANGED <<dc, session>>
       ELSE /\ dc' = Snapshot(dc)
            /\ session' = {k \in Seen(dc) : dc.infos[k].status = "Suspended"}
            /\ UNCHANGED phase
    /\ UNCHANGED <<attempts, streams, workloads, tasks, patch, unread, recovered, budget>>
-----------------------------------------------------------------------------
(* The rest of a round, the task workers and the goroutines that patch.     *)

\* A binding of the session is dispatched, whose info may be another by now,
\* or gone.
UnSuspendResourceBinding(k) ==
    /\ phase = "running"
    /\ k \in session
    /\ Spend("bindings")
    /\ session' = session \ {k}
    /\ IF dc.infos[k] = NoObject THEN UNCHANGED <<dc, tasks>>
       ELSE /\ dc' = [dc EXCEPT !.infos[k].status = "UnSuspending"]
            /\ tasks' = tasks \cup {k}
    /\ UNCHANGED <<phase, attempts, streams, workloads, patch, unread, recovered>>

\* The queue gives out a key again only after its Done, which is not called
\* for a key whose info is gone.
TaskWorker(k) ==
    /\ phase = "running"
    /\ k \in tasks /\ patch[k] = "none"
    /\ tasks' = tasks \ {k}
    /\ patch' = [patch EXCEPT ![k] = IF dc.infos[k] = NoObject THEN "broken" ELSE "sent"]
    /\ UNCHANGED <<phase, attempts, streams, workloads, dc, session, unread, recovered, budget>>

\* A patch that changes nothing is not an update.
ApplyPatch(k) ==
    /\ Api("bindings")[k] # NoObject
    /\ IF Api("bindings")[k].suspended
       THEN WriteTo("bindings", k, [Api("bindings")[k] EXCEPT !.suspended = FALSE])
       ELSE UNCHANGED streams

\* With the answer the goroutine is through.
PatchAnswered(k) ==
    /\ phase = "running"
    /\ patch[k] = "sent"
    /\ ApplyPatch(k)
    /\ patch' = [patch EXCEPT ![k] = "none"]
    /\ UNCHANGED <<phase, attempts, workloads, dc, session, tasks, unread, recovered, budget>>

\* An error, whether or not the patch took effect.
PatchFails(k, applied) ==
    /\ phase = "running"
    /\ patch[k] = "sent"
    /\ IF Api("bindings")[k] = NoObject THEN UNCHANGED budget ELSE Spend("patch")
    /\ IF applied THEN ApplyPatch(k) ELSE UNCHANGED streams
    /\ patch' = [patch EXCEPT ![k] = "failed"]
    /\ UNCHANGED <<phase, attempts, workloads, dc, session, tasks, unread, recovered>>

\* Mutant of PatchRecovers: the status is not taken back.
PatchForgets(k) ==
    /\ phase = "running"
    /\ patch[k] = "failed"
    /\ patch' = [patch EXCEPT ![k] = "none"]
    /\ UNCHANGED <<phase, attempts, streams, workloads, dc, session, tasks, unread, recovered, budget>>

\* The status is taken back, whatever it is by now; then the goroutine is through.
PatchRecovers(k) ==
    /\ phase = "running"
    /\ patch[k] = "failed"
    /\ patch' = [patch EXCEPT ![k] = "none"]
    /\ IF dc.infos[k] = NoObject THEN UNCHANGED <<dc, recovered>>
       ELSE /\ dc' = [dc EXCEPT !.infos[k].status = "Suspended"]
            /\ recovered' = recovered \cup {k}
    /\ UNCHANGED <<phase, attempts, streams, workloads, session, tasks, unread, budget>>

Patching(k) == \/ PatchAnswered(k) \/ PatchRecovers(k)
               \/ \E applied \in BOOLEAN : PatchFails(k, applied)
-----------------------------------------------------------------------------
(* The clients of the API server. *)

\* obj is NoObject in a delete.  Admission keeps a class's value, and lets one
\* class at a time be the default.
ChangeObject(kind, x, obj) ==
    /\ kind # "bindings"
    /\ obj # Api(kind)[x]
    /\ kind = "classes" /\ obj # NoObject =>
         /\ Api(kind)[x] # NoObject => obj.value = Api(kind)[x].value
         /\ obj.default => \A y \in Live(Api(kind)) \ {x} : ~Api(kind)[y].default
    /\ Spend(kind)
    /\ WriteTo(kind, x, obj)
    /\ UNCHANGED <<phase, attempts, workloads, dc, dispatch, unread, recovered>>

ChangeWorkload(k, spec) ==
    /\ workloads[k] # NoObject
    /\ spec # NoObject => spec # workloads[k].spec /\ spec.kind = workloads[k].spec.kind
    /\ Spend("workload")
    /\ workloads' = [workloads EXCEPT ![k] =
         IF spec = NoObject THEN NoObject ELSE [spec |-> spec, version |-> @.version + 1]]
    /\ UNCHANGED <<phase, attempts, streams, dc, dispatch, unread, recovered>>

\* Karmada creates, updates and deletes the binding of a workload; a create
\* may ask for the suspension itself and goes through the webhook.
CreateBinding(k) ==
    /\ workloads[k] # NoObject /\ Api("bindings")[k] = NoObject
    /\ \E asked \in BOOLEAN :
         LET kind == workloads[k].spec.kind
             answer == ResourceBindings(kind, asked)
         IN /\ answer.allowed
            /\ WriteTo("bindings", k, [kind |-> kind, ref |-> workloads[k].version,
                                      asked |-> asked, suspended |-> answer.suspended])
    /\ UNCHANGED <<phase, attempts, workloads, dc, dispatch, unread, recovered, budget>>

UpdateBinding(k) ==
    /\ workloads[k] # NoObject /\ Api("bindings")[k] # NoObject
    /\ Api("bindings")[k].ref # workloads[k].version
    /\ WriteTo("bindings", k, [Api("bindings")[k] EXCEPT !.ref = workloads[k].version])
    /\ UNCHANGED <<phase, attempts, workloads, dc, dispatch, unread, recovered, budget>>

DeleteBinding(k) ==
    /\ workloads[k] = NoObject /\ Api("bindings")[k] # NoObject
    /\ WriteTo("bindings", k, NoObject)
    /\ UNCHANGED <<phase, attempts, workloads, dc, dispatch, unread, recovered, budget>>

SyncBinding(k) == CreateBinding(k) \/ UpdateBinding(k) \/ DeleteBinding(k)

Handle == HandleQueue \/ HandlePriorityClass \/ HandleCluster \/ HandleBinding

Next ==
    \/ CreateAnswered
    \/ \E applied \in BOOLEAN : CreateFails(applied)
    \/ Restart
    \/ \E kind \in StreamKinds : List(kind) \/ LoseWatch(kind)
    \/ Handle
    \/ TakeSnapshot
    \/ \E kind \in StreamKinds \ {"bindings"} :
         \E x \in Names[kind], obj \in Specs[kind] \cup {NoObject} : ChangeObject(kind, x, obj)
    \/ \E k \in Bindings :
         \/ \E spec \in Workloads \cup {NoObject} : ChangeWorkload(k, spec)
         \/ SyncBinding(k)
         \/ UnSuspendResourceBinding(k) \/ TaskWorker(k) \/ Patching(k)

Spec == Init /\ [][Next]_vars

\* The API server answers some attempt, a dead process is started again,
\* reflectors list until they succeed, handlers do not block, and Karmada
\* keeps bindings in step with workloads.  Rounds and patches owe nothing here.
Fairness ==
    /\ WF_vars(CreateAnswered)
    /\ WF_vars(Restart)
    /\ \A kind \in StreamKinds : WF_vars(List(kind))
    /\ WF_vars(HandleQueue) /\ WF_vars(HandlePriorityClass)
    /\ WF_vars(HandleCluster) /\ WF_vars(HandleBinding)
    /\ \A k \in Bindings : WF_vars(SyncBinding(k))

FairSpec == Spec /\ Fairness
-----------------------------------------------------------------------------
(* Properties. *)

Cache == [queues : [Queues -> Maybe(Specs.queues)],
          classes : [Classes -> Maybe(Specs.classes)],
          default : Maybe(Default),
          infos : [Bindings -> Maybe(Info)],
          clusters : [Clusters -> Maybe(Specs.clusters)]]

\* Every variable keeps its type.
TypeOK ==
    /\ phase \in {"starting", "running", "dead"}
    /\ attempts \in 0..Attempts
    /\ \A kind \in StreamKinds :
         /\ Api(kind) \in [Names[kind] -> Maybe(Objects[kind])]
         /\ streams[kind].watch \in {"unlisted", "on", "lost"}
    /\ workloads \in [Bindings -> Maybe(Workload)]
    /\ dc \in Cache
    /\ session \in SUBSET Bindings
    /\ tasks \in SUBSET Bindings
    /\ patch \in [Bindings -> {"none", "sent", "failed", "broken"}]
    /\ unread \in SUBSET Bindings
    /\ recovered \in SUBSET Bindings
    /\ budget \in [Changes -> Nat]

\* Whatever was missed while a watch was lost, a tombstone included, the
\* cache's queues and PriorityClasses are the API server's once all
\* notifications are handled (addQueue ... deletePriorityClass).
Mirrors ==
    /\ Quiet(streams.queues) => dc.queues = Api("queues")
    /\ Quiet(streams.classes) => dc.classes = Api("classes")

\* The default PriorityClass is one that the cache holds, as it holds it, and
\* that says it is the default, in every order of notifications: no snapshot
\* takes a priority from a class that was deleted or demoted
\* (updatePriorityClass and deletePriorityClass clear it first).
NoStaleDefault ==
    dc.default # NoObject =>
        /\ dc.classes[dc.default.name] = dc.default.class
        /\ dc.default.class.default

\* A hand-over of the default from class to class, seen change by change,
\* leaves the cache with the API server's.  Seen through a relist it may leave
\* it with none: the exception is code behaviour, see section 5 of the README.
DefaultFollows ==
    Quiet(streams.classes) /\ streams.classes.intact =>
        \A c \in Live(Api("classes")) :
            Api("classes")[c].default <=>
                dc.default # NoObject /\ dc.default.name = c

\* The total of a snapshot counts every ready cluster, and each cluster it
\* counts exists with the resources last reported, although an add looks at
\* readiness and an update does not.
ClustersFollow ==
    Quiet(streams.clusters) =>
        \A m \in Clusters :
            /\ dc.clusters[m] \in {NoObject, Api("clusters")[m]}
            /\ Api("clusters")[m] # NoObject /\ CheckClusterReady(Api("clusters")[m])
                 => dc.clusters[m] # NoObject

InStep(k) == /\ workloads[k] # NoObject /\ Api("bindings")[k] # NoObject
             /\ Api("bindings")[k].ref = workloads[k].version

\* Handlers GET the workload as it is, at some time after the binding changed;
\* once Karmada and the handlers are through, an info has the queue and the
\* class its workload names now, unless the last GET failed, and a binding that
\* is gone has none (setResourceBinding, deleteResourceBinding).
InfoFollowsWorkload ==
    Quiet(streams.bindings) =>
        \A k \in Bindings :
            /\ Api("bindings")[k] = NoObject => dc.infos[k] = NoObject
            /\ InStep(k) /\ Reads(Api("bindings")[k]) /\ k \notin unread =>
                 /\ dc.infos[k] # NoObject
                 /\ dc.infos[k].queue = NewWorkload(workloads[k].spec).queue
                 /\ dc.infos[k].class = workloads[k].spec.class

\* A key that a worker's break left in processing waits for a Done in vain.
InTask(k) == \/ k \in tasks /\ patch[k] # "broken"
             \/ patch[k] \in {"sent", "failed"}

\* Handlers, rounds and failed patches all write an info's status, each about
\* something that was true some time ago.  Once the handlers are through, an
\* info is UnSuspended only if its binding is released; it is UnSuspending
\* beside a binding that is still suspended only while a task or a patch for it
\* is under way; and it is Suspended beside a released one only if a patch
\* was answered by an error since the handler set it.
StatusFollowsBinding ==
    Quiet(streams.bindings) =>
        \A k \in Live(Api("bindings")) \ unread :
            LET suspended == Api("bindings")[k].suspended
                status == dc.infos[k].status
            IN Reads(Api("bindings")[k]) =>
                 /\ status = "UnSuspended" => ~suspended
                 /\ status = "UnSuspending" /\ suspended => InTask(k)
                 /\ status = "Suspended" /\ ~suspended => k \in recovered

\* What the webhook suspends the cache takes in: the two ask the registry
\* separately, and a binding suspended for good is what it costs to disagree.
SuspendedIsKnown ==
    Quiet(streams.bindings) =>
        \A k \in Live(Api("bindings")) \ unread :
            Api("bindings")[k].suspended /\ ~Api("bindings")[k].asked => dc.infos[k] # NoObject

Defaults == {c \in Live(Api("classes")) : Api("classes")[c].default}

\* A snapshot ranks a binding by the value its workload's class has in the API
\* server, or the default class's: three informers, a GET and a priority
\* written into the cache by earlier snapshots lie between.  Excepted is what
\* names no class when there is no default: it keeps the priority it had.
RankedByItsClass ==
    Quiet(streams.classes) /\ streams.classes.intact /\ Quiet(streams.bindings) =>
        \A k \in Seen(dc) \ unread :
            InStep(k) =>
                LET class == workloads[k].spec.class
                IN IF class # NoClass THEN PriorityOf(dc, k) = Api("classes")[class].value
                   ELSE \A c \in Defaults : PriorityOf(dc, k) = Api("classes")[c].value

Waits(k) ==
    /\ Api("bindings")[k] # NoObject /\ Api("bindings")[k].suspended
    /\ Reads(Api("bindings")[k])
    /\ InStep(k) /\ k \notin unread
    /\ LET class == workloads[k].spec.class
       IN class # NoClass => Api("classes")[class] # NoObject

\* A suspended workload binding whose class exists ends up in every snapshot,
\* whichever of the informers is first, through lost watches and restarts.
EventuallySeen == \A k \in Bindings : <>[](Waits(k) => k \in Seen(dc))

\* "It shouldn't happen. All the PriorityClass should in the cache."
\* (snapshot.go:64): a snapshot leaves out no binding that was released, not
\* even when every notification was handled.
ChargedIsSeen ==
    (\A kind \in StreamKinds : Quiet(streams[kind])) =>
        \A k \in Live(dc.infos) : dc.infos[k].status # "Suspended" => k \in Seen(dc)
=============================================================================
