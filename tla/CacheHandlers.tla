--------------------------- MODULE CacheHandlers ----------------------------
(***************************************************************************)
(* The handlers of DispatcherCache and its Snapshot, as functions of the   *)
(* cache: each holds dc.mutex from its first read to its last write.  The  *)
(* cache is a record of the maps queues, classes, infos and clusters, and  *)
(* of the default PriorityClass; an entry that is missing is NoObject.     *)
(***************************************************************************)
EXTENDS Informer, Admission

CONSTANT NoSummary  \* a cluster whose ResourceSummary is nil

EmptyCache(Queues, Classes, Bindings, Clusters) ==
    [queues   |-> [q \in Queues |-> NoObject],
     classes  |-> [c \in Classes |-> NoObject],
     default  |-> NoObject,
     infos    |-> [k \in Bindings |-> NoObject],
     clusters |-> [m \in Clusters |-> NoObject]]

\* Mutant of Final: a tombstone is not unwrapped.
FinalTyped(n) == IF n.tombstone THEN NoObject ELSE n.old

\* What the converters make of a delete's object, a tombstone included.
Final(n) == n.old

\* Resync and relist deliver objects that did not change.
Unchanged(n) == n.old = n.new
-----------------------------------------------------------------------------
(* Queues. *)

SetQueue(dc, n) == [dc EXCEPT !.queues[n.name] = n.new]

AddQueue(dc, n) == SetQueue(dc, n)

UpdateQueue(dc, n) == IF Unchanged(n) THEN dc ELSE SetQueue(dc, n)

DeleteQueue(dc, n) == IF Final(n) = NoObject THEN dc ELSE [dc EXCEPT !.queues[n.name] = NoObject]
-----------------------------------------------------------------------------
(* PriorityClasses; the default is the object that was set as such last. *)

SetPriorityClass(dc, n) ==
    [dc EXCEPT !.classes[n.name] = n.new,
               !.default = IF n.new.default THEN [name |-> n.name, class |-> n.new] ELSE @]

ClearDefault(dc) == [dc EXCEPT !.default = NoObject]

AddPriorityClass(dc, n) == SetPriorityClass(dc, n)

\* Mutant of UpdatePriorityClass: a class that was the default stays it.
UpdatePriorityClassKeeps(dc, n) == IF Unchanged(n) THEN dc ELSE SetPriorityClass(dc, n)

UpdatePriorityClass(dc, n) ==
    IF Unchanged(n) THEN dc
    ELSE SetPriorityClass(IF n.old.default THEN ClearDefault(dc) ELSE dc, n)

\* Mutant of DeletePriorityClass: any delete clears the default.
DeletePriorityClassClears(dc, n) ==
    IF Final(n) = NoObject THEN dc
    ELSE [ClearDefault(dc) EXCEPT !.classes[n.name] = NoObject]

DeletePriorityClass(dc, n) ==
    IF Final(n) = NoObject THEN dc
    ELSE [(IF Final(n).default THEN ClearDefault(dc) ELSE dc) EXCEPT !.classes[n.name] = NoObject]
-----------------------------------------------------------------------------
(* ResourceBindings.  got is the workload the handler's GET returns, or     *)
(* NoObject when it fails.                                                  *)

\* Whether the handler gets as far as reading the workload.
Reads(rb) == TryGetNewWorkloadFunc(rb.kind) = "workload"

Status == {"Suspended", "UnSuspending", "UnSuspended"}

InfoOf(rb, w) ==
    [queue |-> NewWorkload(w).queue, class |-> NewWorkload(w).class, priority |-> 0,
     status |-> IF rb.suspended THEN "Suspended" ELSE "UnSuspended"]

\* Mutant of SetResourceBinding: the workload is parsed only once.
SetResourceBindingOnce(dc, n, got) ==
    IF ~Reads(n.new) \/ got = NoObject THEN dc
    ELSE [dc EXCEPT !.infos[n.name] =
             IF @ = NoObject THEN InfoOf(n.new, got)
             ELSE [@ EXCEPT !.status = InfoOf(n.new, got).status]]

\* Mutant of SetResourceBinding: the class must be cached already.
SetResourceBindingKnown(dc, n, got) ==
    IF \/ ~Reads(n.new) \/ got = NoObject
       \/ got.class # NoClass /\ dc.classes[got.class] = NoObject
    THEN dc
    ELSE [dc EXCEPT !.infos[n.name] = InfoOf(n.new, got)]

SetResourceBinding(dc, n, got) ==
    IF ~Reads(n.new) \/ got = NoObject THEN dc
    ELSE [dc EXCEPT !.infos[n.name] = InfoOf(n.new, got)]

AddResourceBinding(dc, n, got) == SetResourceBinding(dc, n, got)

UpdateResourceBinding(dc, n, got) ==
    IF Unchanged(n) THEN dc ELSE SetResourceBinding(dc, n, got)

DeleteResourceBinding(dc, n) ==
    IF Final(n) = NoObject THEN dc ELSE [dc EXCEPT !.infos[n.name] = NoObject]
-----------------------------------------------------------------------------
(* Clusters. *)

SetCluster(dc, n) == [dc EXCEPT !.clusters[n.name] = n.new]

\* ready is the status of the condition Ready, "none" if there is no such
\* condition.
CheckClusterReady(cluster) == cluster.ready = "True"

AddCluster(dc, n) == IF CheckClusterReady(n.new) THEN SetCluster(dc, n) ELSE dc

\* Mutant of UpdateCluster: only a cluster that was added is updated.
UpdateClusterAdded(dc, n) ==
    IF Unchanged(n) \/ dc.clusters[n.name] = NoObject THEN dc ELSE SetCluster(dc, n)

\* Unlike an add, an update does not look at the cluster's readiness.
UpdateCluster(dc, n) == IF Unchanged(n) THEN dc ELSE SetCluster(dc, n)

DeleteCluster(dc, n) ==
    IF Final(n) = NoObject THEN dc ELSE [dc EXCEPT !.clusters[n.name] = NoObject]
-----------------------------------------------------------------------------
(* Snapshot. *)

\* The snapshot adds up what all cached clusters have, ready or not, and
\* dereferences the summary of each.
Panics(dc) == \E m \in Live(dc.clusters) : dc.clusters[m].allocatable = NoSummary

\* The infos a snapshot takes along: an unknown class leaves an info out.
Seen(dc) == {k \in Live(dc.infos) : \/ dc.infos[k].class = NoClass
                                    \/ dc.classes[dc.infos[k].class] # NoObject}

\* Mutant of PriorityOf: a priority is looked up once.
PriorityOfFirst(dc, k) ==
    IF dc.infos[k].priority # 0 THEN dc.infos[k].priority
    ELSE IF dc.infos[k].class # NoClass THEN dc.classes[dc.infos[k].class].value
    ELSE IF dc.default # NoObject THEN dc.default.class.value
    ELSE dc.infos[k].priority

\* Without a class and a default the info keeps the priority it had.
PriorityOf(dc, k) ==
    IF dc.infos[k].class # NoClass THEN dc.classes[dc.infos[k].class].value
    ELSE IF dc.default # NoObject THEN dc.default.class.value
    ELSE dc.infos[k].priority

\* The priorities are written into the cached infos.
Snapshot(dc) ==
    [dc EXCEPT !.infos = [k \in DOMAIN @ |->
        IF k \in Seen(dc) THEN [@[k] EXCEPT !.priority = PriorityOf(dc, k)] ELSE @[k]]]
=============================================================================
