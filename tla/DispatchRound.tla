---------------------------- MODULE DispatchRound ---------------------------
(***************************************************************************)
(* One dispatch round (runOnce) over a snapshot of the cache: the capacity *)
(* plugin charges the queues with what is not Suspended, the Suspended     *)
(* bindings are collected into a heap per queue, and the queues are served *)
(* round robin, one binding of each per lap, with two heaps of queues.     *)
(*                                                                         *)
(* Both loops over ResourceBindingInfos range over a Go map, so they take  *)
(* their bindings in any order.  A heap is the set of what it holds: Pop   *)
(* takes the least element of the comparator it was created with.          *)
(***************************************************************************)
EXTENDS Integers, FiniteSets, Sequences

CONSTANTS
    Bindings,      \* the UIDs of the ResourceBindingInfos of the snapshot
    Queues,        \* the names of the queues of the snapshot
    Names,         \* the queue names a workload may give, or Unnamed
    Dims,          \* the resource dimensions, all present in TotalResource
    CoreDims,      \* cpu and memory; the others are scalar resources
    Total,         \* Total[d]: TotalResource
    Capability,    \* Capability[q][d]: Spec.Capability, or Unset
    Unset,
    Unnamed,       \* the empty queue name of a workload without the annotation
    DefaultQueue,  \* the name such a workload joins
    NoRequest,     \* a binding without ReplicaRequirements
    QueueInfo,     \* QueueInfo[q]: priority, creation time and UID of q
    Snapshots      \* the snapshots a round may start from

Statuses == {"Suspended", "UnSuspending", "UnSuspended"}
Vector == [Dims -> Nat]
Info == [status : Statuses, queue : Names, request : Vector \cup {NoRequest},
         priority : Int, created : Nat, uid : Nat]

ASSUME RoundAssumption ==
    /\ IsFiniteSet(Bindings) /\ IsFiniteSet(Queues)
    /\ CoreDims \subseteq Dims
    /\ Total \in Vector
    /\ Capability \in [Queues -> [Dims -> Nat \cup {Unset}]]
    /\ Unnamed \notin Queues
    /\ NoRequest \notin Vector
    /\ QueueInfo \in [Queues -> [priority : Int, created : Nat, uid : Nat]]
    /\ \A p, q \in Queues : QueueInfo[p].uid = QueueInfo[q].uid => p = q
    /\ Snapshots \subseteq [Bindings -> Info]
    /\ \A s \in Snapshots : \A a, b \in Bindings : s[a].uid = s[b].uid => a = b

VARIABLES
    phase,      \* the loop the round is in
    rbi,        \* rbi[b]: the session's copy of the info of b
    todo,       \* the bindings the current range loop has not visited
    attrs,      \* the queues that have a queueAttr in cp.queueOpts
    allocated,  \* allocated[q]: queueAttr.allocated
    waiting,    \* waiting[q]: resourceBindingMap[q], a heap of bindings
    queues,     \* the heap of queues of this lap
    rounded,    \* roundedQueues: the heap of queues of the next lap
    served      \* history: the bindings considered, with the verdict

vars == <<phase, rbi, todo, attrs, allocated, waiting, queues, rounded, served>>

\* ssn.GetResourceBindingInfoQueue
QueueName(b) == IF rbi[b].queue = Unnamed THEN DefaultQueue ELSE rbi[b].queue

\* Spec.Capability with cpu and memory of 0 read as unlimited, cut to Total.
Limit(q, d) ==
    IF \/ Capability[q][d] = Unset
       \/ d \in CoreDims /\ Capability[q][d] = 0
       \/ Total[d] < Capability[q][d]
    THEN Total[d] ELSE Capability[q][d]

Plus(u, v) == [d \in Dims |-> u[d] + v[d]]

\* ssn.QueueInfoOrderFn: capacity's queueOrderFunc, then the creation time and UID.
QueueBefore(p, q) ==
    LET l == QueueInfo[p]
        r == QueueInfo[q]
    IN  \/ l.priority > r.priority
        \/ l.priority = r.priority /\ l.created < r.created
        \/ l.priority = r.priority /\ l.created = r.created /\ l.uid < r.uid

\* ssn.ResourceBindingInfoOrderFn: the priority plugin, then the creation time and UID.
BindingBefore(a, b) ==
    LET l == rbi[a]
        r == rbi[b]
    IN  \/ l.priority > r.priority
        \/ l.priority = r.priority /\ l.created < r.created
        \/ l.priority = r.priority /\ l.created = r.created /\ l.uid < r.uid

Init ==
    /\ phase = "build"
    /\ rbi \in Snapshots
    /\ todo = Bindings
    /\ attrs = {}
    /\ allocated = [q \in Queues |-> [d \in Dims |-> 0]]
    /\ waiting = [q \in Queues |-> {}]
    /\ queues = {}
    /\ rounded = {}
    /\ served = << >>
-----------------------------------------------------------------------------
(* buildQueueAttrs *)

BuildSkip(b) ==
    /\ phase = "build" /\ b \in todo
    /\ QueueName(b) \notin Queues
    /\ todo' = todo \ {b}
    /\ UNCHANGED <<phase, rbi, attrs, allocated, waiting, queues, rounded, served>>

BuildAttr(b) ==
    /\ phase = "build" /\ b \in todo
    /\ QueueName(b) \in Queues
    /\ attrs' = attrs \cup {QueueName(b)}
    /\ IF rbi[b].status = "Suspended" THEN UNCHANGED allocated
       ELSE /\ rbi[b].request # NoRequest
            /\ allocated' = [allocated EXCEPT ![QueueName(b)] = Plus(@, rbi[b].request)]
    /\ todo' = todo \ {b}
    /\ UNCHANGED <<phase, rbi, waiting, queues, rounded, served>>

\* ReplicaRequirements is a nil pointer: the process panics.
BuildPanics(b) ==
    /\ phase = "build" /\ b \in todo
    /\ QueueName(b) \in Queues
    /\ rbi[b].status # "Suspended"
    /\ rbi[b].request = NoRequest
    /\ phase' = "crashed"
    /\ UNCHANGED <<rbi, todo, attrs, allocated, waiting, queues, rounded, served>>

BuildEnd ==
    /\ phase = "build" /\ todo = {}
    /\ phase' = "collect"
    /\ todo' = Bindings
    /\ UNCHANGED <<rbi, attrs, allocated, waiting, queues, rounded, served>>
-----------------------------------------------------------------------------
(* dispatch: collecting the Suspended bindings *)

Collectable(b) == rbi[b].status = "Suspended" /\ QueueName(b) \in Queues

CollectSkip(b) ==
    /\ phase = "collect" /\ b \in todo
    /\ ~Collectable(b)
    /\ todo' = todo \ {b}
    /\ UNCHANGED <<phase, rbi, attrs, allocated, waiting, queues, rounded, served>>

\* The queue enters its heap with its first binding.
CollectPush(b) ==
    /\ phase = "collect" /\ b \in todo
    /\ Collectable(b)
    /\ waiting' = [waiting EXCEPT ![QueueName(b)] = @ \cup {b}]
    /\ queues' = queues \cup {QueueName(b)}
    /\ todo' = todo \ {b}
    /\ UNCHANGED <<phase, rbi, attrs, allocated, rounded, served>>

CollectEnd ==
    /\ phase = "collect" /\ todo = {}
    /\ phase' = "dispatch"
    /\ UNCHANGED <<rbi, todo, attrs, allocated, waiting, queues, rounded, served>>
-----------------------------------------------------------------------------
(* dispatch: the round-robin loop *)

IsTop(q) == q \in queues /\ \A p \in queues \ {q} : QueueBefore(q, p)

IsFirst(b, q) == b \in waiting[q] /\ \A a \in waiting[q] \ {b} : BindingBefore(b, a)

\* Mutant of Allocatable: what is asked for is left out of the comparison.
AllocatableNow(q, b) ==
    \A d \in Dims : rbi[b].request[d] > 0 => allocated[q][d] <= Limit(q, d)

\* allocatableFunc: LessEqualWithDimension compares the requested dimensions only.
Allocatable(q, b) ==
    \A d \in Dims : rbi[b].request[d] > 0
                    => allocated[q][d] + rbi[b].request[d] <= Limit(q, d)

\* Mutants of Serve: the emptied queue goes to the next lap too; no queue does;
\* the queue goes back to the current lap.
ServeEmptied(q, b, verdict) ==
    /\ waiting' = [waiting EXCEPT ![q] = @ \ {b}]
    /\ queues' = queues \ {q}
    /\ rounded' = rounded \cup {q}
    /\ served' = Append(served, [binding |-> b, queue |-> q, verdict |-> verdict])

ServeOnce(q, b, verdict) ==
    /\ waiting' = [waiting EXCEPT ![q] = @ \ {b}]
    /\ queues' = queues \ {q}
    /\ rounded' = rounded
    /\ served' = Append(served, [binding |-> b, queue |-> q, verdict |-> verdict])

ServeAgain(q, b, verdict) ==
    /\ waiting' = [waiting EXCEPT ![q] = @ \ {b}]
    /\ queues' = IF waiting[q] = {b} THEN queues \ {q} ELSE queues
    /\ rounded' = rounded
    /\ served' = Append(served, [binding |-> b, queue |-> q, verdict |-> verdict])

\* The tail of the loop's body: q goes to the next lap if it has more bindings.
Serve(q, b, verdict) ==
    /\ waiting' = [waiting EXCEPT ![q] = @ \ {b}]
    /\ queues' = queues \ {q}
    /\ rounded' = IF waiting[q] = {b} THEN rounded ELSE rounded \cup {q}
    /\ served' = Append(served, [binding |-> b, queue |-> q, verdict |-> verdict])

\* Pop the first queue and its first binding.  A queue in the heap has one
\* (HeapsMatch): the branch that skips an emptied queue is never taken.
Turn(q, b) == phase = "dispatch" /\ IsTop(q) /\ IsFirst(b, q)

\* allocateFunc looks the queue up under the name in the info, which is not
\* the default queue's for a workload without the annotation.
Charges(b) == rbi[b].queue \in attrs

Dispatch(q, b) ==
    /\ Turn(q, b)
    /\ rbi[b].request # NoRequest /\ Allocatable(q, b)
    /\ Charges(b)
    /\ allocated' = [allocated EXCEPT ![rbi[b].queue] = Plus(@, rbi[b].request)]
    /\ rbi' = [rbi EXCEPT ![b].status = "UnSuspending"]
    /\ Serve(q, b, "dispatched")
    /\ UNCHANGED <<phase, todo, attrs>>

\* Mutant of AllocateFails: UnAllocate takes back what was never charged.
AllocateFailsRefunds(q, b) ==
    /\ Turn(q, b)
    /\ rbi[b].request # NoRequest /\ Allocatable(q, b)
    /\ ~Charges(b)
    /\ allocated' = [allocated EXCEPT ![q] = [d \in Dims |-> @[d] - rbi[b].request[d]]]
    /\ Serve(q, b, "failed")
    /\ UNCHANGED <<phase, rbi, todo, attrs>>

\* Allocate fails, and UnAllocate fails for the same reason: nothing was charged.
AllocateFails(q, b) ==
    /\ Turn(q, b)
    /\ rbi[b].request # NoRequest /\ Allocatable(q, b)
    /\ ~Charges(b)
    /\ Serve(q, b, "failed")
    /\ UNCHANGED <<phase, rbi, todo, attrs, allocated>>

\* Mutant of Ignore: an overused queue is dropped from the round.
IgnoreQueue(q, b) ==
    /\ Turn(q, b)
    /\ rbi[b].request # NoRequest /\ ~Allocatable(q, b)
    /\ waiting' = [waiting EXCEPT ![q] = {}]
    /\ queues' = queues \ {q}
    /\ rounded' = rounded
    /\ served' = Append(served, [binding |-> b, queue |-> q, verdict |-> "ignored"])
    /\ UNCHANGED <<phase, rbi, todo, attrs, allocated>>

Ignore(q, b) ==
    /\ Turn(q, b)
    /\ rbi[b].request # NoRequest /\ ~Allocatable(q, b)
    /\ Serve(q, b, "ignored")
    /\ UNCHANGED <<phase, rbi, todo, attrs, allocated>>

AllocatablePanics(q, b) ==
    /\ Turn(q, b)
    /\ rbi[b].request = NoRequest
    /\ phase' = "crashed"
    /\ UNCHANGED <<rbi, todo, attrs, allocated, waiting, queues, rounded, served>>

\* Mutant of Swap: roundedQueues is not replaced.
SwapKeeps ==
    /\ phase = "dispatch" /\ queues = {} /\ rounded # {}
    /\ queues' = rounded
    /\ rounded' = rounded
    /\ UNCHANGED <<phase, rbi, todo, attrs, allocated, waiting, served>>

Swap ==
    /\ phase = "dispatch" /\ queues = {} /\ rounded # {}
    /\ queues' = rounded
    /\ rounded' = queues
    /\ UNCHANGED <<phase, rbi, todo, attrs, allocated, waiting, served>>

DispatchEnd ==
    /\ phase = "dispatch" /\ queues = {} /\ rounded = {}
    /\ phase' = "done"
    /\ UNCHANGED <<rbi, todo, attrs, allocated, waiting, queues, rounded, served>>

Next ==
    \/ BuildEnd \/ CollectEnd \/ Swap \/ DispatchEnd
    \/ \E b \in Bindings : \/ BuildSkip(b) \/ BuildAttr(b) \/ BuildPanics(b)
                           \/ CollectSkip(b) \/ CollectPush(b)
    \/ \E q \in Queues, b \in Bindings :
          \/ Dispatch(q, b) \/ AllocateFails(q, b) \/ Ignore(q, b)
          \/ AllocatablePanics(q, b)

Spec == Init /\ [][Next]_vars

\* The round runs in one goroutine that nothing blocks.
FairSpec == Spec /\ WF_vars(Next)
-----------------------------------------------------------------------------
(* Properties. *)

\* Every variable keeps its type.
TypeOK ==
    /\ phase \in {"build", "collect", "dispatch", "done", "crashed"}
    /\ rbi \in [Bindings -> Info]
    /\ todo \in SUBSET Bindings
    /\ attrs \in SUBSET Queues
    /\ allocated \in [Queues -> Vector]
    /\ waiting \in [Queues -> SUBSET Bindings]
    /\ queues \in SUBSET Queues
    /\ rounded \in SUBSET Queues
    /\ served \in Seq([binding : Bindings, queue : Queues,
                       verdict : {"dispatched", "failed", "ignored"}])

\* While the queues are served, a queue is in exactly one of the two heaps if it
\* has bindings left and in none otherwise: the loop neither forgets a queue
\* nor pops one that has nothing to offer.
HeapsMatch ==
    phase = "dispatch" =>
        /\ queues \cap rounded = {}
        /\ \A q \in Queues : waiting[q] # {} <=> q \in queues \cup rounded

\* A round that ends has considered every Suspended binding of a known queue,
\* each of them once.
EachServedOnce ==
    /\ \A i, j \in DOMAIN served : served[i].binding = served[j].binding => i = j
    /\ phase = "done" =>
         \A b \in Bindings : Collectable(b) => \E i \in DOMAIN served : served[i].binding = b

Considered(q) == {served[i].binding : i \in {j \in DOMAIN served : served[j].queue = q}}

\* The lap in which b's turn comes: how many of its queue come before it.
Lap(q, b) == Cardinality({a \in Considered(q) \cup waiting[q] : BindingBefore(a, b)})

\* Two heaps swapped lap after lap serve the bindings in the order of a plain
\* sort by lap, then by queue: round robin, and a queue with few bindings or
\* with ignored ones neither loses nor gains a turn.
RoundRobin ==
    phase \in {"dispatch", "done"} =>
        \A i \in DOMAIN served :
            LET Precedes(q, b) ==
                    \/ Lap(served[i].queue, served[i].binding) < Lap(q, b)
                    \/ /\ Lap(served[i].queue, served[i].binding) = Lap(q, b)
                       /\ QueueBefore(served[i].queue, q)
            IN  /\ \A j \in DOMAIN served : i < j => Precedes(served[j].queue, served[j].binding)
                /\ \A q \in Queues : \A b \in waiting[q] : Precedes(q, b)

\* In a dimension that some binding dispatched by this round requests, the
\* queue's allocated stays within its limit, even if the queue was over it in
\* other dimensions when the round began.
WithinLimit ==
    \A i \in DOMAIN served :
        served[i].verdict = "dispatched" =>
            \A d \in Dims : rbi[served[i].binding].request[d] > 0
                           => allocated[served[i].queue][d] <= Limit(served[i].queue, d)

\* A round leaves no binding that names its queue and still fits.
WorkConserving ==
    phase = "done" =>
        \A b \in Bindings :
            Collectable(b) /\ rbi[b].queue # Unnamed => ~Allocatable(QueueName(b), b)

\* session.go: a workload that did not set the queue name joins the default
\* queue; so a round leaves none of them that fits there.
DefaultQueueServed ==
    phase = "done" =>
        \A b \in Bindings :
            Collectable(b) /\ rbi[b].queue = Unnamed => ~Allocatable(QueueName(b), b)

\* dispatcher_test.go dispatches bindings that have no ReplicaRequirements.
NeverCrashes == phase # "crashed"

\* Every round comes to an end.
RoundEnds == <>(phase \in {"done", "crashed"})
=============================================================================
