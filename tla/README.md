# A TLA+ model of the volcano-global dispatcher

volcano-global suspends the Karmada `ResourceBinding` of every workload when it is created and releases it
("unsuspends" it) when its Volcano queue has room. This directory models that path, from the webhook and the
informers to the patch that releases a binding, model-checks it with TLC, and proves its safety properties with TLAPS.

Paths below are relative to `src/`. "Binding" means a `ResourceBinding` of a workload, "info" the
`ResourceBindingInfo` the cache keeps for it.

## 1. The system

| Part | State | Operations | Talks to |
|---|---|---|---|
| Admission webhook, `pkg/webhooks/resourcebinding/mutating` | none | `ResourceBindings`: suspend the binding of a workload on create | API server, workload registry |
| Binding cache, `pkg/dispatcher/cache` | `resourceBindingInfos` (status `Suspended`, `UnSuspending`, `UnSuspended`), queues, priority classes, clusters, all under `mutex` | one informer handler per kind and event; `Snapshot`; `UnSuspendResourceBinding` | informers (callbacks), API server (GET of the workload inside the handler), dispatcher (calls) |
| Unsuspend tasks, `resource_binding_processor.go` | `unSuspendRBTaskQueue`, keyed by namespace/name | worker loop, one goroutine per patch, `Done` at its end | cache (shared state), API server (PATCH by name) |
| Dispatch round, `pkg/dispatcher/dispatcher.go` and `framework` | the session: a copy of the cache, two heaps of queues, a heap of bindings per queue | `runOnce`: open, collect, round robin, close | cache, plugins (callbacks) |
| Capacity plugin | `queueOpts[q]`: `realCapability`, `allocated`, for one session | `buildQueueAttrs`, `allocatableFunc`, `allocateFunc`, `deallocateFunc`, `queueOrderFunc` | session |
| Priority plugin | none | `resourceBindingInfoOrderFunc` | session |
| Workload registry, `pkg/workload` | kind -> constructor | lookup; queue and priority class of a workload | webhook, cache |
| Entry points, options, plugin manager, converters, default queue creation | flags, registries | start-up | |

### What is hard

* **Four kinds of actors share the infos.** The informer replaces an info (`setResourceBinding`), a round sets it
  `UnSuspending`, a goroutine sets it back to `Suspended` when its patch fails, and a worker looks it up. Each does so in
  a critical section of its own, and each acts on what it saw in an earlier one: a round on its snapshot, a worker on the
  key, a goroutine on the name.
* **The truth is elsewhere.** Whether a binding is released is a field in the API server. The cache learns of it through
  notifications, in order but late; a patch may fail, or take effect and be reported as failed; the process may restart
  with nothing but a list of the bindings.
* **Keys are names.** Tasks and patches are addressed by namespace/name, decisions are made about objects. A deletion, or a
  deletion and a new object of the same name, may fall between.
* **One decision depends on all others.** A binding may be released only if the sum of what its queue already released, and
  is about to release, leaves room: a charge that is lost anywhere overcommits the queue.
* **The cache is filled by four informers.** Queues, PriorityClasses, clusters and bindings are handled in goroutines of
  their own, a snapshot may fall between any two of them, and a lost watch is made up for by a list: in another order, with
  changes left out, deletions last and in tombstones. A binding's queue and class come from a GET of yet another object.
* **The round itself.** Two heaps swapped lap after lap, maps ranged over in any order, multi-dimensional limits of which
  only the requested dimensions count, and two lookups of the same queue under different keys.

What makes each part correct: the queue is never overcommitted and each release was granted (rounds, cache and patches
together); one goroutine per key (tasks); what a snapshot shows follows the API server (informers and cache); no info outlives its object, none is forgotten (cache); every Suspended binding
of a known queue gets one turn per round, in round-robin order, and gets room exactly if it fits (round and plugins);
whatever fits is released in the end (the whole). `PROJECT.json` lists the hazards line by line.

## 2. The modules

| Module | Models | Lines of code |
|---|---|---|
| `Demand` | requests of sets of bindings, and the comparison of `allocatableFunc`, in one dimension | `capacity.go` 93-147 |
| `WorkQueue` | client-go's work queue, from the calls the cache makes (external) | |
| `Dispatcher` | API server and webhook, informer, cache, rounds, workers, patches, restarts | `cache.go`, `event_handlers.go` 151-254, `resource_binding_processor.go`, `mutating.go`, `dispatcher.go` |
| `Ledger` | the abstract specification of `Dispatcher`: grant in view of all grants, release after grant | |
| `DispatchRound` | one round, loop by loop, with the capacity and priority plugins in several dimensions | `dispatcher.go` 78-199, `capacity.go`, `session*.go`, `priority.go` |
| `Informer` | client-go's shared informers for one kind of object: list, watch, lost watch, relist with tombstones (external) | |
| `Admission` | the webhook's answer, the workload registry, and the queue and class a workload names | `mutating.go` 61-106, `workload.go`, `deployment.go`, `volcanojob.go`, `utils/queue.go` |
| `CacheHandlers` | every informer handler and `Snapshot`, as functions of the cache | `event_handlers.go`, `obj_converters.go`, `snapshot.go`, `utils/cluster.go` |
| `CacheView` | start of the process, the four informers, Karmada's bindings, handlers and snapshots, composed | `cache.go`, `cache/utils/utils.go`, `dispatcher.go` 69-86 |
| `MCDispatcher`, `MCDispatchRound`, `MCCacheView` | the instances TLC checks | |
| `DemandProofs`, `DispatcherProofs`, `DispatcherInv`, `DispatcherCapacityProofs`, `DispatcherFaultProofs` | theorems about `Dispatcher` | |
| `LedgerProofs` | that `Dispatcher` implements `Ledger`, and what that is worth | |
| `DispatchRoundInv`, `DispatchRoundProofs` | theorems about `DispatchRound` | |
| `InformerProofs`, `CacheViewProofs` | lemmas about `Informer`, theorems about `CacheView` | |

`Dispatcher` EXTENDS `Demand` and `WorkQueue` and composes all actors. `DispatchRound` refines what `Dispatcher` leaves
open inside a round (the order in which bindings are considered) for one snapshot that does not change, which is what the
session is: a deep copy. `CacheView` EXTENDS `CacheHandlers`, which EXTENDS `Informer` and `Admission`; it is what lies in front
of the other two: they take queues, classes and requests as constants, it says how these get into a snapshot. Of a dispatch it
keeps every step that writes an info's status or the API server: the dispatch itself, the worker, the patch and the recovery.

### Dispatcher: state and steps

| Variable | In the code |
|---|---|
| `api[k]` | the object in the API server: does it exist, its incarnation (`uid`), `spec.suspension.scheduling` |
| `events` | notifications of the binding informer whose handler has not run yet |
| `cache[k]` | `dc.resourceBindingInfos`: status, and the UID of the cached object; `None` is a missing entry |
| `round`, `pending`, `alloc` | the open session: its Suspended infos not considered yet, and `queueAttr.allocated` |
| `tasks`, `worker[w]`, `patch[k]` | the work queue, the key a worker took, and how far the goroutine of a key is |
| `budget` | faults left; `granted` is a history variable |

A step is one critical section, or one answer of the API server. `HandleSet` is add or update (both call
`setResourceBinding`, which builds a new info whose status comes from the object); `HandleDropped` is the same handler
returning early because the GET of the workload failed; `HandleDelete` drops the info. `OpenSession` is `Snapshot` with
`buildQueueAttrs`. `Dispatch` and `Ignore` are the two outcomes of `Allocatable`; `Dispatch` charges the session and calls
`UnSuspendResourceBinding`, which does nothing for a key that is gone. `WorkerGet`, `WorkerBreak` and `WorkerGo` are the
worker loop; the break leaves without `Done`. `PatchApplied`, `PatchRejected` and `PatchLost` are the answers to the patch,
`PatchRecover` the error path that puts the info back to `Suspended`, `PatchDone` the final `Done`. `Restart` forgets all
but `api` and replays an add per live binding, in any order.

What is abstracted: a binding's queue and request are constants and resources have one dimension (`DispatchRound` has
several); the critical section of a handler includes its GET, as in the code; a notification carries the object as it was.

### DispatchRound: state and steps

`phase` is the loop the round is in: `buildQueueAttrs`, collecting, round robin. `todo` is what a `range` over a Go map has
not visited, so the order is open. `waiting[q]` is the heap of bindings of `q`, `queues` and `rounded` the two heaps of
queues; a heap is the set it holds, and popping takes its least element by the session's comparators. `allocated` is
`queueAttr.allocated`, and `attrs` the keys of `queueOpts`. `Dispatch`, `AllocateFails`, `Ignore` and `AllocatablePanics`
are the outcomes of one turn (the code also skips a queue that has no binding left, `dispatcher.go:164-168`: by `HeapsMatch` none such is in a heap); `AllocateFails` is the branch in which `allocateFunc` does not find the queue under the name in the
info and `UnAllocate` fails in the same way. `served` is a history variable.

### CacheView: state and steps

| Variable | In the code |
|---|---|
| `phase`, `attempts` | the process: creating its default queue, running, or dead by a panic; failed attempts of `CreateDefaultQueue` |
| `streams[kind]` | the API server's objects of a kind, what the informer knows of them, the notifications not handled, the watch |
| `workloads[k]` | the Deployment, Job or other object binding `k` is for, and its version |
| `dc` | the `DispatcherCache`: `queues`, `classes`, `default` (`defaultPriorityClass`), `infos`, `clusters` |
| `session` | what the last snapshot showed `Suspended` and the round has not dispatched; it may be out of date |
| `tasks`, `patch[k]` | the task queue, and the goroutine of a key: `sent`, or `failed` before it takes the status back; `broken` is a key that a worker's break left in processing |
| `unread`, `recovered` | history: bindings whose last handler could not read the workload; bindings whose patch was answered by an error after a handler last set them |
| `budget` | the changes left |

`CreateAnswered` and `CreateFails` are one attempt of `CreateDefaultQueue` each; a failing create may have taken effect, and the
last failure is a panic. `List` is an informer's first list or the one after a lost watch (`LoseWatch`): objects in any order,
then tombstones. `HandleQueue`, `HandlePriorityClass`, `HandleCluster` and `HandleBinding` apply the handler of
`CacheHandlers` to the first notification of their kind; `HandleBinding` includes the GET, which returns the workload as it is
then, fails for a workload that is gone, and may fail otherwise (`unread`). `TakeSnapshot` may run as soon as every informer
has listed, which is what `Run` waits for; it writes priorities into the infos, or panics on a cluster without `ResourceSummary`.
`UnSuspendResourceBinding` dispatches a binding of the session, whatever its info is by now; `TaskWorker` is the worker loop with its
break. `PatchAnswered` and `PatchFails` are the answers, the latter with or without effect, and `PatchRecovers` is the error path: the
goroutine ends with `PatchAnswered` or `PatchRecovers`, which include its `Done`. So an info may be `UnSuspending` beside a suspended object,
and `Suspended` beside a released one. `Restart` follows a panic and forgets all of this.
`CreateBinding`, `UpdateBinding` and `DeleteBinding` are Karmada's, which refers a binding to the version of its workload.

A queue is its capability, a class its value and whether it is the global default, a cluster its readiness and what it has.
Admission keeps a class's value for its lifetime and one default at a time; a cluster that is ready has reported its resources.

## 3. What TLC checks

All bounds are constants of the `.cfg` files. `Budget` bounds faults of `Dispatcher`; nothing else is bounded there: the model
is finite because names are not reused without a `recreate` fault and all else is finite. In `CacheView` each scenario of
`Scenarios` says what exists at the start and how many changes of each sort may follow; `Attempts` stands for the 60 `Steps`.

| Run | Instance | What it shows |
|---|---|---|
| `dispatcher` | 3 bindings asking for 2, 1 and 1 of a queue of 2; 1 worker; 1 failing patch, 1 dropped notification | types; `NeverOvercommitted`; `ReleasedIsCharged`; `ImplementsLedger` |
| `faults` | 2 bindings, 2 workers; a failing patch, a foreign update, a reused name, a restart | `SingleFlight`, `NoGhosts`, `OnlyGrantedReleased`, `NoStrandedTask` |
| `live` | 2 bindings, 1 worker; a failing patch, a lost answer, a restart; fair | `DispatchedIsReleased`, `EventuallyDrained` |
| `round` | 4 bindings, 2 queues, 2 dimensions, a core one and a scalar one; fair | types; `HeapsMatch`, `EachServedOnce`, `RoundRobin`, `WithinLimit`, `WorkConserving`, `RoundEnds` |
| `view` | 2 classes, 2 queues, 1 cluster, 1 binding, 9 groups of scenarios; fair | types; `Mirrors`, `NoStaleDefault`, `DefaultFollows`, `ClustersFollow`, `InfoFollowsWorkload`, `StatusFollowsBinding`, `SuspendedIsKnown`, `RankedByItsClass`, `EventuallySeen` |
| `touch`, `restart`, `recreate`, `drop`, `default_queue`, `unspecified`, `missing_class` | one fault, or one kind of snapshot, each | disagreements between code and documentation, section 5 |

*Why these bounds are enough.* Overcommitting takes two bindings that do not fit together. With requests 2, 1, 1 and a
capability of 2 there is such a pair, a pair that fits exactly, and a third binding to take what a failed patch or a
deletion gave back; rounds repeat without bound. Two workers are what it takes to process a key twice. In the round, `q1`
has no scalar capability and unlimited cpu while `q2` has a cpu limit below the total, so every branch of the limit is
taken; one binding may be charged beforehand; two queues that compete with two or three bindings each give several laps. The
round runs over a choice of snapshots (`Competing`), not over all of them: they vary the status, queue, request and
priority of the bindings such that every action and every verdict occurs.

In `view`, two classes are what a hand-over of the default takes, and two changes in one lost watch what makes a relist
reorder it. Workloads are of every kind and name their queue in every place. Scenarios keep apart what does not interact: no
handler relates two bindings, two clusters or two queues, and only classes, workloads and bindings meet in an info. Each
scenario still lists all four informers in any order among its changes. `PatchesFail` has two dispatches and a failing patch among
changes of the workload and failing GETs; `Crashes` has a snapshot that panics while a binding waits or is being patched.

*Two exceptions are needed, and so the properties state them.* Names, not objects, are what tasks and patches go by. Without the exception
for a name used before, `NoStrandedTask` fails in `faults` as `recreate` does: the key is dirty and in processing, but in no queue, with
no worker and in no goroutine (`Abandoned`). And if `OnlyGrantedReleased` asked for a grant to the very object that is released, it would
fail there too: the task of a deleted object releases the next one of its name.

*Fairness.* `Handle`, `Round`, each worker and each goroutine are weakly fair: each is a Go loop or goroutine that nothing blocks
for ever (the mutex is held for finite critical sections, `wait.Until` restarts rounds and workers, and the
API server answers each request). The environment is not fair: nobody has to create, delete or update a binding, and no
fault has to happen. A round is weakly fair as a whole, since a round only waits for itself. In `CacheView`
each informer lists and each kind of handler runs; some attempt to create the default queue is answered, a dead process is
started again, and Karmada keeps bindings in step with workloads. Snapshots, dispatches, patches, changes and faults are not fair there.

*Deadlock* is checked for `Dispatcher` and `CacheView`, whose rounds never stop, and not for `DispatchRound`, which ends.

## 4. What is proved

Every invariant that a passing run checks, the refinement and the action property are proved, for any values of the constants that
satisfy the modules' assumptions.

| Theorem | Property | Assumes besides |
|---|---|---|
| `TypeCorrect` | `Dispatcher!TypeOK` | |
| `OnePatchAtATime` | `SingleFlight` | |
| `NoInfoOutlivesItsObject` | `NoGhosts` | |
| `DispatchedHasItsTask` | `NoStrandedTask` | |
| `ReleasedWasGranted` | `OnlyGrantedReleased` | |
| `CapacitySafe` | `NeverOvercommitted` | `Clean`: no foreign updates, lost answers, reused names and restarts |
| `ReleasedStaysCharged` | `ReleasedIsCharged` | `Clean` |
| `DispatcherKeepsLedger` | `ImplementsLedger` | `Clean` |
| `LedgerFits` | what is granted or released fits its queue, in every behaviour of the ledger | |
| `RoundTypeCorrect`, `HeapsAlwaysMatch`, `RoundServesEachOnce` | `DispatchRound!TypeOK`, `HeapsMatch`, `EachServedOnce` | |
| `DispatchedWithinLimit`, `RoundConservesWork`, `RoundIsRobin` | `WithinLimit`, `WorkConserving`, `RoundRobin` | |
| `OnlyUnspecifiedPanics` | `NeverCrashes` | every binding has `ReplicaRequirements` |
| `ViewTypeCorrect`, `CacheMirrors`, `ClustersAreFollowed` | `CacheView!TypeOK`, `Mirrors`, `ClustersFollow` | |
| `DefaultNeverStale`, `DefaultIsFollowed` | `NoStaleDefault`, `DefaultFollows` | |
| `InfoFollows`, `StatusFollows` | `InfoFollowsWorkload`, `StatusFollowsBinding` | |
| `SuspendedHasInfo`, `SnapshotRanksByClass` | `SuspendedIsKnown`, `RankedByItsClass` | |

The assumptions on constants are the `ASSUME`s of `Demand`, `Dispatcher`, `DispatchRound` and `CacheView`: finite sets of
names, total functions of their types, `NoKey`, `NoObject` and the like not among the values they stand beside.
`CacheViewAssumption` also says what a scenario may begin with: typed objects, one default class at most (the API server's admission
keeps it so), and bindings that the webhook let in. `Budget` is any function to the naturals, so theorems without hypothesis
cover any number of faults of every kind. `Clean` is needed: runs `touch` and `restart` violate `NeverOvercommitted` without
it, and a lost answer or a reused name would too. Each inductive invariant was checked by TLC on the instances of section 3, or smaller ones, before it was
proved.

*One goroutine per key.* `SingleFlight` follows from two facts that are inductive with it (`FlightInv`): the waiting keys of the work
queue are distinct and not in processing (`QueueInv`), and whoever is busy with a key holds it in processing (`BusyInv`).

*No overcommitment.* The invariant speaks of charged bindings (`Holding`: UnSuspending or UnSuspended in the cache), and its
core is two facts: what is released is charged (`ReleasedInv`), and what is charged fits, while the open session's `allocated` is
at least what is charged (`LoadInv`). Neither is inductive alone.

* A handler could lower the status of a charged binding: `AddInv` says that an add is the first that is heard of a
  binding, `UpdateInv` that an update reports a release, `DeleteInv` that a delete is the last that is heard of it.
* A failed patch could take back a release: `TaskInv` says that a binding with a task is not released, and has its task in one
  place.
* A round could charge a binding twice or the wrong one: `PendingInv` says that what it has still to consider is not charged.
* `BirthInv` says that nothing is known of a name never used, `QuietInv` that the excluded faults stay excluded.

`CapacityInv` is their conjunction; it is proved inductive with `TypeOK` and `FlightInv`, one lemma per action. `DemandProofs` has
the arithmetic: the load of a set of bindings is a cardinality, monotone, and grows by `Req[k]` with `k`. Counting units in place
of adding numbers is what makes this provable from the library's facts on cardinalities.

*What holds through every fault.* `NoGhosts` says that an info whose object is gone is to hear of its deletion. To keep it when a
handler stores an older incarnation, the same must hold of notifications: one that is no deletion and whose object is gone is
followed by the deletion of that incarnation (`FarewellInv`); and a deletion must not be that of an incarnation yet to come
(`UidInv`). A restart replays live objects only.

`OnlyGrantedReleased` follows a key along its way: what is in the task queue, with a worker, on its way in a patch or released has a
granted incarnation that exists already (`GrantInv`). That a round grants under the uid the cache holds needs `NameInv`: no
notification and no info is of an incarnation yet to come or before the first.

`NoStrandedTask` has two parts. Whatever takes a key out of the task queue, the workers and the goroutines released the object, put the
info back to Suspended, or found no info: so a binding that is dispatched and not released is owed its release by some
of them, where a key that is only dirty counts too (`OwedInv`). The other part says who owes it when it is dirty and not queued: a dirty
key is queued or in processing (`DirtyInv`), and a key in processing is held by a worker or a goroutine as long as its name had one object
that was not deleted (`FirstInv`), because only a missing info makes a worker break off, and an info that was dispatched is missing only
after a deletion, which no first object survives.

*The ledger.* `Entry` reads where a binding stands off the API server and the cache. Under `CapacityInv`, `OneLife` (no name is reused) and one more
fact (`SeenInv`: what a notification or the cache takes for released was released) each step maps to one of the ledger: `Create`
to `Submit`, `Delete` to `Leave`, `Dispatch` of a binding still cached and live to `Grant`, `PatchApplied` to `Release`, `PatchRecover` to
`Revoke` if the object lives; handlers, workers, sessions and the rest do not show. That `Grant` fits is the heart of it: the holders the
ledger sees are among the charged bindings, whose load is at most the session's `allocated` though that is an older copy. `LedgerFits` adds
what the ledger is worth: also a binding that is granted and not released yet has its room.

*The round.* `RoundInv` collects what each loop leaves for the next one: which phase uses which heap (`PhaseInv`), that visited
bindings have their queue's attribute (`AttrInv`), that heaps hold Suspended bindings not served (`WaitInv`), that each such binding is to be visited,
waits or was served (`CoverInv`), and what a verdict says of its binding for the rest of the round (`VerdictInv`: a limit once
exceeded stays so, because `allocated` only grows). Round robin needs a count: the queues of a lap have had equally many turns, those
of the next lap one more (`LapInv`); with `OrderInv`, that what was served of a queue goes before what waits in it, each turn is ranked
after all earlier ones and before all that wait (`RankInv`). The order of bindings is proved total and asymmetric for this, as their UIDs
are distinct.

*The cache's view.* `InformerProofs` says of one kind of object what its pending notifications amount to: there is a history `v`, where
`v[0]` is what the handlers were told so far, `v[i]` what they will have been told after `i` notifications and the last one what the
informer knows, and each notification says truly what its object was before (`Replay`). Lists, lost watches, relists in any order and tombstones
keep it. `CacheViewProofs` says for each kind what the cache is as a function of `v[0]`: the queues and classes themselves, the clusters
up to readiness, the infos by the workload read (`InfoFits`) and, for their status, by the binding last told of. A handler then only has to take `v[0]` to `v[1]`, and when nothing
is pending `v[0]` is the API server. For classes the invariant adds that no `v[i]` has two defaults as long as no watch was
lost (`ClassTold`); that is exactly what a relist breaks. For bindings it adds that each one told of was admitted by the webhook and
is deleted only after its workload (`Genuine`).
What is `UnSuspending` and not released has a task or a patch (`TaskInv`). That this task is not a key left in processing needs two more
facts: only what is gone for good is told to be (`FarewellInv`), so a worker finds no info only of a binding that is gone
for good, and breaks off for no other (`BreakInv`). In `CacheView` a binding's workload is deleted first and its name is not used again;
what becomes of a reused name is the subject of `Dispatcher` and its run `recreate`.

*Only model-checked:* liveness under fairness, which the prover does not do: `DispatchedIsReleased`, `EventuallyDrained`,
`RoundEnds` and `EventuallySeen`. The disagreements of section 5 are shown by TLC's counterexamples.

## 5. Where code and documentation disagree

1. `touch`: any update of a binding between its dispatch and its patch takes the charge back (`event_handlers.go:243`).
2. `restart`: rounds do not wait for the handlers that fill the cache (`cache.go:194`).
3. `recreate`: the worker's `break` skips `Done` (`resource_binding_processor.go:61`), and a later binding of that name is stuck.
4. `drop`: a failed GET in a handler loses the binding (`event_handlers.go:216`).
5. `default_queue`: `allocateFunc` looks up the unresolved queue name (`capacity.go:150`).
6. `unspecified`: nil `ReplicaRequirements` (`capacity.go:139`).
7. `missing_class`: a snapshot leaves out released bindings whose PriorityClass is not cached (`snapshot.go:66`).

The quotations are in `PROJECT.json`. Two more, not modelled: the proposal orders queues of equal priority by share
(`docs/proposals/queue-capacity-management.md:131`), and `queueOrderFunc` does not; `updateShare` computes a share that nothing reads.
A lost answer to a patch overcommits as in 1: the info is Suspended though the binding is released, until a handler sets it again;
`StatusFollowsBinding` excepts this case (`recovered`) and shows that there is no other. And with a reused name the patch of an old task
may release the new object, which no round considered: `OnlyGrantedReleased` speaks of names for this reason. Neither has a run that shows a violation:
no document speaks of lost answers or of reused names.

Four things `CacheView` shows about the code that no document excludes, and that its properties except or allow:

* *A default class may get lost in a relist.* When the default passes from one class to another while the watch is lost, and the
  list has the new default first, `updatePriorityClass` (or `deletePriorityClass`) of the old one clears the new one
  (`event_handlers.go:117`, `:137`). The cache then has no default until the class changes or the process restarts. Hence
  `DefaultFollows` and `RankedByItsClass` ask for an intact watch; `NoStaleDefault` does not.
* *A default priority outlives its class.* Without a default class an info that names no class keeps the priority an earlier
  snapshot wrote into it (`snapshot.go:69`), though `resource_binding_info.go:39` says "Update it when snapshot".
* *A snapshot may panic.* `updateCluster` caches a cluster that is not ready and may have no `ResourceSummary` yet, which
  `Snapshot` dereferences (`snapshot.go:53`). After the restart `addCluster` leaves it out, until its next update.
* *A cluster that became unready keeps counting*, until the process restarts: then the total no longer has it.

## 6. What is not modelled, and why

* Options, entry points, plugin manager and factory, the test mock: flags, start-up and a registry filled before anything runs,
  without behaviour that a model would tell more about. Leader election is the library's; that one controller runs at a time is
  assumed.
* Requests to the webhook that are not the create of a `ResourceBinding`, or do not decode: they are refused and leave no state.
* Share computation: not read by any code.
* The informer's indexer and resync: the handlers only see notifications, and no resync is configured.
* Floating point: resources are natural numbers.
* The duration of a GET under the cache's mutex (`event_handlers.go:212`): steps are whole critical sections.
* A binding that is overtaken by smaller ones for as long as they arrive (`dispatcher.go:193`): no document excludes it.

## 7. Plan

Done: 1. `Demand`, `WorkQueue`, `Dispatcher`, `Ledger` and their runs; 2. `DispatchRound`; 3. type correctness, one patch
at a time and no overcommitment proved; 4. `Informer`, `Admission`, `CacheHandlers`, `CacheView` and their runs; 5. the safety properties
of `DispatchRound` and `CacheView`, the properties under faults and the ledger proved.

Next, in this order:

1. The safety half of the liveness arguments: a measure that every step of a round lowers (for `RoundEnds`), and that of the
   steps a binding takes from `Dispatch` to its release (for `DispatchedIsReleased`).
2. `NeverOvercommitted` under weaker assumptions than `Clean`: which faults may occur before the first grant without harm.
3. What the `CacheView` theorems say of a snapshot as a whole, so that the constants of `Dispatcher` and `DispatchRound` are justified
   by a theorem.
