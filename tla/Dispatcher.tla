----------------------------- MODULE Dispatcher -----------------------------
(***************************************************************************)
(* The life of workload ResourceBindings under the dispatcher: the API     *)
(* server with the mutating webhook, the informer that feeds the cache,    *)
(* the dispatch rounds, the unsuspend task queue, its workers and the      *)
(* goroutines that patch the API server.                                   *)
(*                                                                         *)
(* Steps are the critical sections of the code: an informer handler, a     *)
(* Snapshot and an UnSuspendResourceBinding each hold dc.mutex from their  *)
(* first read to their last write.  The order in which one round considers *)
(* its bindings is left open here; module DispatchRound has it.            *)
(***************************************************************************)
EXTENDS Demand, Sequences, WorkQueue

CONSTANTS
    Workers,  \* the task workers, option.WorkerNum of them
    NoKey,    \* what an idle worker holds
    Budget    \* Budget[f]: how many faults of kind f the environment may cause

FaultKinds ==
    { "touch",      \* another client updates a binding
      "reject",     \* a patch fails and has no effect
      "lose",       \* a patch takes effect and its answer is an error
      "drop",       \* the GET of the workload fails inside a handler
      "recreate",   \* a deleted binding is created again under its name
      "restart" }   \* the controller process dies and is started again

ASSUME DispatcherAssumption ==
    /\ NoKey \notin Keys
    /\ Budget \in [FaultKinds -> Nat]

VARIABLES
    api,      \* api[k]: the object; uid counts the incarnations created so far
    events,   \* the binding informer's notifications not yet handled
    cache,    \* cache[k]: dc.resourceBindingInfos
    round,    \* whether a dispatch round is running
    pending,  \* the session's Suspended bindings not considered yet
    alloc,    \* alloc[q]: queueAttr.allocated of the session
    tasks,    \* dc.unSuspendRBTaskQueue
    worker,   \* worker[w]: the key w took and has not looked up yet
    patch,    \* patch[k]: where the goroutine that patches k is
    budget,   \* the faults left
    granted   \* history: the incarnations some round granted room to

vars == <<api, events, cache, round, pending, alloc, tasks, worker, patch,
          budget, granted>>

Status == {"None", "Suspended", "UnSuspending", "UnSuspended"}
Phase == {"none", "sent", "failed", "done"}

Object == [live : BOOLEAN, uid : Nat, suspended : BOOLEAN]
Event == [op : {"add", "update", "delete"}, key : Keys, uid : Nat,
          suspended : BOOLEAN]

NoInfo == [status |-> "None", uid |-> 0]
NoAlloc == [q \in Queues |-> 0]

\* The notification of op that carries the current object of k.
Note(op, k) == [op |-> op, key |-> k, uid |-> api[k].uid,
                suspended |-> api[k].suspended]

Spend(f) == /\ budget[f] > 0
            /\ budget' = [budget EXCEPT ![f] = @ - 1]

\* DispatchStatus of a cached binding; what is not Suspended is charged.
Cached(k) == cache[k].status # "None"

\* Mutant of Charged: a binding is charged only once its release is observed.
ChargedLate(q) == {k \in Keys : QueueOf[k] = q /\ cache[k].status = "UnSuspended"}

Charged(q) == {k \in Keys : /\ QueueOf[k] = q
                            /\ cache[k].status \in {"UnSuspending", "UnSuspended"}}

Init ==
    /\ api = [k \in Keys |-> [live |-> FALSE, uid |-> 0, suspended |-> FALSE]]
    /\ events = << >>
    /\ cache = [k \in Keys |-> NoInfo]
    /\ round = "idle"
    /\ pending = {}
    /\ alloc = NoAlloc
    /\ tasks = EmptyQueue
    /\ worker = [w \in Workers |-> NoKey]
    /\ patch = [k \in Keys |-> "none"]
    /\ budget = Budget
    /\ granted = {}
-----------------------------------------------------------------------------
(* The API server and its other clients. *)

\* Mutant of Create: the webhook lets the binding in unsuspended.
CreateUngated(k) ==
    /\ ~api[k].live
    /\ IF api[k].uid = 0 THEN UNCHANGED budget ELSE Spend("recreate")
    /\ api' = [api EXCEPT ![k] = [live |-> TRUE, uid |-> @.uid + 1, suspended |-> FALSE]]
    /\ events' = Append(events, [op |-> "add", key |-> k, uid |-> api[k].uid + 1,
                                 suspended |-> FALSE])
    /\ UNCHANGED <<cache, round, pending, alloc, tasks, worker, patch, granted>>

\* A create passes the mutating webhook, which suspends the binding.
Create(k) ==
    /\ ~api[k].live
    /\ IF api[k].uid = 0 THEN UNCHANGED budget ELSE Spend("recreate")
    /\ api' = [api EXCEPT ![k] = [live |-> TRUE, uid |-> @.uid + 1, suspended |-> TRUE]]
    /\ events' = Append(events, [op |-> "add", key |-> k, uid |-> api[k].uid + 1,
                                 suspended |-> TRUE])
    /\ UNCHANGED <<cache, round, pending, alloc, tasks, worker, patch, granted>>

Delete(k) ==
    /\ api[k].live
    /\ api' = [api EXCEPT ![k].live = FALSE]
    /\ events' = Append(events, Note("delete", k))
    /\ UNCHANGED <<cache, round, pending, alloc, tasks, worker, patch, budget, granted>>

\* Some other field changes: the informer delivers the object as it is now.
Touch(k) ==
    /\ api[k].live
    /\ Spend("touch")
    /\ events' = Append(events, Note("update", k))
    /\ UNCHANGED <<api, cache, round, pending, alloc, tasks, worker, patch, granted>>
-----------------------------------------------------------------------------
(* The informer's handlers, one notification at a time, in order. *)

\* Mutant of SetResourceBinding: the status is not read off the object.
SetAlwaysSuspended(e) ==
    cache' = [cache EXCEPT ![e.key] = [status |-> "Suspended", uid |-> e.uid]]

\* setResourceBinding: a new info, whose status is read off the object.
SetResourceBinding(e) ==
    cache' = [cache EXCEPT ![e.key] =
        [status |-> IF e.suspended THEN "Suspended" ELSE "UnSuspended", uid |-> e.uid]]

HandleSet ==
    /\ events # << >> /\ Head(events).op \in {"add", "update"}
    /\ SetResourceBinding(Head(events))
    /\ events' = Tail(events)
    /\ UNCHANGED <<api, round, pending, alloc, tasks, worker, patch, budget, granted>>

\* getResourceFromObjectReference fails: the handler returns, nothing retries it.
HandleDropped ==
    /\ events # << >> /\ Head(events).op \in {"add", "update"}
    /\ Spend("drop")
    /\ events' = Tail(events)
    /\ UNCHANGED <<api, cache, round, pending, alloc, tasks, worker, patch, granted>>

\* Mutant of HandleDelete: the info stays in the cache.
HandleDeleteKeepsInfo ==
    /\ events # << >> /\ Head(events).op = "delete"
    /\ events' = Tail(events)
    /\ UNCHANGED <<api, cache, round, pending, alloc, tasks, worker, patch, budget, granted>>

HandleDelete ==
    /\ events # << >> /\ Head(events).op = "delete"
    /\ cache' = [cache EXCEPT ![Head(events).key] = NoInfo]
    /\ events' = Tail(events)
    /\ UNCHANGED <<api, round, pending, alloc, tasks, worker, patch, budget, granted>>

Handle == HandleSet \/ HandleDropped \/ HandleDelete
-----------------------------------------------------------------------------
(* A dispatch round. *)

\* Snapshot, then buildQueueAttrs of the capacity plugin.
OpenSession ==
    /\ round = "idle"
    /\ round' = "open"
    /\ pending' = {<<k, cache[k].uid>> : k \in {x \in Keys : cache[x].status = "Suspended"}}
    /\ alloc' = [q \in Queues |-> Load(Charged(q))]
    /\ UNCHANGED <<api, events, cache, tasks, worker, patch, budget, granted>>

\* Mutant of UnSuspendResourceBinding: the status changes, no task is added.
UnSuspendWithoutTask(k) ==
    /\ cache' = IF Cached(k) THEN [cache EXCEPT ![k].status = "UnSuspending"] ELSE cache
    /\ UNCHANGED tasks

\* UnSuspendResourceBinding: only a binding still cached gets a task.
UnSuspendResourceBinding(k) ==
    IF Cached(k)
    THEN /\ cache' = [cache EXCEPT ![k].status = "UnSuspending"]
         /\ tasks' = Add(tasks, k)
    ELSE UNCHANGED <<cache, tasks>>

\* Mutant of Dispatch: Allocate is not called.
DispatchUncharged(k) ==
    \E info \in pending :
        /\ info[1] = k
        /\ Fits(alloc[QueueOf[k]], k)
        /\ pending' = pending \ {info}
        /\ granted' = granted \cup {info}
        /\ UnSuspendResourceBinding(k)
        /\ UNCHANGED <<api, events, round, alloc, worker, patch, budget>>

\* Allocatable holds: Allocate charges the queue and the binding is released.
Dispatch(k) ==
    \E info \in pending :
        /\ info[1] = k
        /\ Fits(alloc[QueueOf[k]], k)
        /\ pending' = pending \ {info}
        /\ alloc' = [alloc EXCEPT ![QueueOf[k]] = @ + Req[k]]
        /\ granted' = granted \cup {info}
        /\ UnSuspendResourceBinding(k)
        /\ UNCHANGED <<api, events, round, worker, patch, budget>>

\* Mutant of Ignore: UnAllocate is called for a binding that was not charged.
IgnoreUnallocates(k) ==
    \E info \in pending :
        /\ info[1] = k
        /\ ~Fits(alloc[QueueOf[k]], k)
        /\ pending' = pending \ {info}
        /\ alloc' = [alloc EXCEPT ![QueueOf[k]] = @ - Req[k]]
        /\ UNCHANGED <<api, events, cache, round, tasks, worker, patch, budget, granted>>

\* The queue is overused: the binding waits for a later round.
Ignore(k) ==
    \E info \in pending :
        /\ info[1] = k
        /\ ~Fits(alloc[QueueOf[k]], k)
        /\ pending' = pending \ {info}
        /\ UNCHANGED <<api, events, cache, round, alloc, tasks, worker, patch, budget, granted>>

CloseSession ==
    /\ round = "open"
    /\ pending = {}
    /\ round' = "idle"
    /\ alloc' = NoAlloc
    /\ UNCHANGED <<api, events, cache, pending, tasks, worker, patch, budget, granted>>

Round == OpenSession \/ CloseSession \/ \E k \in Keys : Dispatch(k) \/ Ignore(k)
-----------------------------------------------------------------------------
(* The task workers and the goroutines they start. *)

WorkerGet(w) ==
    /\ worker[w] = NoKey
    /\ tasks.queue # << >>
    /\ worker' = [worker EXCEPT ![w] = Head(tasks.queue)]
    /\ tasks' = Get(tasks)
    /\ UNCHANGED <<api, events, cache, round, pending, alloc, patch, budget, granted>>

\* A key no longer cached ends the worker's loop, without Done; wait.Until
\* starts the loop again.
WorkerBreak(w) ==
    /\ worker[w] # NoKey
    /\ ~Cached(worker[w])
    /\ worker' = [worker EXCEPT ![w] = NoKey]
    /\ UNCHANGED <<api, events, cache, round, pending, alloc, tasks, patch, budget, granted>>

\* Mutant of WorkerGo: Done is called when the goroutine starts.
WorkerGoDone(w) ==
    /\ worker[w] # NoKey
    /\ Cached(worker[w])
    /\ patch' = [patch EXCEPT ![worker[w]] = "sent"]
    /\ tasks' = Done(tasks, worker[w])
    /\ worker' = [worker EXCEPT ![w] = NoKey]
    /\ UNCHANGED <<api, events, cache, round, pending, alloc, budget, granted>>

WorkerGo(w) ==
    /\ worker[w] # NoKey
    /\ Cached(worker[w])
    /\ patch' = [patch EXCEPT ![worker[w]] = "sent"]
    /\ worker' = [worker EXCEPT ![w] = NoKey]
    /\ UNCHANGED <<api, events, cache, round, pending, alloc, tasks, budget, granted>>

\* The server applies the patch to whatever object has the name now; a patch
\* that changes nothing is not an update.
Apply(k) ==
    /\ api[k].live
    /\ api' = [api EXCEPT ![k].suspended = FALSE]
    /\ events' = IF api[k].suspended
                 THEN Append(events, [Note("update", k) EXCEPT !.suspended = FALSE])
                 ELSE events

PatchApplied(k) ==
    /\ patch[k] = "sent"
    /\ Apply(k)
    /\ patch' = [patch EXCEPT ![k] = "done"]
    /\ UNCHANGED <<cache, round, pending, alloc, tasks, worker, budget, granted>>

PatchRejected(k) ==
    /\ patch[k] = "sent"
    /\ IF api[k].live THEN Spend("reject") ELSE UNCHANGED budget
    /\ patch' = [patch EXCEPT ![k] = "failed"]
    /\ UNCHANGED <<api, events, cache, round, pending, alloc, tasks, worker, granted>>

PatchLost(k) ==
    /\ patch[k] = "sent"
    /\ Apply(k)
    /\ Spend("lose")
    /\ patch' = [patch EXCEPT ![k] = "failed"]
    /\ UNCHANGED <<cache, round, pending, alloc, tasks, worker, granted>>

\* Mutant of PatchRecover: the status is not taken back.
PatchForgets(k) ==
    /\ patch[k] = "failed"
    /\ patch' = [patch EXCEPT ![k] = "done"]
    /\ UNCHANGED <<api, events, cache, round, pending, alloc, tasks, worker, budget, granted>>

\* The patch failed: back to Suspended, whatever the info says by now.
PatchRecover(k) ==
    /\ patch[k] = "failed"
    /\ cache' = IF Cached(k) THEN [cache EXCEPT ![k].status = "Suspended"] ELSE cache
    /\ patch' = [patch EXCEPT ![k] = "done"]
    /\ UNCHANGED <<api, events, round, pending, alloc, tasks, worker, budget, granted>>

PatchDone(k) ==
    /\ patch[k] = "done"
    /\ tasks' = Done(tasks, k)
    /\ patch' = [patch EXCEPT ![k] = "none"]
    /\ UNCHANGED <<api, events, cache, round, pending, alloc, worker, budget, granted>>
-----------------------------------------------------------------------------
\* The process dies and a new one lists the bindings.  The cache counts as
\* synced once they are listed: rounds do not wait for the handlers.
Restart ==
    /\ Spend("restart")
    /\ LET live == {k \in Keys : api[k].live}
       IN \E order \in [1..Cardinality(live) -> live] :
            /\ \A k \in live : \E i \in DOMAIN order : order[i] = k
            /\ events' = [i \in DOMAIN order |-> Note("add", order[i])]
    /\ cache' = [k \in Keys |-> NoInfo]
    /\ round' = "idle"
    /\ pending' = {}
    /\ alloc' = NoAlloc
    /\ tasks' = EmptyQueue
    /\ worker' = [w \in Workers |-> NoKey]
    /\ patch' = [k \in Keys |-> "none"]
    /\ UNCHANGED <<api, granted>>

Environment == Restart \/ \E k \in Keys : Create(k) \/ Delete(k) \/ Touch(k)

Work(w) == WorkerGet(w) \/ WorkerBreak(w) \/ WorkerGo(w)

Patching(k) == \/ PatchApplied(k) \/ PatchRejected(k) \/ PatchLost(k)
               \/ PatchRecover(k) \/ PatchDone(k)

Next ==
    \/ Environment
    \/ Handle
    \/ Round
    \/ \E w \in Workers : Work(w)
    \/ \E k \in Keys : Patching(k)

Spec == Init /\ [][Next]_vars

\* Go keeps its goroutines running and the server answers every request; the
\* environment owes nothing.
Fairness ==
    /\ WF_vars(Handle)
    /\ WF_vars(Round)
    /\ \A w \in Workers : WF_vars(Work(w))
    /\ \A k \in Keys : WF_vars(Patching(k))

FairSpec == Spec /\ Fairness
-----------------------------------------------------------------------------
(* Properties. *)

\* Every variable keeps its type.
TypeOK ==
    /\ api \in [Keys -> Object]
    /\ events \in Seq(Event)
    /\ cache \in [Keys -> [status : Status, uid : Nat]]
    /\ round \in {"idle", "open"}
    /\ pending \in SUBSET (Keys \X Nat)
    /\ alloc \in [Queues -> Nat]
    /\ tasks \in QueueTypes(Keys)
    /\ worker \in [Workers -> Keys \cup {NoKey}]
    /\ patch \in [Keys -> Phase]
    /\ budget \in [FaultKinds -> Nat]
    /\ granted \in SUBSET (Keys \X Nat)

Released(q) == {k \in Keys : QueueOf[k] = q /\ api[k].live /\ ~api[k].suspended}

\* The bindings the API server holds released never ask for more than their
\* queue's capability, whatever interleaving of rounds, handlers, workers,
\* failing patches and deletions led there (capacity.go, Allocatable against
\* the snapshot's allocated).
NeverOvercommitted == \A q \in Queues : Load(Released(q)) <= Cap[q]

\* No name is released before a round granted room to it, to this or to an
\* earlier object of that name: neither a foreign update nor a restart nor a
\* worker releases on its own.  The first object of a name was granted room
\* itself; later ones may be released by the task of an object that is gone,
\* since tasks and patches go by name (resource_binding_processor.go:66,106).
OnlyGrantedReleased ==
    \A k \in Keys : api[k].live /\ ~api[k].suspended
                     => \E uid \in 1..api[k].uid : <<k, uid>> \in granted

\* A released binding that is cached is charged to its queue: no handler, no
\* failed patch and no round takes its info back to Suspended.
ReleasedIsCharged ==
    \A k \in Keys :
        api[k].live /\ ~api[k].suspended /\ cache[k].uid = api[k].uid
        => cache[k].status # "Suspended"

\* At most one worker or goroutine is busy with a key: two would race on the
\* info's status and call Done for each other (the work queue's promise, kept
\* because Done is called only when the goroutine is through).
SingleFlight ==
    \A w \in Workers : worker[w] # NoKey =>
        /\ patch[worker[w]] = "none"
        /\ \A v \in Workers : v # w => worker[v] # worker[w]

\* A binding that is gone, or replaced by a new incarnation, stays charged
\* only until its deletion is handled: the cache holds no info for it unless
\* the delete notification of that incarnation is still to come.
NoGhosts ==
    \A k \in Keys :
        Cached(k) /\ ~(api[k].live /\ api[k].uid = cache[k].uid)
        => \E i \in DOMAIN events : /\ events[i].op = "delete"
                                   /\ events[i].key = k
                                   /\ events[i].uid = cache[k].uid

Held(k) == patch[k] # "none" \/ \E w \in Workers : worker[w] = k

\* The task waits, is with a worker or in a goroutine, or was added again while
\* the goroutine that is about to call Done was busy with the key.
InTask(k) == \/ \E i \in DOMAIN tasks.queue : tasks.queue[i] = k
             \/ \E w \in Workers : worker[w] = k
             \/ patch[k] \in {"sent", "failed"}
             \/ patch[k] = "done" /\ k \in tasks.dirty

\* A worker's break left the key in processing, and nobody calls Done for it.
Abandoned(k) == k \in tasks.dirty \cap tasks.processing /\ ~Held(k)

Dispatched(k) == /\ cache[k].status = "UnSuspending"
                 /\ api[k].live /\ api[k].suspended
                 /\ api[k].uid = cache[k].uid

\* A binding marked UnSuspending and not released yet has its task in the
\* queue, with a worker, or in a goroutine that may still fail and give it back:
\* otherwise no round would look at it again and it would hold its room for
\* ever.  Only a name used before can do so, when a worker broke off with its
\* key (resource_binding_processor.go:58-61).
NoStrandedTask ==
    \A k \in Keys : Dispatched(k) => InTask(k) \/ (api[k].uid > 1 /\ Abandoned(k))

\* The cache, the rounds and the patches together do what the ledger does in
\* single steps: room is granted in view of all grants and released after.
Entry ==
    [k \in Keys |->
        IF ~api[k].live THEN "absent"
        ELSE IF ~api[k].suspended THEN "released"
        ELSE IF Dispatched(k) THEN "granted" ELSE "waiting"]

L == INSTANCE Ledger WITH entry <- Entry

ImplementsLedger == L!Spec

\* cache.go's comment on unSuspendRBTaskQueue: a binding that finished dispatch
\* gets a task and its spec is updated; so it does not stay UnSuspending and
\* suspended for ever.
DispatchedIsReleased == \A k \in Keys : Dispatched(k) ~> ~Dispatched(k)

\* Once the environment is quiet, no binding that fits beside the released
\* ones of its queue is left waiting.
EventuallyDrained ==
    <>[](\A k \in Keys : api[k].live /\ api[k].suspended
                          => ~Fits(Load(Released(QueueOf[k])), k))
=============================================================================
