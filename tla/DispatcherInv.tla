---------------------------- MODULE DispatcherInv ---------------------------
(***************************************************************************)
(* The inductive invariant behind NeverOvercommitted, for an environment   *)
(* in which the dispatcher is the only client that changes the bindings it *)
(* suspends, names are not reused, no answer is lost and the process does  *)
(* not restart.  Patches may fail and handlers may drop notifications.     *)
(***************************************************************************)
EXTENDS Dispatcher

Clean == \A f \in {"touch", "lose", "recreate", "restart"} : Budget[f] = 0

\* The charged bindings, and those whose task is under way.
Holding == {k \in Keys : cache[k].status \in {"UnSuspending", "UnSuspended"}}
Owed(k) == \/ k \in tasks.dirty
           \/ \E w \in Workers : worker[w] = k
           \/ patch[k] \in {"sent", "failed"}

Tasked == {k \in Keys : Owed(k)}

\* What the cache, a round or a worker has seen and still knows.
Started == {k \in Keys : \/ Cached(k) \/ Owed(k) \/ patch[k] = "done"
                         \/ \E info \in pending : info[1] = k}

QuietInv == \A f \in {"touch", "lose", "recreate", "restart"} : budget[f] = 0

\* A name that was never used is known to nobody.
BirthInv == \A k \in Keys : api[k].uid = 0 =>
    /\ ~api[k].live /\ k \notin Started
    /\ \A i \in DOMAIN events : events[i].key # k

\* An add is the first that is heard of a binding.
AddInv == \A i \in DOMAIN events : events[i].op = "add" =>
    /\ events[i].suspended /\ api[events[i].key].suspended
    /\ events[i].key \notin Started
    /\ \A j \in DOMAIN events : i # j /\ events[j].op = "add" => events[j].key # events[i].key

\* An update reports a release, of a binding that is charged and whose patch
\* is not on its way any more.
UpdateInv == \A i \in DOMAIN events : events[i].op = "update" =>
    ~events[i].suspended /\ events[i].key \in Holding /\ events[i].key \notin Tasked

\* Nothing is heard of a binding after its deletion.
DeleteInv == \A i \in DOMAIN events : events[i].op = "delete" =>
    /\ ~api[events[i].key].live
    /\ \A j \in DOMAIN events : i < j => events[j].key # events[i].key

\* A binding with a task is charged, as long as it is cached, and not released
\* yet; its task is in one place.
TaskInv == \A k \in Keys :
    /\ k \in Tasked => /\ Cached(k) => k \in Holding
                       /\ api[k].live => Cached(k) /\ api[k].suspended
    /\ (patch[k] \in {"sent", "failed"} \/ \E w \in Workers : worker[w] = k)
       => k \notin tasks.dirty

\* What the round has still to consider is not charged.
PendingInv ==
    /\ round = "idle" => pending = {}
    /\ \A info \in pending : info[1] \notin Holding
    /\ \A info, other \in pending : info[1] = other[1] => info = other

ReleasedInv == \A k \in Keys : api[k].live /\ ~api[k].suspended => k \in Holding

\* The charged bindings fit, and the session knows of all of them.
LoadInv == \A q \in Queues :
    /\ Load(Charged(q)) <= Cap[q]
    /\ round = "open" => Load(Charged(q)) <= alloc[q]

EventInv == AddInv /\ UpdateInv /\ DeleteInv

CapacityInv == /\ QuietInv /\ BirthInv /\ EventInv /\ TaskInv
               /\ PendingInv /\ ReleasedInv /\ LoadInv
=============================================================================
