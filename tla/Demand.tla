------------------------------- MODULE Demand -------------------------------
(***************************************************************************)
(* What bindings ask of a queue, in one resource dimension.                *)
(*                                                                         *)
(* Every ResourceBinding k requests Req[k] units (ReplicaRequirements      *)
(* times Replicas).  The sum of the requests of a set of bindings is the   *)
(* number of its units: counting units instead of adding numbers gives     *)
(* the same value and lets the library's facts about cardinalities apply.  *)
(***************************************************************************)
EXTENDS Integers, FiniteSets

CONSTANTS
    Keys,     \* the namespace/name keys of the workload ResourceBindings
    Queues,   \* the Volcano queues
    QueueOf,  \* QueueOf[k]: the queue annotation of k's workload
    Req,      \* Req[k]: what k requests
    Cap       \* Cap[q]: realCapability of q

ASSUME DemandAssumption ==
    /\ IsFiniteSet(Keys)
    /\ QueueOf \in [Keys -> Queues]
    /\ Req \in [Keys -> Nat]
    /\ Cap \in [Queues -> Nat]

Units(S) == UNION { {k} \X (1..Req[k]) : k \in S }

\* The sum of the requests of the bindings in S.
Load(S) == Cardinality(Units(S))

\* capacityPlugin.allocatableFunc: a dimension that is not requested is not compared.
Fits(used, k) == Req[k] = 0 \/ used + Req[k] <= Cap[QueueOf[k]]
=============================================================================
