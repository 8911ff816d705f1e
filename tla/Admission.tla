----------------------------- MODULE Admission ------------------------------
(***************************************************************************)
(* Which bindings are those of workloads, what the mutating webhook makes  *)
(* of their creation, and the queue and PriorityClass a workload names.    *)
(***************************************************************************)
CONSTANTS
    Absent,   \* a label, an annotation or a field that is not set
    Unnamed,  \* the empty queue name
    NoClass   \* the empty PriorityClass name

\* Malformed stands for a reference whose APIVersion does not parse.
Kinds == {"Deployment", "Job", "ConfigMap", "Malformed"}
Registered == {"Deployment", "Job"}

\* Spec.Template of a Deployment and Spec of a Job: where they name a queue.
Templates(Names, Classes) ==
    [kind : Kinds, label : Names \cup {Absent, Unnamed},
     annotation : Names \cup {Absent, Unnamed}, legacy : Names \cup {Absent, Unnamed},
     field : Names \cup {Unnamed}, class : Classes \cup {NoClass}]

TryGetNewWorkloadFunc(kind) ==
    IF kind = "Malformed" THEN "error"
    ELSE IF kind \in Registered THEN "workload" ELSE "other"

\* Mutant of ResourceBindings: the kind is not looked up.
ResourceBindingsAnyKind(kind, suspended) == [allowed |-> TRUE, suspended |-> TRUE]

\* The webhook's answer to the create of a binding that may already ask to be
\* suspended.
ResourceBindings(kind, suspended) ==
    LET found == TryGetNewWorkloadFunc(kind)
    IN [allowed   |-> suspended \/ found # "error",
        suspended |-> suspended \/ found = "workload"]

\* A key that is set counts, also when its value is empty.
GetObjQueue(w) ==
    IF w.label # Absent THEN w.label
    ELSE IF w.annotation # Absent THEN w.annotation
    ELSE IF w.legacy # Absent THEN w.legacy ELSE Unnamed

\* What QueueName and PriorityClassName return for each kind of workload.
DeploymentWorkload(w) == [queue |-> GetObjQueue(w), class |-> w.class]
VolcanoJobWorkload(w) == [queue |-> w.field, class |-> w.class]

NewWorkload(w) == IF w.kind = "Deployment" THEN DeploymentWorkload(w) ELSE VolcanoJobWorkload(w)
=============================================================================
