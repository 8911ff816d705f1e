----------------------------- MODULE MCCacheView ----------------------------
EXTENDS CacheView, TLC

CONSTANTS q0, q1, c1, c2, m1, b1

Job(queue, class) ==
    [kind |-> "Job", label |-> Absent, annotation |-> Absent, legacy |-> Absent,
     field |-> queue, class |-> class]

Deployment(label, annotation, legacy, class) ==
    [kind |-> "Deployment", label |-> label, annotation |-> annotation, legacy |-> legacy,
     field |-> Unnamed, class |-> class]

Other(kind) == [Deployment(Absent, Absent, Absent, NoClass) EXCEPT !.kind = kind]

MCWorkloads ==
    {Job(q1, c1), Job(q1, c2), Job(Unnamed, NoClass), Deployment(q1, q0, Absent, c2),
     Deployment(Unnamed, Absent, q1, NoClass), Other("ConfigMap"), Other("Malformed")}

Value(c) == IF c = c1 THEN 1 ELSE 2

\* A ready cluster reports its resources; one that joins may not have yet.
MCClusters ==
    {[ready |-> "True", allocatable |-> n] : n \in {1, 2}}
    \cup {[ready |-> "False", allocatable |-> 1]}
    \cup {[ready |-> r, allocatable |-> NoSummary] : r \in {"none", "False"}}

MCSpecs ==
    [queues |-> {0, 1},
     classes |-> [value : {1, 2}, default : BOOLEAN],
     clusters |-> MCClusters]

NoObjects == [queues |-> [q \in {q0, q1} |-> IF q = q0 THEN 0 ELSE NoObject],
              classes |-> [c \in {c1, c2} |-> NoObject],
              clusters |-> [m \in {m1} |-> NoObject],
              bindings |-> [b \in {b1} |-> NoObject]]

\* The default class is c1 or none; c2 may not exist yet.
FirstClasses ==
    {[c \in {c1, c2} |-> IF c = c2 /\ ~second THEN NoObject
                         ELSE [value |-> Value(c), default |-> c = default]] :
        default \in {c1, NoClass}, second \in BOOLEAN}

Of(w) == [b \in {b1} |-> [spec |-> w, version |-> 0]]

Scenario(api, w, bounds) ==
    [api |-> api, workloads |-> w, budget |-> bounds @@ [change \in Changes |-> 0]]

With(c) == [NoObjects EXCEPT !.classes = c]
Nobody == [b \in {b1} |-> NoObject]

\* What changes in one scenario meets all else that changes in it.
DefaultChanges ==
    {Scenario(With(c), Of(Job(Unnamed, NoClass)), "classes" :> 2 @@ "class watch" :> 1) :
        c \in {f \in FirstClasses : f[c1].default}}

ClassComesAndGoes ==
    {Scenario(With(c), Of(Job(q1, c2)), "classes" :> 2 @@ "bindings" :> 1) : c \in FirstClasses}

WorkloadsChange ==
    {Scenario(With(c), Of(w), "workload" :> 1 @@ "unread" :> 1 @@ "bindings" :> 1) :
        c \in {f \in FirstClasses : f[c2] # NoObject}, w \in MCWorkloads}

BindingsMissed ==
    {Scenario(With(CHOOSE c \in FirstClasses : c[c2] # NoObject), Of(w),
              "workload" :> 2 @@ "binding watch" :> 1) : w \in MCWorkloads}

ClustersChange ==
    {Scenario([NoObjects EXCEPT !.clusters[m1] = c], Nobody,
              "clusters" :> 2 @@ "cluster watch" :> 1) : c \in MCClusters}

QueuesChange ==
    {Scenario([NoObjects EXCEPT !.queues[q0] = q], Nobody,
              "queues" :> 1 @@ "queue watch" :> 1 @@ "error" :> 3) : q \in {0, NoObject}}

PatchesFail ==
    {Scenario(With(CHOOSE c \in FirstClasses : c[c2] # NoObject), Of(Job(q1, c2)),
              "workload" :> 1 @@ "unread" :> 1 @@ "bindings" :> 2 @@ "patch" :> 1)}

\* A cluster loses its summary, the next snapshot is a panic.
Crashes ==
    {Scenario([With(CHOOSE c \in FirstClasses : c[c2] # NoObject) EXCEPT
                  !.clusters[m1] = [ready |-> "True", allocatable |-> 1]],
              Of(Job(q1, c2)), "clusters" :> 1 @@ "bindings" :> 1 @@ "patch" :> 1)}

\* The process starts again when a binding is released already.
AfterRestart ==
    {Scenario([With(CHOOSE c \in FirstClasses : c[c2] # NoObject) EXCEPT
                  !.bindings[b1] = [kind |-> "Job", ref |-> 0, asked |-> FALSE,
                                    suspended |-> FALSE]],
              Of(Job(q1, c2)), "classes" :> 1)}

MCScenarios ==
    DefaultChanges \cup ClassComesAndGoes \cup WorkloadsChange \cup BindingsMissed
    \cup PatchesFail \cup Crashes \cup ClustersChange \cup QueuesChange \cup AfterRestart
=============================================================================
