--------------------------- MODULE MCDispatchRound --------------------------
EXTENDS DispatchRound

CONSTANTS b1, b2, b3, b4, q1, q2, q3, cpu, gpu

MCQueues == {q1, q2}
MCDims == {cpu, gpu}
MCTotal == [d \in MCDims |-> 3]

\* q1 leaves cpu unlimited and has no gpu; q2 sets no gpu capability.
MCCapability ==
    [q \in MCQueues |->
        IF q = q1 THEN [d \in MCDims |-> 0]
        ELSE [d \in MCDims |-> IF d = cpu THEN 2 ELSE Unset]]

MCQueueInfo ==
    [q \in MCQueues |-> [priority |-> 1, created |-> IF q = q1 THEN 2 ELSE 1,
                         uid |-> IF q = q1 THEN 1 ELSE 2]]

Ask(c, g) == [d \in MCDims |-> IF d = cpu THEN c ELSE g]

Binding(s, q, r, p, u) ==
    [status |-> s, queue |-> q, request |-> r, priority |-> p, created |-> 1, uid |-> u]

Snapshot(w, x, y, z) ==
    [b \in {b1, b2, b3, b4} |->
        CASE b = b1 -> w [] b = b2 -> x [] b = b3 -> y [] b = b4 -> z]

\* b1 may be charged before the round begins, b2 competes with it, b3 and b4
\* come from either queue; q3 is a name no queue has.
Competing ==
    {Snapshot(w, x, y, z) :
        w \in {Binding(s, q1, r, 0, 1) : s \in Statuses, r \in {Ask(2, 1), Ask(1, 0)}},
        x \in {Binding("Suspended", q, r, 1, 2) :
                  q \in MCQueues, r \in {Ask(1, 0), Ask(2, 0), Ask(0, 1)}},
        y \in {Binding(s, q, Ask(1, 0), p, 3) :
                  s \in {"Suspended", "UnSuspended"}, q \in {q2, Unnamed}, p \in {0, 2}},
        z \in {Binding("Suspended", q, r, 0, 4) :
                  q \in {q1, q2, q3}, r \in {Ask(1, 1), Ask(0, 0), Ask(3, 0)}}}

\* A binding without ReplicaRequirements among the others.
Unspecified ==
    {Snapshot(Binding(s, q1, NoRequest, 0, 1), Binding("Suspended", q1, Ask(1, 0), 1, 2),
              Binding("UnSuspended", q2, Ask(1, 0), 0, 3),
              Binding("Suspended", q2, Ask(1, 0), 0, 4)) :
        s \in {"Suspended", "UnSuspended"}}

AllSnapshots == Competing \cup Unspecified
=============================================================================
