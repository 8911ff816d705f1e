---------------------------- MODULE MCDispatcher ----------------------------
EXTENDS Dispatcher

CONSTANTS k1, k2, k3, q1

MCQueueOf == [k \in Keys |-> q1]
MCReq == [k \in Keys |-> IF k = k1 THEN 2 ELSE 1]
MCCap == [q \in Queues |-> 2]

Faults(n) == [f \in FaultKinds |-> IF f \in DOMAIN n THEN n[f] ELSE 0]

CleanBudget == Faults([reject |-> 1, drop |-> 1])
FaultBudget == Faults([touch |-> 1, reject |-> 1, recreate |-> 1, restart |-> 1])
LiveBudget == Faults([reject |-> 1, lose |-> 1, restart |-> 1])
TouchBudget == Faults([touch |-> 1])
DropBudget == Faults([drop |-> 1])
RecreateBudget == Faults([recreate |-> 1])
RestartBudget == Faults([restart |-> 1])
=============================================================================
