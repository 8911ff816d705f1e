SPECIFICATION Spec
CONSTANTS
    k1 = k1
    k2 = k2
    k3 = k3
    q1 = q1
    Keys = {k1, k2, k3}
    Queues = {q1}
    QueueOf <- MCQueueOf
    Req <- MCReq
    Cap <- MCCap
    Workers = {w1}
    NoKey = NoKey
    Budget <- CleanBudget
INVARIANTS
    TypeOK
    NeverOvercommitted
    ReleasedIsCharged
PROPERTIES
    ImplementsLedger
