SPECIFICATION FairSpec
CONSTANTS
    k1 = k1
    k2 = k2
    k3 = k3
    q1 = q1
    Keys = {k1, k2}
    Queues = {q1}
    QueueOf <- MCQueueOf
    Req <- MCReq
    Cap <- MCCap
    Workers = {w1}
    NoKey = NoKey
    Budget <- RecreateBudget
PROPERTIES
    DispatchedIsReleased
