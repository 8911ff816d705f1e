SPECIFICATION FairSpec
CONSTANTS
    b1 = b1
    b2 = b2
    b3 = b3
    b4 = b4
    q1 = q1
    q2 = q2
    q3 = q3
    cpu = cpu
    gpu = gpu
    Unset = Unset
    Unnamed = Unnamed
    NoRequest = NoRequest
    Bindings = {b1, b2, b3, b4}
    Queues = {q1, q2}
    Names = {q1, q2, q3, Unnamed}
    Dims = {cpu, gpu}
    CoreDims = {cpu}
    Total <- MCTotal
    Capability <- MCCapability
    DefaultQueue = q2
    QueueInfo <- MCQueueInfo
    Snapshots <- AllSnapshots
CHECK_DEADLOCK FALSE
INVARIANTS
    TypeOK
    HeapsMatch
    EachServedOnce
    RoundRobin
    WithinLimit
    WorkConserving
PROPERTIES
    RoundEnds
