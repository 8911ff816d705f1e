SPECIFICATION FairSpec
CONSTANTS
    q0 = q0
    q1 = q1
    c1 = c1
    c2 = c2
    m1 = m1
    b1 = b1
    NoObject = NoObject
    Absent = Absent
    Unnamed = Unnamed
    NoClass = NoClass
    NoSummary = NoSummary
    Queues = {q0, q1}
    Classes = {c1, c2}
    Clusters = {m1}
    Bindings = {b1}
    DefaultQueue = q0
    Specs <- MCSpecs
    Workloads <- MCWorkloads
    Attempts = 2
    Scenarios <- MCScenarios
INVARIANTS
    TypeOK
    Mirrors
    NoStaleDefault
    DefaultFollows
    ClustersFollow
    InfoFollowsWorkload
    StatusFollowsBinding
    SuspendedIsKnown
    RankedByItsClass
PROPERTIES
    EventuallySeen
