SPECIFICATION Spec
CONSTANTS
    s1 = s1
    s2 = s2
    w1 = w1
    w2 = w2
    p1 = p1
    p2 = p2
    Subs = {s1, s2}
    Workers = {w1, w2}
    Partitions = {p1}
    PartitionOf <- SamePartition
    ContestSubs = {s1, s2}
    MaxFetch = 2
    FaultKinds = {}
    MaxFaults = 0
SYMMETRY WorkerSymmetry
INVARIANT NoJobLost
CHECK_DEADLOCK FALSE
