SPECIFICATION Spec
CONSTANTS
    s1 = s1
    s2 = s2
    w1 = w1
    w2 = w2
    p1 = p1
    p2 = p2
    Subs = {s1}
    Workers = {w1, w2}
    Partitions = {p1}
    PartitionOf <- OnlyPartition
    ContestSubs = {s1}
    MaxFetch = 2
    FaultKinds = {"get", "update", "enqueue", "stop", "abort", "crash", "rebalance"}
    MaxFaults = 1
SYMMETRY WorkerSymmetry
INVARIANT TypeOK
INVARIANT ChainOrdered
CHECK_DEADLOCK FALSE
