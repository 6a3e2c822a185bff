SPECIFICATION Spec
CONSTANTS
    s1 = s1
    s2 = s2
    w1 = w1
    w2 = w2
    p1 = p1
    p2 = p2
    Subs = {s1, s2}
    Workers = {w1, w2}
    Partitions = {p1, p2}
    PartitionOf <- OwnPartition
    ContestSubs = {s1}
    MaxFetch = 2
    FaultKinds = {"abort", "crash", "stop"}
    MaxFaults = 2
SYMMETRY WorkerSymmetry
INVARIANT ExclusiveExecution
INVARIANT CompletedIsScored
INVARIANT ResultsInOrder
INVARIANT FleetNeedsPreflight
PROPERTY TerminalIsFinal
CHECK_DEADLOCK FALSE
