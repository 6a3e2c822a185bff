SPECIFICATION Spec
CONSTANTS
    c1 = c1
    c2 = c2
    a1 = a1
    a2 = a2
    red = red
    Contests = {c1, c2}
    Admins = {a1, a2}
    Subs = {1}
    TeamOf <- OneTeam
    Grades <- OneGrade
    FaultKinds = {"get", "update", "snapshot", "list", "crash"}
    MaxFaults = 1
SYMMETRY Symmetry
INVARIANT ActiveBounded
INVARIANT SnapshotSound
PROPERTY SettledForGood
CHECK_DEADLOCK FALSE
