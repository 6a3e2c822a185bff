SPECIFICATION FairSpec
CONSTANTS
    c1 = c1
    c2 = c2
    a1 = a1
    a2 = a2
    red = red
    Contests = {c1}
    Admins = {a1}
    Subs = {1, 2}
    TeamOf <- OneTeam
    Grades <- ThreeGrades
    FaultKinds = {"update"}
    MaxFaults = 1
INVARIANT SnapshotSound
PROPERTY ClosedIsArchived
PROPERTY DueContestCloses
PROPERTY WatcherCatchesUp
CHECK_DEADLOCK FALSE
