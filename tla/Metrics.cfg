\* Two submissions, windows of three time units, batches of two, one fault.
CONSTANTS
    s1 = s1
    s2 = s2
    Subs = {s1, s2}
    RunResults <- MixedRuns
    TpsWindow = 2
    WindowDuration = 3
    BatchSize = 2
    MaxFaults = 1
SPECIFICATION Spec
CHECK_DEADLOCK FALSE
INVARIANTS
    StatsMatchReference
    RowsSound
    DamagePerFault
PROPERTIES
    TelemetryDrains
