\* Three jobs of two submissions on two ports, two faults of any kind,
\* one container of another worker.
CONSTANTS
    s1 = s1
    s2 = s2
    Jobs <- MCJobs
    NoJob = NoJob
    PortMin = 1
    PortMax = 2
    MaxPeers = 1
    TTL = 3
    MaxFaults = 2
SPECIFICATION Spec
INVARIANTS
    TypeOK
    OneMissTolerated
    IdleHasNoJob
    StraysPerFault
PROPERTIES
    DeployFailsForCause
    RegistryConverges
