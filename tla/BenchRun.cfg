\* The gate with a concurrent manual probe before a one-bot run, and a
\* two-bot run without a gate; both protocols, one lost send.
CONSTANTS
    b1 = b1
    b2 = b2
    BotsOf <- MCBotsOf
    OrdersOf <- MCOrdersOf
    Menu <- MCMenu
    Probed = {"low"}
    Protocols = {"rest", "websocket"}
    PendingCap = 1
    BurstSize = 2
    ProbeSteps = 3
    MaxFaults = 1
SPECIFICATION Spec
INVARIANTS
    HonestPassesGate
    ResultsComplete
    RestFillIsOwn
    ReplayOfHistoryIsExact
PROPERTIES
    BenchmarkEnds
