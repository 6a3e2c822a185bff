\* Two contests, two score changes in the first, two clients, channels of one.
CONSTANTS
    k1 = k1
    k2 = k2
    Contests = {1, 2}
    Clients = {k1, k2}
    ChanSize = 1
    MaxScore <- MCMaxScore
    MaxFaults = 1
SPECIFICATION Spec
CHECK_DEADLOCK FALSE
INVARIANTS
    NothingAfterFrozen
    BusTracksHandlers
PROPERTIES
    ClientCatchesUp
