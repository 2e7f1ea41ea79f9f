SPECIFICATION FairSpec
CONSTANTS
    Goroutines = {g1, g2}
    Keys = {k1, k2}
    Traffic <- MCTraffic
    Window = 2
    MaxTime = 3
    MaxDatagrams = 3
INVARIANTS TypeOK NothingUncounted
PROPERTY Delivers
CHECK_DEADLOCK FALSE
