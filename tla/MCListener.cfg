SPECIFICATION Spec
CONSTANTS
    Goroutines = {g1, g2, g3}
    Keys = {k1, k2}
    Traffic <- MCAccepted
    Window = 2
    MaxTime = 4
    MaxDatagrams = 4
SYMMETRY MCSymmetry
INVARIANTS OncePerWindow CacheIsHistory AnswersMatch UsageSettles IInv
PROPERTY LiveEntriesStay
CHECK_DEADLOCK FALSE
