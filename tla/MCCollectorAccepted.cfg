SPECIFICATION Spec
CONSTANTS
    Reports = {r1, r2}
    Unparsable = {}
    QueueSize = 2
    MaxCollections = 1
    Undisturbed = TRUE
INVARIANT EveryAcceptedReportLogged
CHECK_DEADLOCK FALSE
