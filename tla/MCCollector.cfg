SPECIFICATION FairSpec
CONSTANTS
    Reports = {r1, r2, u1}
    Unparsable = {u1}
    QueueSize = 1
    MaxCollections = 1
    Undisturbed = FALSE
INVARIANTS IInv CleanExitKeepsFinished NoSilentLoss ExportedOnce
PROPERTIES Exits QueuedRecordsLeave
CHECK_DEADLOCK FALSE
