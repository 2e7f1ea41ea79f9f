SPECIFICATION Spec
CONSTANTS
    Sources <- MCSources
    Starts <- MCStarts
INVARIANT UniqueNamesStart
CHECK_DEADLOCK FALSE
