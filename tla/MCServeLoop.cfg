SPECIFICATION Spec
CONSTANTS
    Deadline = 2
    Capacity = 2
INVARIANTS TypeOK ReturnsForCause
PROPERTIES StopsWhenQuiet StopsWhenSocketFails
