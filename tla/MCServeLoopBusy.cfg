SPECIFICATION Spec
CONSTANTS
    Deadline = 2
    Capacity = 2

PROPERTY ServesUntilCancelled
