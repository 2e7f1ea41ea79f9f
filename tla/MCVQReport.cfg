SPECIFICATION Spec
CONSTANT Bodies <- MCBodies
INVARIANTS TypeOK LastObservationWins AddressOfOneLine PartiesAndDialect UnrecognisedRemains
CHECK_DEADLOCK FALSE
