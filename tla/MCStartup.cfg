SPECIFICATION Spec
CONSTANTS
    Sources <- MCSources
    Starts <- MCStarts
INVARIANTS TypeOK NothingLeftRunning Precedence SignalsAgree SendersStayApart ConfigurationInForce
CHECK_DEADLOCK FALSE
