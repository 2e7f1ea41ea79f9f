SPECIFICATION Spec
CONSTANTS
    Words <- MCWords
    Normal <- MCNormal
    Plain = {"x_vendor", "x_vendor_x"}
    Secret = {"Password"}
    Xs <- MCXs
    Reports <- MCReports
INVARIANTS TypeOK RepeatedFieldsKept MeasurementsObserved NamesUnique FieldsRecoverable
CHECK_DEADLOCK FALSE
