SPECIFICATION Spec
CONSTANTS
    Readouts <- MCReadouts
CHECK_DEADLOCK FALSE
INVARIANTS
    MeasurementsAreNumbered
