SPECIFICATION Spec
CONSTANTS
    Readouts <- MCReadouts
CHECK_DEADLOCK FALSE
INVARIANTS
    TypeOK
    RowsAreOfOneEvent
    PulsesAreAccountedFor
    TextListsWhatTreesHold
    MeasurementsReachOneRow
    CAENHitsKnowTheirChip
