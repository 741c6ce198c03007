SPECIFICATION SessionSpec
CONSTANTS
    MaxChunks = 4
    Capacity = 4
    CaptureLimit = 3
INVARIANTS
    NoGap
    FailuresReal
PROPERTIES
    CollectorReturns
CHECK_DEADLOCK FALSE
