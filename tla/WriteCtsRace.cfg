SPECIFICATION Spec
CONSTANTS
    max_inflight = 2
    kSignalEvery = 4
    TotalSlices = 3
INVARIANTS CtsKept
CHECK_DEADLOCK FALSE
