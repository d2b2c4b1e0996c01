SPECIFICATION FairSpec
CONSTANTS
    slot_count = 2
    slot_bytes = 2
    TotalSlices = 3
    WireCap = 2
    MaxFaults = 1
    SliceBytes <- MixedSizes
INVARIANTS SlotsStable SuccessMeansDone FailureHasCause
PROPERTIES EdgeIsFifo EveryoneReturns
CHECK_DEADLOCK FALSE
