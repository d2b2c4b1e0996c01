SPECIFICATION FairSpec
CONSTANTS
    max_inflight = 3
    kSignalEvery = 4
    TotalSlices = 5
    SliceBytes <- MixedSizes
    elide_zero_payload = TRUE
INVARIANTS TypeOK SendSlotsStable RecvSlotsStable NoSpuriousFailure
PROPERTIES EdgeIsFifo DrainTerminates SliceArrives
CHECK_DEADLOCK FALSE
