SPECIFICATION FairSpec
CONSTANTS
    max_inflight = 2
    kSignalEvery = 4
    TotalSlices = 3
INVARIANTS TypeOK GrantedSlotsStable NoSpuriousFailure
PROPERTIES EdgeIsFifo DrainUnlessLost
CHECK_DEADLOCK FALSE
