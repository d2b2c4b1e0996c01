SPECIFICATION Spec
CONSTANTS
    kRanks = 3
    kChannels = 2
    kVectorElems = 2
    grain_elems = 4
    step_elems = 64
    MaxCount = 400
INVARIANTS PeersAgree SliceFitsSlot OutputCoveredOnce
CHECK_DEADLOCK FALSE
