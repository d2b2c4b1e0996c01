SPECIFICATION FairSpec
CONSTANTS
    kRanks = 3
    kChannels = 1
    channel = 0
    kVectorElems = 1
    grain_elems = 1
    step_elems = 2
    fifo_slots = 4
    early_elems = 1
    Plans <- OneLaunch
INVARIANTS TypeOK NoSlotOverwritten ResultCorrect WatermarksAligned
PROPERTIES Termination
CHECK_DEADLOCK FALSE
