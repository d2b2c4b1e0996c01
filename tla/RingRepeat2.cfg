SPECIFICATION Spec
CONSTANTS
    kRanks = 2
    kChannels = 1
    channel = 0
    kVectorElems = 1
    grain_elems = 1
    step_elems = 2
    fifo_slots = 4
    early_elems = 0
    Plans <- RepeatedLaunches
INVARIANTS ResultCorrect WatermarksAligned
CHECK_DEADLOCK FALSE
