SPECIFICATION Spec
CONSTANTS
    kRanks = 3
    kChannels = 1
    channel = 0
    kVectorElems = 1
    grain_elems = 1
    step_elems = 2
    fifo_slots = 4
    early_elems = 0
    Plans <- TwoAllReduces
INVARIANTS ResultCorrect
CHECK_DEADLOCK FALSE
