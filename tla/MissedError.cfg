SPECIFICATION FairSpec
CONSTANTS
    Streams = {s1, s2}
    DTypes = {f32, f16}
    Program <- RingSlices
    MaxCalls = 2
    MaxFaults = 1
PROPERTIES CheckedMeansDone
CHECK_DEADLOCK FALSE
