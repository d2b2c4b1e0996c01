SPECIFICATION FairSpec
CONSTANTS
    Streams = {s1, s2}
    DTypes = {f32, f16}
    Program <- RingSlices
    MaxCalls = 2
    MaxFaults = 1
INVARIANTS NothingInFlightWhenFreed InCallOrder OneUnwarrantedSlice GarbageStaysHome
 
PROPERTIES ReplacedOnlyWhenIdle DestroyReturns
CHECK_DEADLOCK FALSE
