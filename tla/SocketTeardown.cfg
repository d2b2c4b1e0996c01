SPECIFICATION Spec
CONSTANTS
    slot_count = 2
    slot_bytes = 2
    TotalSlices = 3
    WireCap = 2
    MaxFaults = 0
    SliceBytes <- MixedSizes
INVARIANTS ExampleSucceeds
CHECK_DEADLOCK FALSE
