SPECIFICATION FairSpec
CONSTANTS
    kRanks = 3
    kChannels = 1
    Settings <- SomeSettings
    MaxFaults = 2
INVARIANTS CollectivesMatch FailureHasCause RegionOutlivesMapping ReceiversFirst
PROPERTIES CreationEnds
CHECK_DEADLOCK FALSE
