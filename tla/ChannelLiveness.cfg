SPECIFICATION FairSpec
CONSTANTS
    QueueMax = 4
    RetryMax = 4
    CacheSize = 1
    MaxSkew = 3
    CountersPerTick = 2
    MaxProduced = 4
    MaxFaults = 3
    MaxClock = 3
    Faults = {"send_fails"}
CHECK_DEADLOCK FALSE
PROPERTIES
    EventuallyDelivered
