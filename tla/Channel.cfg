SPECIFICATION Spec
CONSTANTS
    QueueMax = 2
    RetryMax = 2
    CacheSize = 2
    MaxSkew = 1
    CountersPerTick = 2
    MaxProduced = 4
    MaxFaults = 2
    MaxClock = 4
    Faults = {"send_fails", "send_lost", "reorder", "duplicate", "delay", "agent_restart",
              "controller_restart"}
CHECK_DEADLOCK FALSE
INVARIANTS
    TypeOK
    CounterStaysAhead
    FramesInEventOrder
    EvictionIsHarmless
PROPERTIES
    OpenedOnce
    AtMostOnceLog
