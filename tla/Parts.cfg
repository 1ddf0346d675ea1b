SPECIFICATION Spec
CHECK_DEADLOCK FALSE
CONSTANTS
    Vm = {"web"}
    EventType = {"crypto_spike", "network", "velocity", "heartbeat"}
    EventInput <- SampleEvents
    DedupeWindow = 1
    TriageStatus = {"CLOSED"}
    RollingWindow = 2
    MaxEventsPerVm = 3
    RecentEvents = 2
    MaxClock = 3
    BatchBound = 2
    AlertBound = 2
    File = {"a", "b"}
    VelocityWindow = 1
    BaselineWindow = 3
    SpikeWindow = 1
    SpikeMinFiles = 2
    SpikeSigma = 2
    MaxFileClock = 4
    MaxWrites = 5
    Pid = {1, 2}
    Remote = {"r"}
    MaxProcesses = 3
    MaxBeats = 1
    Caller = {1, 2}
    MaxCalls = 3
    MaxResponses = 2
    Domain = {"web"}
    LibvirtCalls = 3
INVARIANTS
    AlertsAndVerdictsAgree
    
    ContainmentIsAsTold
