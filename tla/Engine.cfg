SPECIFICATION EngineFairSpec
CONSTANTS
    VM = {v1}
    NoVM = NoVM
    EventTypes = {"crypto_spike"}
    MaxEvents = 3
    BatchBound = 2
    QueueBound = 2
    ApiThread = {a1, a2}
    IsolateOutcomes = {TRUE, FALSE}
    BlockOutcomes = {TRUE}
    HostContainment = "dry_run"
    OperatorAborts = TRUE
    AgentsGoSilent = TRUE
INVARIANTS
    TypeOK
    OneResponsePerDecision
    IsolatedMeansCut
    
PROPERTIES
    
    KillSwitchFires
