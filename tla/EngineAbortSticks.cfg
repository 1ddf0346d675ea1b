SPECIFICATION EngineSpec
CONSTANTS
    VM = {v1}
    NoVM = NoVM
    EventTypes = {"crypto_spike"}
    MaxEvents = 2
    BatchBound = 2
    QueueBound = 2
    ApiThread = {a1}
    IsolateOutcomes = {TRUE}
    BlockOutcomes = {TRUE}
    HostContainment = "dry_run"
    OperatorAborts = TRUE
    AgentsGoSilent = FALSE
PROPERTIES
    AutoIsolationIsAlarmed
