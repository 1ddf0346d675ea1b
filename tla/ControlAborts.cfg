SPECIFICATION Spec
CONSTANTS
    VM = {1, 2}
    NoVM = 0
    EventTypes = {"crypto_spike"}
    MaxEvents = 2
    BatchBound = 1
    QueueBound = 1
    ApiThread = {a1}
    IsolateOutcomes = {TRUE}
    BlockOutcomes = {TRUE}
    HostContainment = "dry_run"
    OperatorAborts = TRUE
    AgentsGoSilent = FALSE
    CureThread = {t1}
    PromoteOutcomes = {TRUE}
    RedirectOutcomes = {TRUE}
    HealthOutcomes = {TRUE}
PROPERTIES
    NoUndecidedFailover
