SPECIFICATION FairSpec
CONSTANTS
    VM = {1, 2}
    NoVM = 0
    EventTypes = {"crypto_spike"}
    MaxEvents = 2
    BatchBound = 1
    QueueBound = 1
    ApiThread = {a1}
    IsolateOutcomes = {TRUE, FALSE}
    BlockOutcomes = {TRUE}
    HostContainment = "dry_run"
    OperatorAborts = FALSE
    AgentsGoSilent = FALSE
    CureThread = {t1, t2}
    PromoteOutcomes = {TRUE}
    RedirectOutcomes = {TRUE}
    HealthOutcomes = {TRUE, FALSE}
INVARIANTS
    QuarantinedIsIsolated
    OneCurePerNode
    OutageOnlyIfAllIsolated
    UpMeansServing
PROPERTIES
    ContinuityFollowsIsolation
