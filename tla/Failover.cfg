SPECIFICATION FairSpec
CONSTANTS
    NodeCount = 3
    CureThread = {t1, t2}
    PromoteOutcomes = {TRUE, FALSE}
    RedirectOutcomes = {TRUE, FALSE}
    HealthOutcomes = {TRUE, FALSE}
    OperatorResets = TRUE
INVARIANTS
    TypeOK
    OnlyRecordedNodeIsActive
    
    RecoveryHasAThread
PROPERTIES
    NoDoublePromotion
    DegradedServiceHeals
    CuringEnds
