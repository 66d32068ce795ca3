SPECIFICATION Spec
CONSTANTS
    a = a  b = b  c = c  None = None
    Ids         <- TopicIds5
    Kind        <- TopicKind5
    Topic       <- OneTopic5
    Claim       <- TopicClaim5
    Time        <- TopicTime5
    Accepted    <- TopicIds
    Unsupported <- Nothing
    PageSize = 2
    MaxRetries = 1
    KeepSummaries = 1
    Budgets     <- Disturbed
INVARIANTS
    NothingDestroyed
    CountedOnce
PROPERTIES
    SupersededByLater
    NeverResurrected
    ValidatedDecisionsStay
