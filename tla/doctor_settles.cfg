SPECIFICATION FairSpec
CONSTANTS
    a = a  b = b  c = c  None = None
    Ids         <- MixedIds
    Kind        <- MixedKind
    Topic       <- MixedTopic
    Claim       <- MixedClaim
    Time        <- MixedTime
    Accepted    <- MixedIds
    Unsupported <- GlobalFirst
    PageSize = 3
    MaxRetries = 1
    KeepSummaries = 1
    Budgets     <- OneEach
PROPERTIES
    ProposalsSettle
    NewestSummariesStay
