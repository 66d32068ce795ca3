SPECIFICATION Spec
CONSTANTS
    a = a  b = b  c = c  None = None
    Ids         <- TopicIds
    Kind        <- TopicKind
    Topic       <- OneTopic
    Claim       <- TopicClaim
    Time        <- TopicTime
    Accepted    <- TopicIds
    Unsupported <- Nothing
    PageSize = 4
    MaxRetries = 2
    KeepSummaries = 1
    Budgets     <- OneFault
PROPERTY
    LaterRecaptureKept
