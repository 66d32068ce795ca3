SPECIFICATION FairSpec
CONSTANTS
    a = a  b = b  personal = personal  worksafe = worksafe
    o = o  q = q  keyA = keyA  sourceS = sourceS
    Records      <- TwoRecords
    Profiles     <- TwoProfiles
    Observations <- OneObs
    Resolvers    <- OneResolver
    Keys         <- TwoKeys
    SourceKeys   <- OneSource
    Covers       <- KeyCovers
    Eligible     <- PersonalOnly
    Restates     <- ObsRestates
    Shared       <- SharedB
    MaxRequests = 2
    MaxFailures = 1
    MaxBuilds = 1
    MaxRestores = 1
INVARIANTS
    ErasedWhenDone
    PackIsFresh
PROPERTIES
    NeverReingested
    PendingPurgesEnd
CHECK_DEADLOCK FALSE
