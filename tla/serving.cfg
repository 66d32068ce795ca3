SPECIFICATION Spec
CONSTANTS
    Star = "*"
    Deep = "**"
    HardExcludes <- MCHard
    Trees <- MCTrees
    Shuts <- MCShuts
    Includes <- MCInclude
    Excludes <- MCExclude
    MaxVisited = 4
    MaxFiles = 3
    MaxDepth = 2
    MaxFileBytes = 3
    MaxTotalBytes = 4
    RecordId <- MCRecordId
    NoKey = "none"
    Leading <- MCLeading
    Inside <- MCInside
    Trailing <- MCTrailing
    Regions <- MCRegions
    Sources <- MCSources
    DocumentSets <- MCDocs
    Requests <- MCRequests
    Capabilities <- MCCapabilities
    Revocations <- MCRevocations
    Workspaces <- MCWorkspaces
    NoWorkspace = "none"
    Topics <- MCTopics
    NoEvidence = "evidence"
    DefaultBudget = 14
    Envelope = 2
    UnknownCost = 1
    ConflictCost = 1
    NoticeCost = 1
    a = a  b = b  c1 = c1
    NoReport = NoReport  Nothing = Nothing
    SourceOrder <- TwoSources
    Scoped      <- OnlyA
    Editable    <- OnlyB
    Synthetic   <- BothSources
    Calls       <- OneCall
    Operations  <- AllCalls
    MaxVersion = 2
    MaxIssued = 1
    MaxTraces = 1
    MaxPacks = 2
    MaxBuilds = 1
    MaxEdits = 1
    MaxFaults = 1
    MaxRemovals = 1
INVARIANTS
    WalkIsDeclared
    ExamplesChangeNothing
    WithinRegistration
    PolicyDecides
    NothingSilent
    BudgetHonest
    UnknownsHonest
    NothingGoneIsShown
    CompleteIsWhole
    ExpansionIsOfThePack
CHECK_DEADLOCK FALSE
