SPECIFICATION LocalSpec
CONSTANTS
    Parts = {"reminder"}
    n1 = n1
    n2 = n2
    e1 = e1
    e2 = e2
    e3 = e3
    Callers <- MCCallers
    Texts = {"a", "b"}
    Families = {"x"}
    Answers = {"approve", "reject", "edit", "deferred", "merge"}
    MaxFiles = 2
    MaxCallsMade = 4
    MaxMishaps = 1
    NoText = "none"
    Values = {"v", "w"}
    Outside = "x"
    Depth = 2
    MaxInodes = 3
    MaxOperations = 3
    MaxFailures = 1
    MaxLosses = 1
    Writers = {1, 2}
    SlugOrder <- MCSlugs
    Roots <- MCRoots
    Places <- MCPlaces
    Markers <- MCMarkers
    MaxAdds = 3
    MaxChanges = 1
    MaxAges = 1
    Sessions = {1, 2, 3}
    nudgeMutations = 3
    nudgeWindow = 2
    MaxToolUses = 6
    MaxTroubles = 1
    NoteOf <- MCNotes
    Slugless = "none"
    Matches = {"p", "none"}
    Modes = {"manual", "normal", "economy"}
    limitsFor <- MCLimits
    Reports <- MCReports
    Cards = {"filled", "withheld"}
    LineBytes = 4
    Alike <- MCAlike
    MaxOverlaps = 1
    WarningLines = 4
    MaxActive = 4
    MaxMeddling = 1
    CaseOrder <- MCCases
    Repeats <- MCRepeats
    FamilyOf <- MCFamilyOf
    HighRisk = {"c1"}
    Runs <- MCRuns
    Judgements <- MCJudgements
    Evaluators <- MCEvaluators
    MaxDocuments = 3
    MaxDamage = 1
SYMMETRY Symmetry
INVARIANT
    CommitsAreReminded
CHECK_DEADLOCK FALSE
