SPECIFICATION Spec
CONSTANTS
    x = x  y = y  k1 = k1  k2 = k2  r = r
    Absent = Absent  Corrupt = Corrupt  NoKid = NoKid  NoItem = NoItem
    Items       <- TwoItems
    Kids        <- TwoKids
    Readers     <- OneReader
    Deployments <- Operated
    MaxGen = 2
    n = n  p = p  c = c
    Notes    <- AllNotes
    Captures <- OneCapture
    Archive = 1
    Inbox = 2
    Projects = 3
    Live <- Vault
    Old  <- Earlier
    Keep = 2
    MaxRestores = 1
    MaxBackups = 1
    MaxWork = 1
    MaxFaults = 2
INVARIANTS
    ReaderIsCurrent
    LoadsWhole
    InstalledIsSnapshot
    RolledBackIsWhole
    LockedSnapshotIsComplete
PROPERTY
    OnlyRetentionForgets
CHECK_DEADLOCK FALSE
