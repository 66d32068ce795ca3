SPECIFICATION FairSpec
CONSTANTS
    a = a  b = b  s = s  r = r  i1 = i1  i2 = i2
    NoProc = NoProc  NoId = NoId  Free = Free
    Capturers <- TwoCapturers
    Recorders <- OneRecorder
    Readers   <- Nobody
    Inodes    <- TwoInodes
    Crashers  <- BothKinds
    NSlots = 2
    MaxAttempts = 2
    MaxEpoch = 2
    RemoveFails = TRUE
PROPERTIES
    CaptureReturns
CHECK_DEADLOCK FALSE
