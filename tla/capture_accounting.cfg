SPECIFICATION ApartSpec
CONSTANTS
    a = a  b = b  s = s  r = r  i1 = i1  i2 = i2
    NoProc = NoProc  NoId = NoId  Free = Free
    Capturers <- TwoCapturers
    Recorders <- OneRecorder
    Readers   <- OneReader
    Inodes    <- TwoInodes
    Crashers  <- OneCapturer
    NSlots = 2
    MaxAttempts = 2
    MaxEpoch = 2
    RemoveFails = TRUE
SYMMETRY InodeSymmetry
INVARIANTS
    NoLostUpdate
PROPERTIES
    KeepsPromise
    ResetKeepsNewerEvents
CHECK_DEADLOCK FALSE
