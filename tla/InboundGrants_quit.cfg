SPECIFICATION Spec
CONSTANTS
    A = A
    B = B
    NoSession = NoSession
    Session <- OneSession
    Stream <- CleanStream
    MaxTier = 2
    QuitUnsaved = TRUE
    SwitchMidRun = FALSE
INVARIANT DiskPairAgrees
