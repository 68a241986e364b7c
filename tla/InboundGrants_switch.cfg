SPECIFICATION Spec
CONSTANTS
    A = A
    B = B
    NoSession = NoSession
    Session <- TwoSessions
    Stream <- PlainStream
    MaxTier = 1
    QuitUnsaved = FALSE
    SwitchMidRun = TRUE
INVARIANT OnlyOwnReceipts
