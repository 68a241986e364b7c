SPECIFICATION LiveSpec
CONSTANTS
    A = A
    B = B
    NoSession = NoSession
    Session <- TwoSessions
    Stream <- CleanStream
    MaxTier = 2
    QuitUnsaved = FALSE
    SwitchMidRun = FALSE
INVARIANTS
    TypeOK
    InFlightIsQueued
    DiskPairAgrees
    NeverAppliedTwice
    TiersInOrder
PROPERTIES
    DurableGrows
    EventuallyDelivered
