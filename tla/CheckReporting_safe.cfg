SPECIFICATION Spec
CONSTANTS
    A = A
    B = B
    NoSession = NoSession
    Session <- TwoSessions
    Location = {1}
    Goal = 0
    Winnable = {}
    QuickRejoin = TRUE
    Keeps = {TRUE, FALSE}
    EarlyQuit = TRUE
    BadSlotData = TRUE
    MaxEvents = 1
    MaxCommands = 2
INVARIANTS
    RecordIsOwn
    GameAgreesWithLink
SYMMETRY EitherSession
