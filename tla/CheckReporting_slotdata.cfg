SPECIFICATION Spec
CONSTANTS
    A = A
    B = B
    NoSession = NoSession
    Session <- OneSession
    Location = {1}
    Goal = 0
    Winnable = {}
    QuickRejoin = FALSE
    Keeps = {TRUE}
    EarlyQuit = FALSE
    BadSlotData = TRUE
    MaxEvents = 1
    MaxCommands = 1
INVARIANT AttemptHasDeadline
