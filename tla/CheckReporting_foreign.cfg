SPECIFICATION Spec
CONSTANTS
    A = A
    B = B
    NoSession = NoSession
    Session <- TwoSessions
    Location = {1}
    Goal = 0
    Winnable = {}
    QuickRejoin = FALSE
    Keeps = {FALSE}
    EarlyQuit = TRUE
    BadSlotData = FALSE
    MaxEvents = 1
    MaxCommands = 2
INVARIANT NoForeignChecks
