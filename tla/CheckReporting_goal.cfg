SPECIFICATION LiveSpec
CONSTANTS
    A = A
    B = B
    NoSession = NoSession
    Session <- OneSession
    Location = {1}
    Goal = 0
    Winnable <- OneSession
    QuickRejoin = FALSE
    Keeps = {TRUE}
    EarlyQuit = TRUE
    BadSlotData = FALSE
    MaxEvents = 1
    MaxCommands = 1
PROPERTY GoalReported
