SPECIFICATION LiveSpec
CONSTANTS
    A = A
    B = B
    NoSession = NoSession
    Session <- OneSession
    Location = {1}
    Goal = 0
    Winnable <- OneSession
    QuickRejoin = FALSE
    Keeps = {TRUE, FALSE}
    EarlyQuit = FALSE
    BadSlotData = FALSE
    MaxEvents = 2
    MaxCommands = 1
INVARIANTS
    TypeOK
    AttemptHasDeadline
PROPERTIES
    EventuallyReported
    ServerChecksLearned
