SPECIFICATION LiveSpec
CONSTANTS
    A = A
    B = B
    None = None
    Junk = Junk
    Session <- TwoSessions
    Name <- TheirNames
    NameOf <- OwnNames
    Inherited <- StateOfA
    Found <- CopiedOver
    MaxMarks = 1
INVARIANTS
    TypeOK
    PairMatches
PROPERTIES
    FilesKept
    KeepsPromise
    StoreAnswers
