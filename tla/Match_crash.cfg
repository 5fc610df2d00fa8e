SPECIFICATION Spec
CONSTANTS
    hold = hold
    attack = attack
    None = None
    OrderSets <- MCOrderSets
    NoOrders = hold
    Duration <- MCDuration
    WarningLead = 1
    Commands = {"start", "advance", "pause", "resume", "end"}
    MaxCommands = 3
    MaxCrashes = 1
    LastTimedTurn = 1
INVARIANTS
    TypeOK
    ResultsOrdered
    AnnouncedInv
    PublishedPersisted
    FinalStateAnnounced
    HistoryExtends
    ClockKept
PROPERTIES
    EndIsFinal
