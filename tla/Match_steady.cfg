SPECIFICATION FairSpec
CONSTANTS
    hold = hold
    attack = attack
    None = None
    OrderSets <- MCOrderSets
    NoOrders = hold
    Duration <- MCDuration
    WarningLead = 1
    Commands = {"start", "advance", "pause", "resume", "end"}
    MaxCommands = 4
    MaxCrashes = 0
    LastTimedTurn = 1
INVARIANTS
    AlwaysResolvable
    NoMovementLost
PROPERTIES
    ImplementsGame
    PhaseResolved
    CommandsProcessed
