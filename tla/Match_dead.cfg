SPECIFICATION FairSpec
CONSTANTS
    hold = hold
    attack = attack
    None = None
    OrderSets <- MCOrderSets
    NoOrders = hold
    Duration <- MCDuration
    WarningLead = 1
    Commands = {"start", "end"}
    MaxCommands = 2
    MaxCrashes = 1
    LastTimedTurn = 1
PROPERTIES
    CommandsProcessedInPlay
