SPECIFICATION Spec
CONSTANTS
    ash = ash
    Players <- MCPlayers
    Revisions = {1, 2, 3}
    None = None
    MaxMessages = 3
    LastTurn = 2
    MaxCrashes = 1
INVARIANTS
    TypeOK
    FrozenAfterClose
    NewestWins
    AcceptedStands
PROPERTIES
    ImplementsBallot
