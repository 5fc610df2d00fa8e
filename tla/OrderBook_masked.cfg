SPECIFICATION Spec
CONSTANTS
    ash = ash
    Players <- MCPlayers
    Revisions = {1, 2}
    None = None
    MaxMessages = 2
    LastTurn = 2
    MaxCrashes = 0
PROPERTIES
    RejectionKeepsAccepted
