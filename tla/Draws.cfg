SPECIFICATION Spec
CONSTANTS
    ash = ash
    irn = irn
    sol = sol
    stranger = stranger
    Players <- MCPlayers
    Strangers <- MCStrangers
    Rules = {"UNANIMOUS", "MAJORITY"}
    None = None
    LastTurn = 2
    MaxCrashes = 1
INVARIANTS
    TypeOK
    ConsentOnRecord
    NoDrawLeftStanding
