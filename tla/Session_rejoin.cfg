SPECIFICATION Spec
CONSTANTS
    Players = {ann, bob, cyd}
    Programs = {bob, cyd}
    Factions = {thr, dom}
    Seats = 2
    MaxAttempts = 1
    Commands = {"status", "order", "verify", "history"}
    Calls = {"join"}
    None = None
    MaxNumber = 3
    MaxCalls = 2
    MaxResults = 3
PROPERTIES
    RejoinAnswered
