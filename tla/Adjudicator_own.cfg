SPECIFICATION Spec
CONSTANTS
    irn = irn
    thr = thr
    None = None
    Regions <- MCRegions
    Factions <- MCFactions
    Adjacent <- MCAdjacent
    Terrain <- MCTerrain
    SupplyCenters <- MCSupplyCenters
    HomeCenters <- MCHomeCenters
    Boards <- MCBoards
    Offers <- MCOffers
    LastTurn = 1
    MaxOrders = 2
INVARIANTS
    NoSelfDislodgement
CHECK_DEADLOCK FALSE
