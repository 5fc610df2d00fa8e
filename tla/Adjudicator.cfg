SPECIFICATION Spec
CONSTANTS
    irn = irn
    thr = thr
    None = None
    Regions <- MCRegions
    Factions <- MCFactions
    Adjacent <- MCAdjacent
    Terrain <- MCTerrain
    SupplyCenters <- MCSupplyCenters
    HomeCenters <- MCHomeCenters
    Boards <- MCBoards
    Offers <- MCOffers
    LastTurn = 1
    MaxOrders = 2
INVARIANTS
    TypeOK
    OneUnitPerRegion
    RecursionEnds
    VerdictsAgree
    NoOtherVerdicts
    Overpowered
    OccupiersOwn
    OptionsHonoured
PROPERTIES
    TurnEndsInBalance
CHECK_DEADLOCK FALSE
