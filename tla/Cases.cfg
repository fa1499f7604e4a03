CONSTANTS
    Scenarios = {"pricing", "modifiers", "placement", "item draft", "effect schema", "effect edits", "reward edits", "reward modes", "old rewards"}
    None = None
    Bad = Bad  Plain = Plain  tagged = tagged  worm = worm  boot = boot
    RateScale = 4
    PointsMax = 5
    Rates = {1, 2, 3, 4, 5, 7, 9}
    Masses = {0, 1, 2, 3, 4, 7}
SPECIFICATION CasesSpec
INVARIANTS
    BuyAllIsLargestAffordable
    SellAllFitsTheCap
    RoundTripNeverProfits
    ModifiersHold
    PlacementHolds
PROPERTIES
    FormsHold
CHECK_DEADLOCK FALSE
