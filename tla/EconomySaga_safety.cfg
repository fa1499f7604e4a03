CONSTANTS
    r1 = r1
    r2 = r2
    Users = {u1}
    Keys = {k1, k2}
    Requests = {r1, r2}
    Workers = {w1, w2}
    None = None
    Orphan = Orphan
    All = All
    Amounts = {2}
    RateScale = 2
    PointsMax = 3
    BuyRate = 3
    SellRate = 2
    MinMass = 1
    MaxMass = 2
    InitMass = 2
    InitPoints = 2
    MaxAttempts = 2
    WriteOutcomes <- CleanWrites
    ReadOutcomes <- AllReads
    MaxCatches = 0
    MaxEarnings = 1
    MaxInterventions = 1
SPECIFICATION Spec
SYMMETRY RequestSymmetry
INVARIANTS
    NoLostMass
    OneActiveOperation
    AtomicSettlement
    NeverBothSides
    EventAgreesWithOperation
PROPERTIES
    AmbiguityIsLeftToHumans
    SettledIsFinal
    ImplementsConversion
CHECK_DEADLOCK FALSE
