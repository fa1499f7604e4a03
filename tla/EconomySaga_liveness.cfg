CONSTANTS
    r1 = r1
    r2 = r2
    Users = {u1}
    Keys = {k1, k2}
    Requests = {r1}
    Workers = {w1}
    None = None
    Orphan = Orphan
    All = All
    Amounts = {2}
    RateScale = 2
    PointsMax = 3
    BuyRate = 3
    SellRate = 2
    MinMass = 1
    MaxMass = 2
    InitMass = 2
    InitPoints = 2
    MaxAttempts = 2
    WriteOutcomes <- SomeWrites
    ReadOutcomes <- SomeReads
    MaxCatches = 1
    MaxEarnings = 0
    MaxInterventions = 1
SPECIFICATION FairSpec
PROPERTY ConversionsSettle
CHECK_DEADLOCK FALSE
