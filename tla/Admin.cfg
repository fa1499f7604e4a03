CONSTANTS
    Scenarios = {"config", "binding apart", "binding", "pools", "events", "places", "graph", "stock", "modifiers"}
    None = None
    h1 = h1  h2 = h2  p1 = p1  p2 = p2
    Keys <- WorldKeys
    OpOf <- WorldOps
    Handlers = {h1, h2}
    Attempts = 2
    Places = {"lake", "river", "sea"}  Default = "lake"
    Rewards = {"r1", "r2"}  Contents = {"fish", "points"}
    Events = {"e1", "e2"}  Viewers = {"v1"}
    Level <- LevelOfAll
    MaxPlaces = 2  MaxRewards = 2
    OldPools <- PoolsOfOldApi
    OldEvents <- EventsOfOldApi
    MaxOld = 1  MaxTravels = 1
SPECIFICATION AdminSpec
INVARIANTS
    AppliedOnce
    ActiveIsReviewed
    BindingsHold
PROPERTIES
    EditsWhatItsAuthorSaw
    OverrideExistsWhenSet
    StoredIsConsistent
CHECK_DEADLOCK FALSE
