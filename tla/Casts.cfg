CONSTANTS
    Scenarios = {"cooldown", "robbery", "resolution", "statistics", "summary", "retention", "pages"}
    None = None
    Stock = Stock  Ruleset = Ruleset  v1 = v1  v2 = v2  w1 = w1  w2 = w2  r1 = r1  r2 = r2  r3 = r3
    c1 = c1  c2 = c2  fish = fish  trap = trap  sword = sword  shield = shield
    Viewers = {v1, v2}
    Requests = {r1, r2, r3}
    Owner <- OwnerOfThree
    Workers = {w1, w2}
    Known = {TRUE, FALSE}
    Earlier = {0, 2}
    Deltas <- Masses
    Cooldowns = {0, 2}
    Stock0 = 1  Slots = 0
    MaxTime = 3  MaxCalls = 3  MaxUses = 0  MaxCrashes = 1  MaxLosses = 1
SPECIFICATION CastsSpec
INVARIANTS
    EveryFishHasItsRow
    NoCooldownWithoutCast
    MassAccounted
    NeverOversold
    ResolutionHolds
PROPERTIES
    CooldownHeld
    JournalHolds
CHECK_DEADLOCK FALSE
