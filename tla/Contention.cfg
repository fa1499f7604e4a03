CONSTANTS
    Scenarios = {"health", "casts"}
    None = None
    h1 = h1  q1 = q1  q2 = q2  t1 = t1  v1 = v1  v2 = v2  w1 = w1
    w2 = w2  r1 = r1  r2 = r2  Stock = Stock  Ruleset = Ruleset
SPECIFICATION FairSpec
PROPERTIES
    RunnerKeepsUp
    EveryRequestEnds
CHECK_DEADLOCK FALSE
