CONSTANTS
    Scenarios = {"health", "mail", "use"}
    None = None
    Absent = Absent  Plain = Plain  worm = worm  rod = rod  box = box  tin = tin  hand = hand
    r1 = r1  r2 = r2  k1 = k1  k2 = k2  q1 = q1  q2 = q2  h1 = h1
    h2 = h2  t1 = t1  t2 = t2
    Requests = {q1, q2}
    May <- OneCoroutine
    Runners = {h1, h2}
    Tokens = {t1, t2}
    MaxTime = 1  MaxRequests = 2  MaxFailures = 1  MaxLosses = 0
SPECIFICATION HoldingsSpec
PROPERTIES
    InventoryHolds
    IntegrationHolds
CHECK_DEADLOCK FALSE
