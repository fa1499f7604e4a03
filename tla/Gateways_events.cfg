CONSTANTS
    Scenarios = {"event form"}
    None = None
    c1 = c1  c2 = c2  d1 = d1  d2 = d2  f1 = f1  f2 = f2  i1 = i1
    i2 = i2  m1 = m1  m2 = m2  r1 = r1  v1 = v1  v2 = v2  x = x
    y = y  ann = ann  mod = mod  luck = luck  slots = slots  reroll = reroll
    Flows = {f1}  Kinds = {"event"}
    Clicks = {c1}  Values = {v1}
    Life = 2  Attempts = 1  MaxViews = 3  MaxTicks = 0
SPECIFICATION GatewaysSpec
INVARIANTS
    EveryFormOpens
CHECK_DEADLOCK FALSE
