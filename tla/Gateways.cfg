CONSTANTS
    Scenarios = {"wizard", "two items", "one editor", "lost answer", "two clients", "two commands", "two drafts", "points", "timeouts", "channels"}
    None = None
    c1 = c1  c2 = c2  d1 = d1  d2 = d2  f1 = f1  f2 = f2  i1 = i1
    i2 = i2  m1 = m1  m2 = m2  r1 = r1  v1 = v1  v2 = v2  x = x
    y = y  ann = ann  mod = mod  luck = luck  slots = slots  reroll = reroll
    Flows = {f1, f2}  Kinds = {"config", "message", "reward"}
    Clicks = {c1, c2}  Values = {v1, v2}
    Life = 3  Attempts = 2  MaxViews = 4  MaxTicks = 1
SPECIFICATION GatewaysSpec
INVARIANTS
    StaleFormChangesNothing
    AnswersAreTrue
    ChatHolds
    ChannelsHold
PROPERTIES
    WizardHolds
    EditorHolds
CHECK_DEADLOCK FALSE
