CONSTANTS
    Scenarios = {"events", "mail", "statistics", "rolls", "chat", "forms", "channels"}
    None = None
    Absent = Absent  Plain = Plain  Runner = Runner  worm = worm  box = box  a1 = a1  a2 = a2
    k1 = k1  w1 = w1  w2 = w2  c1 = c1  c2 = c2  fish = fish  p1 = p1
    p2 = p2  m1 = m1  ann = ann  f1 = f1  z1 = z1  z2 = z2  i1 = i1
    o1 = o1  x = x  y = y
SPECIFICATION FairSpec
PROPERTIES
    EventsEnd
    WhatBeginsEnds
CHECK_DEADLOCK FALSE
