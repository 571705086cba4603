SPECIFICATION LiveSpec
CONSTANTS
    Cond = {c1, c2}
    NumPos = 1
    Interval = {5}
    MaxId = 2
    MaxTime = 1
    Slot = {s1}
    CloseAfter = 3
    MaxDisturbances = 4
CHECK_DEADLOCK FALSE
PROPERTY ResolvedStopsBeingPolled
