SPECIFICATION HSpec
CONSTANTS
    Cond = {c1}
    NumPos = 2
    Interval = {1, 5}
    MaxId = 1
    MaxTime = 2
    Slot = {s1, s2}
    CloseAfter = 2
    MaxTicks = 3
SYMMETRY Symmetry
CONSTRAINT Bounded
CHECK_DEADLOCK FALSE
PROPERTY FreshRowsCloseOnThirdMiss
