SPECIFICATION Spec
CONSTANTS
    Cond = {c1, c2}
    NumPos = 1
    Interval = {5}
    MaxId = 2
    MaxTime = 2
    Slot = {s1, s2}
    CloseAfter = 2
    MaxTicks = 1
SYMMETRY Symmetry
CONSTRAINT Bounded
CHECK_DEADLOCK FALSE
INVARIANTS
    TypeOK
    CountsMatchTicks
    TicksHaveMarket
    BoundariesOrdered
    HistoryBeforeLive
    OnePricePerTime
PROPERTY LogSpec
