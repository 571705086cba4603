SPECIFICATION RaceSpec
CONSTANTS
    Market = {m1, m2}
    Interval = {i1, i2, i3}
    Named = {screener}
    Actor = {a1, a2}
    Off = off
    Syncer = {s1}
    Viewer = {v1, v2}
    Taker = {1}
    MaxFills = 2
    MatchTtl = 1
    Latency = 1
    LastTime = 4
CHECK_DEADLOCK FALSE
INVARIANTS NamedJobsKept LoneSyncRepairs
PROPERTIES CallersAreAnswered
