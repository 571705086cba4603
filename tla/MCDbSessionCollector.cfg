SPECIFICATION Spec
CONSTANTS
    Worker = {w1, w2}
    Loop = loop
    Write = {a, b}
    Export = {e1, e2}
    MaxNest = 2
    MaxDepth = 3
    None = none
SYMMETRY Symmetry
CHECK_DEADLOCK FALSE
INVARIANT CollectorCommits
