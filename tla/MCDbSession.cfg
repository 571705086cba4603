SPECIFICATION Spec
CONSTANTS
    Worker = {w1, w2}
    Loop = loop
    Write = {a, b}
    Export = {e1, e2}
    MaxNest = 3
    MaxDepth = 4
    None = none
SYMMETRY Symmetry
CHECK_DEADLOCK FALSE
INVARIANTS TypeOK OthersCommit
PROPERTY ImplementsTransactions
