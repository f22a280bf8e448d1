\* Sessions only: files that appear and change between passes.
SPECIFICATION ConnectorsSpec
CONSTANTS
    d1 = d1  d2 = d2  d3 = d3
    Kinds = {"session"}
    Docs = {d1, d2, d3}
    Blank = {}
    Cap = 1
    Limit = 2
    Day = 1
    Initially <- MCInitially
    Order <- MCOrder
    MaxTime = 4
    MaxEdits = 3
    MaxFailures = 0
INVARIANTS
    BurstsAreCollected
\* Nothing happens once the bounds on changes are used up.
CHECK_DEADLOCK FALSE
