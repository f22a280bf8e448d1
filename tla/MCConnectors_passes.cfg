\* Each connector in turn: documents change, also under a pass, and requests fail.
SPECIFICATION FairConnectors
CONSTANTS
    d1 = d1  d2 = d2  d3 = d3
    Kinds <- AllKinds
    Docs = {d1, d2, d3}
    Blank = {d3}
    Cap = 2
    Limit = 2
    Day = 1
    Initially <- MCInitially
    Order <- MCOrder
    MaxTime = 4
    MaxEdits = 3
    MaxFailures = 1
INVARIANTS
    CursorLeavesNothing
PROPERTIES
    QuietMeansDone
    PassEnds
\* Nothing happens once the bounds on changes are used up.
CHECK_DEADLOCK FALSE
