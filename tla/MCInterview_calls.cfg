\* Two concurrent callers on an empty queue or one with older questions; a store
\* call fails, the process restarts.
SPECIFICATION Spec
CONSTANTS
    a = a  b = b  c = c  d = d  e = e
    Callers = {p1, p2}
    Items = {a, b, c, d}
    Content <- MCContent
    Near <- MCNear
    DirOrder <- MCOrder
    Legacy <- MCLegacy
    MaxFollowUps = 3
    None = None  Lapsed = Lapsed  Accepted = Accepted  Rejected = Rejected
    MaxCalls = 4
    MaxFaults = 1
    MaxCrashes = 1
SYMMETRY Symmetry
INVARIANTS
    Deduplicated
    AnswersAreKept
    NothingVanishes
\* Calls stop once the bound on them is used up.
CHECK_DEADLOCK FALSE
