\* One call on one source, and one store call that fails.
SPECIFICATION Spec
CONSTANTS
    r1 = r1  r2 = r2  notion = notion
    Runners = {r1}
    SourceOrder <- OneSource
    Batch = 2
    MaxPasses = 2
    Resumers = {}
    Torn = Torn
    MaxItems = 2
    MaxEntries = 1
    MaxCalls = 2
    MaxFaults = 1
    MaxRelocks = 0
INVARIANTS
    NothingLost
\* Calls stop once the bound on them is used up.
CHECK_DEADLOCK FALSE
