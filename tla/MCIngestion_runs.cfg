\* Overlapping triggers and a resumption, with a relock and either a store call that fails or a restart.
SPECIFICATION FairSpec
CONSTANTS
    r1 = r1  r2 = r2  notion = notion
    Runners = {r1, r2}
    SourceOrder <- OneSource
    Batch = 1
    MaxPasses = 2
    Resumers = {r1}
    Torn = Torn
    MaxItems = 2
    MaxEntries = 1
    MaxCalls = 3
    MaxFaults = 1
    MaxRelocks = 1
INVARIANTS
    CollectedOnce
    CursorCoversSeen
    NothingLostUnfailing
PROPERTIES
    RunLockReleased
\* Calls stop once the bound on them is used up.
CHECK_DEADLOCK FALSE
