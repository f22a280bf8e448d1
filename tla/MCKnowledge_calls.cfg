\* Two callers on two facts, a store call that fails and a restart; fair
\* scheduling and a fair lock.
SPECIFICATION FairSpec
CONSTANTS
    Callers = {c1, c2}
    FactIds = {f1, f2}
    Bodies = {b1, b2}
    Shares = {private}
    Sources = {notion, gmail}
    Purgeable = {gmail}
    Absent = Absent
    Torn = Torn
    Free = Free
    MaxCalls = 3
    MaxFaults = 1
    MaxCrashes = 1
INVARIANTS
    TypeOK
    IndexMatchesStore
    ReadStillCurrent
    PurgeKeepsOtherSources
PROPERTIES
    HistoryAppendOnly
    HistoryFollowsFact
    ActsAtomically
    EveryCallReturns
\* Calls stop once the bound on them is used up.
CHECK_DEADLOCK FALSE
