\* One caller that retries an upsert after its history write failed.
SPECIFICATION Spec
CONSTANTS
    Callers = {c1}
    FactIds = {f1}
    Bodies = {b1, b2}
    Shares = {private, public}
    Sources = {notion, gmail}
    Purgeable = {}
    Absent = Absent
    Torn = Torn
    Free = Free
    MaxCalls = 4
    MaxFaults = 1
    MaxCrashes = 0
SYMMETRY Symmetry
PROPERTIES
    EveryBodyChangeIsLogged
\* Callers stop once the bound on calls is used up.
CHECK_DEADLOCK FALSE
