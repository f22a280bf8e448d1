\* Two commands at a time, a store call that fails and a restart.
SPECIFICATION Spec
CONSTANTS
    cli = cli  http = http
    Callers = {c1, c2}
    Keys = {k1}
    Models = {cli, http}
    Keyed = {http}
    DefaultModel = cli
    Earlier <- OffOrOn
    Torn = Torn
    None = None
    MaxCalls = 3
    MaxMishaps = 2
SYMMETRY Symmetry
INVARIANTS
    LockedMeansDown
    RunsAsConfigured
PROPERTIES
    SettingsAreKept
    RequestsEndBeforeLock
\* Commands stop once the bound on them is used up.
CHECK_DEADLOCK FALSE
