SPECIFICATION FairSpec
CONSTANTS
    Requests = {r1}
    Admins = {a1, a2}
    Secrets = {s1, s2}
    Labels = {alice}
    Categories = {k1}
    Pages <- MCPages
    Links <- MCLinks
    Limit = 1
    Earlier <- MCEarlier
    Grantings <- MCGrantings
    Edits <- MCEdits
    Uncategorized = Uncategorized
    Absent = Absent
    Torn = Torn
    None = None
    Bad = Bad
    MaxRequests = 1
    MaxEvents = 2
INVARIANTS
    AnswersAreTheScope
    TokensDecide
PROPERTIES
    ListIsHonest
    EveryRequestAnswered
CHECK_DEADLOCK FALSE
