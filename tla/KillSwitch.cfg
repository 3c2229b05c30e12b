SPECIFICATION FairSwitchSpec
CONSTANTS
    a1 = a1
    a2 = a2
    c1 = c1
    Admins = {a1, a2}
    Attempts = {c1}
    MaxSwitches = 2
    Errors = TRUE
INVARIANT CallsRefused
PROPERTY CacheConverges
