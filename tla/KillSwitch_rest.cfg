SPECIFICATION SwitchSpec
CONSTANTS
    a1 = a1
    c1 = c1
    Admins = {a1}
    Attempts = {c1}
    MaxSwitches = 1
    Errors = FALSE
INVARIANT RestRefused
