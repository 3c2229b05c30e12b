SPECIFICATION Spec
CONSTANTS
    r1 = r1
    r2 = r2
    b1 = b1
    b2 = b2
    Requests = {r1, r2}
    Browsers = {b1, b2}
    MaxWrites = 2
    MaxFaults = 1
    MaxSessions = 3
    max_concurrent = 2
    max_attempts = 2
    client_roles = {"super_admin"}
    portal_roles = {"portal:operator"}
SYMMETRY Symmetry
INVARIANT OneSuccessor
INVARIANT LogoutHolds
INVARIANT Heard
INVARIANT BeforeIsReplaced
CHECK_DEADLOCK FALSE
