SPECIFICATION KeySpec
CONSTANTS
    r1 = r1
    r2 = r2
    r3 = r3
    b1 = b1
    b2 = b2
    Requests = {r1, r2, r3}
    Bodies = {b1, b2}
SYMMETRY Symmetry
INVARIANT ExecutedOnce
INVARIANT ReplayMatchesBody
INVARIANT NoOrphanedSlot
CHECK_DEADLOCK FALSE
