SPECIFICATION Spec
CONSTANTS
    c1 = c1
    c2 = c2
    c3 = c3
    NoConn = NoConn
    Conns = {c1, c2, c3}
    Transports = {"ws", "grpc"}
    REDIS_HISTORY_TURNS = 2
    MaxTurns = 3
    MaxFaults = 1
SYMMETRY ConnSymmetry
INVARIANT TurnIndexUnique
INVARIANT HotHistoryOrdered
PROPERTY ImplementsSessionLog
CHECK_DEADLOCK FALSE
