SPECIFICATION GatewaySpec
CONSTANTS
    p1 = p1
    u1 = u1
    u2 = u2
    Callers = {p1}
    Uuids = {u1, u2}
    Outbound = {u2}
    nodeCalls = 1
    RespCap = 1
    MaxCmds = 1
    MaxDrops = 1
    c1 = c1
    c2 = c2
    n1 = n1
    n2 = n2
    redis = redis
    Calls = {c1, c2}
    Nodes = {n1, n2}
    maxCalls = 1
    Redis = redis
    MaxRepeats = 1
INVARIANT ReplyIsOwn
INVARIANT CounterHonest
PROPERTY CallersReturn
PROPERTY GhostsReleased
CHECK_DEADLOCK FALSE
