SPECIFICATION EventSpec
CONSTANTS
    p1 = p1
    p2 = p2
    a1 = a1
    c1 = c1
    c2 = c2
    Pods = {p1, p2}
    Alerts = {a1}
    Clients = {c1, c2}
    max_conn = 1
    maxsize = 1
    MaxWire = 1
    MaxOutages = 1
INVARIANT OneLeader
INVARIANT SlotsConserved
PROPERTY StreamConverges
PROPERTY StreamsEnd
