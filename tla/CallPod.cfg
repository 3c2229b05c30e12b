SPECIFICATION PodSpec
CONSTANTS
    g1 = g1
    g2 = g2
    NoStream = NoStream
    Streams = {g1, g2}
    MIN_AUDIO = 2
    MaxChunks = 4
    MaxStreamFaults = 1
    ShortCall = 2
    s1 = s1
    s2 = s2
    s3 = s3
    s4 = s4
    Sessions = {s1, s2, s3, s4}
    MaxCount = 5
    r1 = r1
    r2 = r2
    NoRequest = NoRequest
    Requests = {r1, r2}
    k1 = k1
    k2 = k2
    Kids = {k1, k2}
    NoKid = NoKid
    MaxRotations = 2
    MaxFetchFaults = 1
    max_queue_size = 2
    MaxEvents = 5
    Clients = {r1, r2}
    i1 = i1
    i2 = i2
    Addresses = {i1, i2}
    NoAddress = NoAddress
    t1 = t1
    Tenants = {t1}
    NoTenant = NoTenant
    RATE_LIMIT_PER_IP_PER_MIN = 1
    RATE_LIMIT_PER_TENANT_PER_MIN = 2
    window_seconds = 2
    MaxRateFaults = 1
INVARIANT CountCoversSessions
INVARIANT RotationFollowed
INVARIANT FreshAudio
INVARIANT LeaseKept
INVARIANT StoresOpenForCalls
INVARIANT TurnsAnswered
INVARIANT SentAsAccepted
PROPERTY WriterLetGo
PROPERTY BlockEnds
CHECK_DEADLOCK FALSE
