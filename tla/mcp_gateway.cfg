SPECIFICATION Spec
CONSTANTS
    MaxTime = 4
    RateLimit = 2
    RateWindow = 2
    RateKeys = 2
    SlotLimit = 2
    SlotsPerKey = 2
    SlotKeys = 1
    Tenants = {n1, n2, n3}
    Addresses = {w1, w2}
    Kids = {k1, k2}
    Threads = {t1, t2}
    Subjects = {u1}
    CacheTime = 2
    FetchTime = 1
    ClockSkew = 0
    MaxRotations = 1
    FlowTime = 3
    Calls = {c1, c2}
    Requests = {q1, q2, q3}
    Actors = {a1}
    Ips = {i1}
    Scopes = {read, admin}
    AdminScope = admin
    Fixed = a1
    Nobody = nobody
    Ttl = 1
    DenyTime = 2
    LastTime = 2
    MaxUpsets = 1
    Interval = 1
    MaxAge = 1
    Rpo = 2
    Retention = 2
    MaxVersion = 2
    MaxBackups = 2
    MaxFaults = 2
    StatusTime = 2
SYMMETRY Symmetry
INVARIANT RatesHold
INVARIANT SlotsMatchWork
INVARIANT StatusTold
PROPERTY KeysFresh
PROPERTY RelayedForItsCall
CHECK_DEADLOCK FALSE
