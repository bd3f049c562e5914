CONSTANTS
    Procs = {p1, p2}
    Clients = {c1, c2}
    Buckets = {b1, b2, b3}
    None = none
    Cost = 2
    Rate = 1
    Capacity = 4
    AggRate = 2
    AggCapacity = 8
    MaxTracked = 1
    MaxNow = 2
    MaxMade = 3
    Logins = {l1, l2}
    Keys = {k1, k2}
    TTL = 2
    MaxStale = 3
    Fetch = 1
    First = 1
    MaxDelay = 3
    Period = 8
SPECIFICATION AccessSpec
INVARIANTS AggregateCeiling ClientCeiling RevokedDies PublishedWorks RouteTypeOK 
 
CHECK_DEADLOCK FALSE
SYMMETRY Alike
