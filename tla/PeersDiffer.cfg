CONSTANTS
    Requests = {r1, r2}
    Bodies = {a, b}
    Nobody = nobody
    Leader = leader
    Follower = follower
    Faults = {}
    MaxRestores = 0
    MaxBegun = 3
    Absent = absent
    Empty = empty
    Torn = torn
SPECIFICATION Spec
INVARIANT PeersNeverDiffer
CHECK_DEADLOCK FALSE
