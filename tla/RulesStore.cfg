CONSTANTS
    Requests = {r1, r2}
    Bodies = {a, b}
    Nobody = nobody
    Leader = leader
    Follower = follower
    Faults = {"write_fails", "crash", "push_times_out", "push_lost"}
    MaxRestores = 1
    MaxBegun = 3
    Absent = absent
    Empty = empty
    Torn = torn
SPECIFICATION FairSpec
INVARIANTS RulesWhole SavedIsServed FollowerFollows
PROPERTIES BackupFirst EveryRequestAnswered
CHECK_DEADLOCK FALSE
