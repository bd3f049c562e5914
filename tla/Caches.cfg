CONSTANTS
    Procs = {p1, p2}
    Nobody = nobody
    MaxHistory = 2
    Faults = {"no_network", "junk", "write_fails", "crash"}
    MaxEdition = 2
    MaxBegun = 4
    Absent = absent
    Empty = empty
    Torn = torn
SPECIFICATION Spec
INVARIANTS FilesWhole 
PROPERTIES HistoryGrows CacheOutlivesNetwork
CHECK_DEADLOCK FALSE
SYMMETRY Alike
