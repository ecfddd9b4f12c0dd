SPECIFICATION MCFairSpec
CONSTANTS
    Procs = {p1, p2}
    Requests = {1, 2, 3}
    None = None
    LeaseExpiry = 1
    MaxTime = 2
    MaxChain = 3
    MaxEra = 0
PROPERTIES
    CommandEnds
