SPECIFICATION MCSpec
CONSTANTS
    p1 = p1
    Procs = {p1, p2}
    Versions = {1, 2, 3}
    Installed = 1
    Entries = {e1, e2}
    Nothing = Nothing
    MaxClaims = 2
    MaxDay = 1
    MaxOwner = 2
    MaxKills = 1
INVARIANTS
    UpdateInv
    OccupantRestored
CHECK_DEADLOCK FALSE
