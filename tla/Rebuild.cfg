SPECIFICATION FairSpec
CONSTANTS
    old = old
    new = new
    guard = guard
    None = None
    Keys = {k1, k2}
    Versions = {1, 2}
    Procs = {old, new, guard}
    Guards = {guard}
    Version <- NewGuardVersion
    MaxEvents = 3
    BatchEvents = 2
    BatchRows = 2
    MaxGen = 2
INVARIANTS
    GenerationsInv
    VerifyFindsNoDifference
    OneGenerationLeft
PROPERTIES
    RefinesViews
    SessionEnds
    LiveGenerationGrows
