SPECIFICATION FairSpec
CONSTANTS
    old = old
    new = new
    guard = guard
    None = None
    Keys = {k1, k2}
    Versions = {1, 2}
    Procs = {old, new, guard}
    Guards = {guard}
    Version <- NewGuardVersion
    MaxEvents = 2
    BatchEvents = 1
    BatchRows = 1
    MaxGen = 3
PROPERTIES
    ViewsNeverGoBackward
