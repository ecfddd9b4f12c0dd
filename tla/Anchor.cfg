SPECIFICATION MCSpec
CONSTANTS
    Procs = {p1, p2}
    Requests = {r1, r2}
    None = None
    LeaseExpiry = 1
    MaxTime = 1
    MaxChain = 4
    MaxEra = 1
SYMMETRY Symmetry
INVARIANTS
    AnchorInv
    ForgeInv
PROPERTIES
    OutcomeStands
    AgreementStays
