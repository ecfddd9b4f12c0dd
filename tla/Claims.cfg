SPECIFICATION MCSpec
CONSTANTS
    d1 = d1
    Requests = {r1, r2, r3}
    Procs = {p1, p2}
    Tokens = {t1, t2}
    Digests = {d1, d2}
    Outcomes = {o1}
    None = None
    LeaseExpiry = 1
    MaxTime = 1
    MaxEvents = 5
    ShortEvents = 3
SYMMETRY Symmetry
INVARIANTS
    ScopeAgrees
    OneLifeInLog
    NoFactUnderForeignClaim
    HeldUntilOwner
    RequestsInv
    AnswersAgree
PROPERTIES
    ActiveClaimUndisturbed
