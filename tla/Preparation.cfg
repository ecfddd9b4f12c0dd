SPECIFICATION MCSpec
CONSTANTS
    a = a
    r1 = r1
    Callers = {c1, c2}
    Paths = {a, b}
    Facts <- Remotes
    Settings <- AllSettings
    Requests = {r1, r2}
    Host = Host
    None = None
    MaxLog = 6
    MaxEdits = 1
    Attempts = 2
SYMMETRY Twins
INVARIANTS
    LogInv
    RunsUnderItsPolicy
    RetryReplayed
CHECK_DEADLOCK FALSE
