SPECIFICATION MCSpec
CONSTANTS
    d1 = d1
    d2 = d2
    d3 = d3
    d4 = d4
    e1 = e1
    e2 = e2
    e3 = e3
    c1 = c1
    x = x
    y = y
    z = z
    here = here
    main = main
    None = None
    Deliveries = {d1, d2, d3, d4, e1, e2, e3}
    Calls = {c1, e1, e2, e3}
    CallOf <- CallIds
    Inputs = {x, y, z}
    InputOf <- InputsOf
    Tool <- ToolOf
    Checkouts = {here}
    CheckoutOf <- OneCheckout
    Branches = {main}
    Policies <- AllPolicies
    MaxChanges = 2
SYMMETRY Twins
INVARIANTS
    RecordsInv
    RepliesAudited
    TornKeepsDenials
CHECK_DEADLOCK FALSE
