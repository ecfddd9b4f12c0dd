SPECIFICATION MCSpec
CONSTANTS
    q1 = q1  q2 = q2  q3 = q3  t1 = t1  t2 = t2  x = x  y = y  c1 = c1  c2 = c2
    Callers = {c1, c2}
    TruthIds = {t1, t2}
    NoText = NoText
    Shapes <- AllShapes
    TruthLists <- SomeLists
    MaxOrders = 3
    MaxSets = 2
    MaxDrafts = 3
    Ops <- AllOps
SYMMETRY Twins
CHECK_DEADLOCK FALSE
INVARIANTS
    StoryInv
    VersionsNameOneText
PROPERTIES
    StorySteps
    ImplementsStory
