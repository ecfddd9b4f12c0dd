SPECIFICATION MCSpec
CONSTANTS
    Projects = {p, q}
    Outputs = {h1, h2}
    X = x
    Shorts = {x}
    Excerpt <- OneExcerpt
    Classes = {"record", "output"}
    Readers = {i}
    Exports = {e1, e2}
    Targets = {t1}
    None = None
    MaxLog = 3
SYMMETRY Symmetry
INVARIANTS
    RetentionInv
    BodyFollowsReferences
    ReducedKeepsExcerpt
    RowTellsCopy
PROPERTIES
    TombstonesStay
    CopiesListed
