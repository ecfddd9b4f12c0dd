SPECIFICATION MCSpec
CONSTANTS
    Projects = {p, q}
    Outputs = {h1}
    X = x
    Shorts = {x}
    Excerpt <- OneExcerpt
    Classes = {"record", "output"}
    Readers = {i}
    Exports = {}
    Targets = {}
    None = None
    MaxLog = 3
INVARIANTS
    KeptIsReported
