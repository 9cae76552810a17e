SPECIFICATION Spec
CONSTANTS
    Collectors = {c1, c2}
    Datasources = {d1, d2}
    MaxExtractors = 1
    Events = {e1}
    BufferSize = 1
CHECK_DEADLOCK FALSE
INVARIANT
    StopQuiescesEverything
