SPECIFICATION MCSpec
CONSTANTS
    length = length
    trace = trace
    plain = plain
    model = model
    Names = {length, trace, plain, model}
    Values = {v1, v2}
    None = None
    ContentLength = length
    TraceHeader = trace
    SetKeys <- MCSetKeys
    RemoveKeys <- MCRemoveKeys
    MaxSteps = 4
    Clients = {c1, c2}
    Models = {m1, m2}
    Ids = {shared, i1, i2, i3}
    SharedId = shared
    Nil = Nil
    maxSessions = 2
SYMMETRY Symmetry
CHECK_DEADLOCK FALSE
PROPERTIES
    RecordsSelected
