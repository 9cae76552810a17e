SPECIFICATION Spec
CONSTANTS
    Collectors = {c1}
    Datasources = {d1}
    MaxExtractors = 2
    Events = {e1, e2, e3}
    BufferSize = 1
CHECK_DEADLOCK FALSE
INVARIANTS
    WgCountsGoroutines
    NoSourceForgotten
    StopQuiescesCollectors
    ExtractorsInStep
PROPERTIES
    ImplementsBus
    StopReturns
    EventsHandled
