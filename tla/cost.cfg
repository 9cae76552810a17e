SPECIFICATION Spec
CONSTANTS
    Models = {m1, m2}
    None = None
    Skipped = Skipped
    Prices <- MCPrices
    Responses <- MCResponses
    windowDuration = 2
    flushInterval = 1
    sampleThreshold = 2
    Alpha = 1
    Whole = 3
    Lambda = 1
    MaxClock = 3
    MaxSamples = 4
SYMMETRY Symmetry
INVARIANTS
    SnapshotCurrent
    CheapestNotBehind
PROPERTIES
    SnapshotStable
