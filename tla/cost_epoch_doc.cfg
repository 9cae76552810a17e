SPECIFICATION Spec
CONSTANTS
    Models = {m1}
    None = None
    Skipped = Skipped
    Prices <- MCPrices
    Responses <- MCResponses
    windowDuration = 3
    flushInterval = 2
    sampleThreshold = 2
    Alpha = 1
    Whole = 2
    Lambda = 1
    MaxClock = 6
    MaxSamples = 4
INVARIANTS
    OnlyCurrentEpoch
