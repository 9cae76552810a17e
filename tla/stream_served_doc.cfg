SPECIFICATION Spec
CONSTANTS
    BodyByteLimit = 2
    Servers <- MCServers
    None = None
    Skipped = Skipped
    Streams <- MCStreams
    MaxChunks = 2
    ChunkLens = {0, 1, 2}
    MutatedLens = {0, 1, 2, 3}
    MaxDups = 1
CHECK_DEADLOCK FALSE
INVARIANTS
    PostProcessorsAlwaysInvoked
    ReceivedRequestAnswered
