SPECIFICATION RSpec
CONSTANTS
    s1 = s1
    Streams = {s1, s2}
    Models = {m1}
    NoModel = NoModel
    MaxTokens <- MCMaxTokens
    Events <- MCEvents
    Room = 2
CHECK_DEADLOCK FALSE
INVARIANTS
    CountExplained
    GracefulDrain
PROPERTIES
    RunReturns
