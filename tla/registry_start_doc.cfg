SPECIFICATION Spec
CONSTANTS
    a = a
    b = b
    cheap = cheap
    dear = dear
    fast = fast
    Models = {a, b}
    Prices = {cheap, dear}
    Negative = Negative
    None = None
    Corrupt = Corrupt
    Missing = Missing
    Groups = {fast}
    Configs <- MCConfigs
    Faults = {"early write"}
    MaxWrites = 1
    MaxCount = 1
CHECK_DEADLOCK FALSE
INVARIANTS
    EveryChangeConverges
