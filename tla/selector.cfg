SPECIFICATION Spec
CONSTANTS
    Models = {m1, m2}
    Groups = {g1}
    None = None
    InflightWeight = 1000
    CostWeight = 1000
    Pickers = {"max", "random", "weighted"}
    Underflow = 50
    MaxPrice = 2
    MaxCount = 2
    MaxChanges = 2
SYMMETRY Symmetry
CHECK_DEADLOCK FALSE
INVARIANTS
    RequestHonoured
    ScoringSound
    DominatedNotPicked
    HopelessNotPicked
