SPECIFICATION Spec
CONSTANTS
    Models = {m1, m2}
    Groups = {g1}
    None = None
    InflightWeight = 10
    CostWeight = 10
    Pickers = {"max", "random", "weighted"}
    Underflow = 50
    MaxPrice = 2
    MaxCount = 2
    MaxChanges = 0
SYMMETRY Symmetry
CHECK_DEADLOCK FALSE
INVARIANTS
    ZeroScoreExcluded
