SPECIFICATION Spec
CONSTANTS
    c1 = c1
    c2 = c2
    b1 = b1
    b2 = b2
    x = x
    y = y
    None = None
    ConfigMaps = {c1, c2}
    BaseModels = {b1, b2}
    Adapters = {x, y}
    Worlds <- MCWorlds
    Deletes = TRUE
    MaxChanges = 4
CHECK_DEADLOCK FALSE
INVARIANTS
    MappingServed
    ResolvedAdapterListed
    BaseModelsCounted
PROPERTIES
    EventuallyServed
