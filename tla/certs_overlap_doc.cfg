SPECIFICATION CSpec
CONSTANTS
    Callbacks = {c1, c2}
    MaxVersion = 2
CHECK_DEADLOCK FALSE
PROPERTIES
    NewestPairKept
