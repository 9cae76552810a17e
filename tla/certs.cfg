SPECIFICATION CSpec
CONSTANTS
    Callbacks = {c1, c2}
    MaxVersion = 3
CHECK_DEADLOCK FALSE
PROPERTIES
    ReplacedByNewerPair
    SettledPairServed
