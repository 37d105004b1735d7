\* No deadlock check: when the connection has ended, everything may stop.
CONSTANTS
    Mini = 2
    BodySizes = {0, 2}
    Windows = {2}
    MaxSent = 4
    MessageArea = FALSE
    MaxTokens = 2
    MaxQueue = 2
    ModKeys <- SomeKeys
    Positions = {1, 2}
    Edge = 2
    Scrolls = {0, 1}
    Bunch = 2
    Buttons = {1, 2}
    GAP_DETECTION_THRESHOLD = 2
    MAX_CLUSTER_TIME = 3
    MaxTime = 5
    MaxSources = 2
    Sizes = {0, 2, 126, 127}
    Bytes = {0, 1, 127, 128, 255}
    Lengths = {3, 6, 7, 8, 9, 261, 262, 263, 264, 265, 8999}
    Distances = {1, 2, 256, 257, 258, 8191, 8192, 8193, 8448, 9000}
SPECIFICATION Spec
INVARIANTS InStep NothingWaits AcksKeepUp NoIdleTokens ModifiersTracked PointerFollows PiecesInOrder WrittenAsDeclared ReadAsSent
PROPERTIES Settles
CHECK_DEADLOCK FALSE
