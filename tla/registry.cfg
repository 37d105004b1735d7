SPECIFICATION SmallSpec
CONSTANTS
    w1 = w1  w2 = w2  r1 = r1  r2 = r2  a = a  b = b
    Workers <- TwoWorkers
    Requests <- TwoRequests
    Ids <- TwoIds
    Configs <- TwoConfigs
    Handles = {h1, h2, h3, h4, h5, h6, h7, h8}
    NoRow = NoRow
    Null = Null
    MaxEdits = 2
    MaxOutages = 1
    MaxFailures = 1
INVARIANTS RefCountExact
PROPERTIES ImplementsLeases
SYMMETRY Symmetric
