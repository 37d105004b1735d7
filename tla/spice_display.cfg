\* No deadlock check: when the connection has ended, everything may stop.
CONSTANTS
    s1 = s1
    s2 = s2
    c1 = c1
    c2 = c2
    Surfaces = {s1, s2}
    Images <- TwoImages
    Translucent <- OneSheer
    Canvases = {c1, c2}
    MaxPending = 2
    OrBits <- BitOr
SPECIFICATION Spec
SYMMETRY Alike
INVARIANTS LastPictureShows PrimaryHasTheEvents
CHECK_DEADLOCK FALSE
