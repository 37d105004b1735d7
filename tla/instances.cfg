\* Two requests at a time, three in all, on a domain with two disks in files
\* and one on the network, with or without description, graphics and CD drive.
CONSTANTS
    r1 = r1  r2 = r2  d1 = d1  d2 = d2  d3 = d3
    Requests = {r1, r2}
    Disks = {d1, d2, d3}
    Files = {d1, d2}
    Missing <- MissingParts
    Original = original
    Empty = empty
    Absent = absent
    None = none
    MaxRequests = 3
SPECIFICATION Spec
SYMMETRY Symmetric
PROPERTIES DeletionIsComplete EditsCompose
\* No request is left to come.
CHECK_DEADLOCK FALSE
