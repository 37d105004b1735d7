\* Two requests, at a time and in all, for a pool and for domains in it; another
\* page changes the host once.
CONSTANTS
    r1 = r1  r2 = r2  p1 = p1  n1 = n1  n2 = n2
    Requests = {r1, r2}
    Pools = {p1}
    Logical = {p1}
    Names = {n1, n2}
    Posted <- MostForms
    None = none
    MaxRequests = 2
    MaxChanges = 1
SPECIFICATION Spec
SYMMETRY Symmetric
INVARIANTS NoAccidentalSharing CreatedAsAsked PoolComesUp
\* No request is left to come.
CHECK_DEADLOCK FALSE
