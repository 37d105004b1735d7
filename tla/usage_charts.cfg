\* One host and two domains, one of whose disks has the name of the other's;
\* four requests in all, two at a time.
CONSTANTS
    h = h  d1 = d1  d2 = d2  p1 = p1  p2 = p2  w1 = w1
    Hosts = {h}
    Domains = {d1, d2}
    Devices <- TwoDisks
    Workers = {w1}
    Polls = {p1, p2}
    Points = 2
    Second = 1
    MaxPolls = 4
    MaxChanges = 2
SPECIFICATION Spec
SYMMETRY Symmetric
INVARIANTS ValuesUnderTheirTimes RatesCoverOneSecond HistoryHeals
\* No request is left to come.
CHECK_DEADLOCK FALSE
