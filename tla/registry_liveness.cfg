\* One worker that is disturbed in every way, or two that share a row: see Few.
SPECIFICATION LiveSpec
CONSTANTS
    w1 = w1  w2 = w2  r1 = r1  r2 = r2  a = a  b = b
    Workers <- TwoWorkers
    Requests <- TwoRequests
    Ids <- OneId
    Configs <- TwoConfigs
    Handles = {h1, h2, h3, h4, h5, h6}
    NoRow = NoRow
    Null = Null
    MaxEdits = 2
    MaxOutages = 1
    MaxFailures = 1
PROPERTIES RequestsComplete HostsRecover RegistriesConverge
