SPECIFICATION Spec
CONSTANTS
    Processes = {p1, p2}
    Shared = redis
    Configured = {TRUE, FALSE}
    MaxFaults = 1
    Clients <- MCClients
    Traffics <- MCTraffics
    Limit <- MCLimit
    Window <- MCWindow
    Payers = {"ana"}
    MaxBytes = 2
    QuotaWindow = 1
    Requests = {r1, r2, r3}
    Overlap = 2
    Sizes = {1}
    None = None
SYMMETRY Symmetry
INVARIANTS TypeOK EveryWindowEnds  NobodyPaysForOthers BytesBounded
CHECK_DEADLOCK FALSE
