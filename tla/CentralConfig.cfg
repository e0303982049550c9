SPECIFICATION CentralFairSpec
CONSTANTS
    Revision = {r1, r2, bad}
    Valid = {r1, r2}
    None = None
    RoutesFail = TRUE
    ChannelCap = 4
    MaxPuts = 3
INVARIANTS
    CentralTypeOK
    ReportedRan
PROPERTIES
    Converges
    ReportSettles
