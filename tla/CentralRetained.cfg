SPECIFICATION CentralSpec
CONSTANTS
    Revision = {r1, r2, bad}
    Valid = {r1, r2}
    None = None
    RoutesFail = FALSE
    ChannelCap = 4
    MaxPuts = 3
INVARIANT RoutesRetained
