SPECIFICATION FairSpec
CONSTANTS
    Conn = {k1}
    Client = {1, 2}
    Host = {"a", "p"}
    NoHost = NoHost
    NoClient = NoClient
    Serves <- ServesSome
    Passthrough = {"p"}
    DomainRouting = FALSE
    MaxIngress = 1
    MaxHandshakes = 1
    Stray = {2}
    MaxOutages = 1
PROPERTIES
    ConnectionSettles
    ClaimantSettles
    CallbackSettles
