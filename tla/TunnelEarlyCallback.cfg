SPECIFICATION Spec
CONSTANTS
    Conn = {k1}
    Client = {1, 2}
    Host = {"a"}
    NoHost = NoHost
    NoClient = NoClient
    Serves <- ServesSome
    Passthrough = {}
    DomainRouting = FALSE
    MaxIngress = 0
    MaxHandshakes = 0
    Stray = {}
    MaxOutages = 0
INVARIANT WinnerCallbackBinds
