SPECIFICATION Spec
CONSTANTS
    Conn = {k1, k2}
    Client = {1, 2}
    Host = {"a", "p"}
    NoHost = NoHost
    NoClient = NoClient
    Serves <- ServesSome
    Passthrough = {"p"}
    DomainRouting = TRUE
    MaxIngress = 1
    MaxHandshakes = 2
    Stray = {1}
    MaxOutages = 1
SYMMETRY ConnSymmetry
INVARIANTS
    PermitFollowsSocket
    HandshakePermitReleased
    PairedWithWinner
    OnlyWinnerAccepted
PROPERTY
    ImplementsPairing
