SPECIFICATION SessionFairSpec
CONSTANTS
    Route = {o, s}
    OAuth = {o}
    Acme = {o}
    Conn = {c1, c2}
    Lifetimes = {4, 8}
    RenewBefore = 2
    ChannelCap = 1
    MaxSetup = 1
    MaxMishaps = 1
INVARIANTS
    SessionTypeOK
    ListensWithTicket
    RuntimeHeld
    NeverRefused
PROPERTIES
    ListensAgain
    CompleteSet
    HandoverSettles
