SPECIFICATION ProxySpec
CONSTANTS
    Configs <- SafetyConfigs
    Paths <- AllPaths
    Tokens <- AllTokens
    Accounts <- SafetyAccounts
    Role = {"r", "s"}
    Char = {"/", "a", "b", "c", "d", "l", "m"}
    Registration = {"g1", "g2"}
    Sizes = {2, 3}
    DefaultMax = 3
    MaxReturn = 4
    NoPolicy = NoPolicy
    NoToken = NoToken
    NoRequest = NoRequest
    NoReg = NoReg
    MaxExpiries = 1
INVARIANTS
    ProxyTypeOK
    MostSpecificWins
    HeadersTrusted
    WithinLimits
    HttpOnly
PROPERTIES
    AuthorizedIndependently
