SPECIFICATION ProxyFairSpec
CONSTANTS
    Configs <- SignInConfigs
    Paths <- BrowserPaths
    Tokens = {}
    Accounts <- AllAccounts
    Role = {"r", "s"}
    Char = {"/", "a", "b", "c", "d", "l", "m"}
    Registration = {"g1", "g2"}
    Sizes = {1}
    DefaultMax = 4
    MaxReturn = 4
    NoPolicy = NoPolicy
    NoToken = NoToken
    NoRequest = NoRequest
    NoReg = NoReg
    MaxExpiries = 1
PROPERTIES
    SignInReachesBackend
