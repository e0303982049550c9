SPECIFICATION KeyFairSpec
CONSTANTS
    Authorizer = {p}
    Request = {r1}
    Issuer = {i}
    Kid = {k1, k2}
    IssuerOf <- OneIssuer
    SignerOf <- OneSigner
    FileOf <- OneFile
    NoRequest = NoRequest
    Loader = Loader
    Refresh = 2
    Throttle = 1
    MaxStale = 1
    Timeout = 1
PROPERTIES
    RequestSettles
    RotationReached
