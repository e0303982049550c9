SPECIFICATION KeySpec
CONSTANTS
    Authorizer = {p, q}
    Request = {r1}
    Issuer = {i}
    Kid = {k1, k2}
    IssuerOf <- OneIssuer
    SignerOf <- OneSigner
    FileOf <- OneFile
    NoRequest = NoRequest
    Loader = Loader
    Refresh = 1
    Throttle = 1
    MaxStale = 1
    Timeout = 1
SYMMETRY AuthorizerSymmetry
INVARIANTS
    KeyTypeOK
    KeyInv
    CacheInv
    CacheCarriesOver
PROPERTY WithdrawnKeyBounded
