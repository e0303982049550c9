SPECIFICATION RRSpec
CONSTANTS
    Route = {a, b}
    Client = {1, 2, 3}
    MaxLost = 3
INVARIANT StableRotation
