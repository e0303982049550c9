SPECIFICATION RRSpec
CONSTANTS
    Route = {a}
    Client = {1, 2}
    MaxLost = 3
INVARIANT RoundRobinTurn
