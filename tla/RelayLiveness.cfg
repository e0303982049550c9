SPECIFICATION RelayFairSpec
CONSTANTS
    Conn = {c1, c2}
    MaxBytes = 1
    PipeSize = 1
PROPERTIES
    RelayEnds
