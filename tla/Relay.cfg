SPECIFICATION RelaySpec
CONSTANTS
    Conn = {c1}
    MaxBytes = 3
    PipeSize = 2
INVARIANTS
    RelayTypeOK
    CompleteWhenDone
    RelayInv
