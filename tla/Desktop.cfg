SPECIFICATION DesktopFairSpec
CONSTANTS
    Contents <- AllContents
    Launches <- AllLaunches
    ClientId = FALSE
    MaxEdits = 2
    MaxMenu = 1
    MaxFaults = 1
INVARIANT DesktopTypeOK
INVARIANT OneReplacement
INVARIANT Succession
PROPERTY QuietChangeApplied
PROPERTY TunnelsReturn
CHECK_DEADLOCK FALSE
