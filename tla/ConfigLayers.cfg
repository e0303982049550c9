SPECIFICATION ConfigSpec
CONSTANTS
    Paths <- MCPaths
    Offers <- MCOffers
    Documents <- MCDocuments
    Overrides <- MCOverrides
    MaxEdits = 2
INVARIANT RouteProtectsPaths
INVARIANT PolicyUsable
INVARIANT UniqueIds
PROPERTY ProtectionBySwitch
PROPERTY EditIsolated
PROPERTY ShadowedEditInert
PROPERTY OnlyEditedSettings
CHECK_DEADLOCK FALSE
