SPECIFICATION Spec
CONSTANTS
    Paths <- MCPaths
    Names = {"Ann"}
    KeyPages = {"disk", "installing"}
    MaxIds = 3
    SetupLines = 2
    NLayouts = 2
    Scans <- MCScans
    MaxLinesAhead = 2
    MaxCuts = 1
INVARIANTS
    TypeOK
    AgreedTo
    

    
CHECK_DEADLOCK FALSE
