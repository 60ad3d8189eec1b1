SPECIFICATION Spec
CONSTANTS
    system = system
    app = app
    Pkgs = {system, app}
    Apps = {app}
    MaxVersion = 3
    MaxKernel = 2
    KEEP = 1
    KEEP_STORE = 1
    MaxId = 3
    Scenarios <- Several
INVARIANTS
    TypeOK
    
    Offered
PROPERTIES
    BeforeEveryRun
CHECK_DEADLOCK FALSE
