SPECIFICATION Spec
CONSTANTS
    Alice = Alice
    Bob = Bob
    Accounts = {Alice, Bob}
    Root = Root
    System = System
    NoOne = NoOne
    NoConn = NoConn
    NoReq = NoReq
    NoSurface = NoSurface
    Surfaces <- TwoSurfaces
    Conns = {c1}
    Requests <- AllRequests
    MaxAttempts = 2
    Backlog = 2
    PipeMax = 1
INVARIANTS
    GrantedOnlyByConsent
    SecureOnlyWhileServing
    
PROPERTIES
    PolkitToldOfAdministrators
    ImplementsConsent
