SPECIFICATION FairSpec
CONSTANTS
    Alice = Alice
    Bob = Bob
    Accounts = {Alice}
    Root = Root
    System = System
    NoOne = NoOne
    NoConn = NoConn
    NoReq = NoReq
    NoSurface = NoSurface
    Surfaces <- AliceSurface
    Conns = {c1, c2}
    Requests <- AliceRequests
    MaxAttempts = 1
    Backlog = 2
    PipeMax = 1
PROPERTIES
    EveryRequestAnswered
