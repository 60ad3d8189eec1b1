SPECIFICATION Spec
CONSTANTS
    u1 = u1
    u2 = u2
    Users = {u1, u2}
    NoUser = NoUser
    MayFail = FALSE
    MayRefuse = TRUE
    MaxEvents = 2
    MaxLines = 2
    MaxDeaths = 1
INVARIANTS
    ServiceReprompts
