SPECIFICATION FairSpec
CONSTANTS
    u1 = u1
    u2 = u2
    Users = {u1, u2}
    NoUser = NoUser
    MayFail = TRUE
    MayRefuse = TRUE
    MaxEvents = 2
    MaxLines = 2
    MaxDeaths = 1
INVARIANTS
    TypeOK
    ScreenMatches
PROPERTIES
    UnlockedByPassword
    ScreenFollows
