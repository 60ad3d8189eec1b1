SPECIFICATION Spec
CONSTANTS
    Accounts = {"ann", "bob"}
    Live = "ann"
    Nobody = ""
    MaxAhead = 3
    Peers = {p1, p2}
    Users = {"ann", "bob"}
    Members = {"ann", "bob"}
    Admins = {"bob"}
    None = None
    MaxDeaths = 1
    Asking <- MCAsking
    Passwords = {"a", "b"}
    MaxClock = 1
    MaxAtOnce = 2
    Hurried = FALSE
INVARIANTS
    
    StreamIsOwn
    
PROPERTIES
    AccountsNotMixed
    
CHECK_DEADLOCK FALSE
