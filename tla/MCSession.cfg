SPECIFICATION Spec
CONSTANTS
    Programs = {p1, p2}
    CookieMod = 3
    Slots = 1
    MaxCalls = 2
    MaxHeld = 3
    Requests = {r1, r2}
    NoReq = NoReq
    MaxRequests = 2
    MaxSignals = 2
    Conns = {c1, c2}
    People = {ann, bob}
    Shared = Shared
    NoPath = NoPath
    OnDomain = TRUE
    MaxServed = 3
    PromptKeys = {"Escape", "Enter", "AltY", "Space", "Tab"}
    MaxDown = 2
    MaxCreds = 2
    Tiles = {1, 2}
    Shades = {"black", "white"}
    Blank = "blank"
    Outputs = {1, 2}
    Modes = {"wide", "tall", "small"}
    SizeOf <- MCSizeOf
    Keys = {"A", "Shift"}
    Shift = "Shift"
    MaxScreen = 2
    Bitmaps <- MCBitmaps
INVARIANTS
    TypeOK
    HeldAsAnswered
    AgentSafe
    TargetUndisturbed
    ShownAndMeant
    
    EncodesExactly
PROPERTIES
    MountsAsAnswered
    ServicesAnswer
CHECK_DEADLOCK FALSE
