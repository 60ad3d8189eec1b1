SPECIFICATION Spec
CONSTANTS
    u1 = u1
    u2 = u2
    Root = Root
    Daemon = Daemon
    Users = {u1, u2}
    Barred = {Root}
    Services = {Daemon}
    NoUser = NoUser
    Names = {n1}
    NoTicket = NoTicket
    Slots = 2
    Limit = 2
    Window = 2
    Lifetime = 2
    MaxTime = 5
INVARIANTS
    TypeOK
    TicketsAreEarned
PROPERTIES
    TicketsAreGoodOnce
    
SYMMETRY Symmetry
