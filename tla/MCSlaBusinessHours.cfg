SPECIFICATION Spec
CONSTANTS
    Users = {c, m}
    Admins = {m}
    NoUser = NoUser
    Texts = {x}
    ReplyWindow = 1
    CloseWindow = 2
    MaxTickets = 1
    MaxRows = 4
    MaxNow = 2
    Transport = "polling"
    MaxFaults = 0
INVARIANTS
    CountsBusinessTime
CHECK_DEADLOCK FALSE
