SPECIFICATION Spec
CONSTANTS
    Users = {c, m}
    Admins = {}
    NoUser = NoUser
    Texts = {x}
    ReplyWindow = 1
    CloseWindow = 2
    MaxTickets = 1
    MaxRows = 4
    MaxNow = 0
    Staff = {m}
    Slots = {s1, s2}
    ListLimit = 1
    MaxTries = 2
    MaxFaults = 0
INVARIANTS
    RefusalNamesATaker
CHECK_DEADLOCK FALSE
