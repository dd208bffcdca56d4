SPECIFICATION FairSpec
CONSTANTS
    Users = {c, m}
    Admins = {m}
    NoUser = NoUser
    Texts = {x}
    ReplyWindow = 1
    CloseWindow = 2
    MaxTickets = 1
    MaxRows = 4
    MaxNow = 2
    Transport = "webhook"
    MaxFaults = 0
PROPERTIES
    BreachIsHandled
CHECK_DEADLOCK FALSE
