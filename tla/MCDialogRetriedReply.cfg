SPECIFICATION Spec
CONSTANTS
    Users = {c, o}
    Admins = {o}
    NoUser = NoUser
    Texts = {x, NoText}
    NoText = NoText
    ReplyWindow = 1
    CloseWindow = 2
    MaxTickets = 1
    MaxRows = 3
    MaxNow = 0
    Slots = {s1, s2}
    MaxTries = 3
    MaxFaults = 1
    Chatters = {c}
    Patient = {c}
SYMMETRY SlotSymmetry
INVARIANTS
    NoOrphans
CHECK_DEADLOCK FALSE
